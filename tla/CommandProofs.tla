----------------------------- MODULE CommandProofs -----------------------------
(***************************************************************************)
(* What is proved about the models of single commands: ReviewSessions,     *)
(* Migration, KnowledgeNotes, Setup, Imports, Inbox, Logs, Resurfacing,    *)
(* Doctor and Grounding, for all processes, sessions, texts, plans, files, *)
(* records, machines, answers and kills; at the end, about Commands, where *)
(* a behaviour is one of any of them.                                      *)
(* Each section is about the specification of one. They take variables by  *)
(* name, so that `pc` in a theorem is the control of the processes of its  *)
(* own model.                                                              *)
(***************************************************************************)
EXTENDS Commands, FiniteSetTheorems, SequenceTheorems, WellFoundedInduction, TLAPS

-----------------------------------------------------------------------------
(* ReviewSessions *)

\* The lock is held by whoever decides or has published.
Decider(p) == pc[p] \in {"deciding", "published"} => holder = p

\* A process that opens a session is the only one at that session, whose file is
\* not there yet or empty, and what it is to say was so when it was shown.
Opener(p) ==
    pc[p] \in {"shown", "filling"} =>
        LET s == job[p].session IN
        /\ s \in Session /\ job[p].stored \in R!Stored /\ job[p].stored.head <= head
        /\ session[s] = IF pc[p] = "shown" THEN "none" ELSE "partial"
        /\ \A q \in Proc \ {p} : job[q].session # s

\* A session that is not open has decided nothing, or cannot decide again: what
\* an open one says is of no later head than the present one, and of an earlier
\* one when it has decided.
Spent(s) ==
    /\ session[s] \in {"none", "partial"} => decided[s] = 0
    /\ session[s] = "open" =>
           /\ stored[s] \in R!Stored /\ stored[s].head <= head
           /\ decided[s] # 0 => stored[s].head < head

\* Between the comparison and the publication nothing else is decided.
Decision(p) ==
    pc[p] \in {"deciding", "published"} =>
        LET s == job[p].session IN
        /\ s \in Session /\ session[s] = "open"
        /\ pc[p] = "deciding" => stored[s].head = head /\ decided[s] = 0

SessionsInv ==
    /\ R!TypeOK
    /\ \A p \in Proc : Decider(p) /\ Opener(p) /\ Decision(p)
    /\ \A s \in Session : Spent(s)

\* The invariant holds at first.
LEMMA SessionsInit ==
    ASSUME R!SessionsAssumption
    PROVE  R!Init => SessionsInv
<1> USE DEF R!SessionsAssumption
<1> SUFFICES ASSUME R!Init PROVE SessionsInv
    OBVIOUS
<1>1. R!TypeOK
    BY DEF R!Init, R!TypeOK, R!NoJob, R!Stored
<1>2. \A p \in Proc : Decider(p) /\ Opener(p) /\ Decision(p)
    BY DEF R!Init, Decider, Opener, Decision
<1>3. \A s \in Session : Spent(s)
    BY DEF R!Init, Spent
<1> QED
    BY <1>1, <1>2, <1>3 DEF SessionsInv

\* Every step keeps the types.
LEMMA SessionTypes ==
    ASSUME R!SessionsAssumption, SessionsInv, R!Next
    PROVE  R!TypeOK'
<1> USE DEF R!SessionsAssumption, SessionsInv, R!TypeOK, R!End, R!Goto, R!NoJob, R!At
<1>1. ASSUME NEW p \in Proc, NEW s \in Session, R!Show(p, s) PROVE R!TypeOK'
  <2>1. [head |-> head, expired |-> FALSE] \in R!Stored
      BY DEF R!Stored
  <2> QED
      BY <1>1, <2>1 DEF R!Show
<1>2. ASSUME NEW p \in Proc, NEW s \in Session, R!Decide(p, s) PROVE R!TypeOK'
    BY <1>2 DEF R!Decide, R!Usable
<1>3. ASSUME NEW p \in Proc, R!Create(p) PROVE R!TypeOK'
    BY <1>3 DEF R!Create
<1>4. ASSUME NEW p \in Proc, R!Fill(p) PROVE R!TypeOK'
    BY <1>4 DEF R!Fill
<1>5. ASSUME NEW p \in Proc, R!Publish(p) PROVE R!TypeOK'
  <2>1. head + 1 \in 0 .. MaxHead
      BY <1>5 DEF R!Publish
  <2>2. [decided EXCEPT ![job[p].session] = @ + 1] \in [Session -> Nat]
      BY <1>5 DEF R!Publish, Decision
  <2> QED
      BY <1>5, <2>1, <2>2 DEF R!Publish
<1>6. ASSUME NEW p \in Proc, R!Consume(p) PROVE R!TypeOK'
    BY <1>6 DEF R!Consume
<1>7. ASSUME NEW p \in Proc, R!Fail(p) PROVE R!TypeOK'
    BY <1>7 DEF R!Fail
<1>8. ASSUME NEW s \in Session, R!Expire(s) PROVE R!TypeOK'
  <2>1. stored[s] \in R!Stored
      BY <1>8 DEF R!Expire, Spent
  <2>2. [stored[s] EXCEPT !.expired = TRUE] \in R!Stored
      BY <2>1 DEF R!Stored
  <2> QED
      BY <1>8, <2>2 DEF R!Expire
<1>9. ASSUME R!Otherwise PROVE R!TypeOK'
    BY <1>9 DEF R!Otherwise
<1> QED
    BY <1>1, <1>2, <1>3, <1>4, <1>5, <1>6, <1>7, <1>8, <1>9 DEF R!Next

\* Every step keeps the invariant.
LEMMA SessionsStep ==
    ASSUME R!SessionsAssumption, SessionsInv, R!Next
    PROVE  SessionsInv'
<1> USE DEF R!SessionsAssumption
<1>t. R!TypeOK /\ R!TypeOK'
    BY SessionTypes DEF SessionsInv
<1> USE DEF R!End, R!Goto, R!At
<1>1. ASSUME NEW p \in Proc, NEW s \in Session, R!Show(p, s) PROVE SessionsInv'
  <2>1. \A q \in Proc : Decider(q)' /\ Opener(q)' /\ Decision(q)'
      BY <1>1, <1>t DEF R!Show, SessionsInv, R!TypeOK, Decider, Opener, Decision, R!Stored
  <2>2. \A x \in Session : Spent(x)'
      BY <1>1, <1>t DEF R!Show, SessionsInv, Spent
  <2> QED
      BY <1>t, <2>1, <2>2 DEF SessionsInv
<1>2. ASSUME NEW p \in Proc, NEW s \in Session, R!Decide(p, s) PROVE SessionsInv'
  <2>1. \A q \in Proc : Decider(q)' /\ Opener(q)' /\ Decision(q)'
    <3>1. decided[s] = 0
        BY <1>2, <1>t DEF R!Decide, R!Usable, SessionsInv, Spent, R!TypeOK, R!Stored
    <3> QED
        BY <1>2, <1>t, <3>1
        DEF R!Decide, R!Usable, SessionsInv, R!TypeOK, Decider, Opener, Decision
  <2>2. \A x \in Session : Spent(x)'
      BY <1>2, <1>t DEF R!Decide, SessionsInv, Spent
  <2> QED
      BY <1>t, <2>1, <2>2 DEF SessionsInv
<1>3. ASSUME NEW p \in Proc, R!Create(p) PROVE SessionsInv'
  <2>1. \A q \in Proc : Decider(q)' /\ Opener(q)' /\ Decision(q)'
      BY <1>3, <1>t DEF R!Create, SessionsInv, R!TypeOK, Decider, Opener, Decision
  <2>2. \A x \in Session : Spent(x)'
      BY <1>3, <1>t DEF R!Create, SessionsInv, R!TypeOK, Spent, Opener
  <2> QED
      BY <1>t, <2>1, <2>2 DEF SessionsInv
<1>4. ASSUME NEW p \in Proc, R!Fill(p) PROVE SessionsInv'
  <2>1. \A q \in Proc : Decider(q)' /\ Opener(q)' /\ Decision(q)'
      BY <1>4, <1>t DEF R!Fill, R!NoJob, SessionsInv, R!TypeOK, Decider, Opener, Decision
  <2>2. \A x \in Session : Spent(x)'
      BY <1>4, <1>t DEF R!Fill, SessionsInv, R!TypeOK, Spent, Opener
  <2> QED
      BY <1>t, <2>1, <2>2 DEF SessionsInv
<1>5. ASSUME NEW p \in Proc, R!Publish(p) PROVE SessionsInv'
  <2>1. \A q \in Proc : Decider(q)' /\ Opener(q)' /\ Decision(q)'
      BY <1>5, <1>t
      DEF R!Publish, SessionsInv, R!TypeOK, Decider, Opener, Decision, R!Stored
  <2>2. \A x \in Session : Spent(x)'
      BY <1>5, <1>t DEF R!Publish, SessionsInv, R!TypeOK, Spent, Decision, R!Stored
  <2> QED
      BY <1>t, <2>1, <2>2 DEF SessionsInv
<1>6. ASSUME NEW p \in Proc, R!Consume(p) PROVE SessionsInv'
  <2>1. \A q \in Proc : Decider(q)' /\ Opener(q)' /\ Decision(q)'
      BY <1>6, <1>t DEF R!Consume, R!NoJob, SessionsInv, R!TypeOK, Decider, Opener, Decision
  <2>2. \A x \in Session : Spent(x)'
      BY <1>6, <1>t DEF R!Consume, SessionsInv, R!TypeOK, Spent, Decision
  <2> QED
      BY <1>t, <2>1, <2>2 DEF SessionsInv
<1>7. ASSUME NEW p \in Proc, R!Fail(p) PROVE SessionsInv'
  <2>1. \A q \in Proc : Decider(q)' /\ Opener(q)' /\ Decision(q)'
      BY <1>7, <1>t DEF R!Fail, R!NoJob, SessionsInv, R!TypeOK, Decider, Opener, Decision
  <2>2. \A x \in Session : Spent(x)'
      BY <1>7, <1>t DEF R!Fail, SessionsInv, Spent
  <2> QED
      BY <1>t, <2>1, <2>2 DEF SessionsInv
<1>8. ASSUME NEW s \in Session, R!Expire(s) PROVE SessionsInv'
  <2>1. stored[s] \in R!Stored
      BY <1>8 DEF R!Expire, SessionsInv, Spent
  <2>2. PICK aged : aged = [stored[s] EXCEPT !.expired = TRUE]
      OBVIOUS
  <2>3. aged \in R!Stored /\ aged.head = stored[s].head
      BY <2>1, <2>2 DEF R!Stored
  <2>4. stored' = [stored EXCEPT ![s] = aged]
      BY <1>8, <2>2, <1>t DEF R!Expire, R!TypeOK
  <2>5. \A q \in Proc : Decider(q)' /\ Opener(q)' /\ Decision(q)'
      BY <1>8, <1>t, <2>3, <2>4
      DEF R!Expire, SessionsInv, R!TypeOK, Decider, Opener, Decision
  <2>6. \A x \in Session : Spent(x)'
      BY <1>8, <1>t, <2>3, <2>4 DEF R!Expire, SessionsInv, R!TypeOK, Spent
  <2> QED
      BY <1>t, <2>5, <2>6 DEF SessionsInv
<1>9. ASSUME R!Otherwise PROVE SessionsInv'
  <2>1. \A q \in Proc : Decider(q)' /\ Opener(q)' /\ Decision(q)'
      BY <1>9, <1>t
      DEF R!Otherwise, SessionsInv, R!TypeOK, Decider, Opener, Decision, R!Stored
  <2>2. \A x \in Session : Spent(x)'
      BY <1>9, <1>t DEF R!Otherwise, SessionsInv, R!TypeOK, Spent, R!Stored
  <2> QED
      BY <1>t, <2>1, <2>2 DEF SessionsInv
<1> QED
    BY <1>1, <1>2, <1>3, <1>4, <1>5, <1>6, <1>7, <1>8, <1>9 DEF R!Next

\* Every step keeps the invariant of ReviewSessions.
LEMMA SessionsNext ==
    ASSUME R!SessionsAssumption
    PROVE  SessionsInv /\ [R!Next]_R!vars => SessionsInv'
<1>1. SessionsInv /\ UNCHANGED R!vars => SessionsInv'
    BY DEF SessionsInv, R!TypeOK, Decider, Opener, Decision, Spent, R!vars
<1> QED
    BY <1>1, SessionsStep

\* Only publishing decides, and what is decided is of the present head.
LEMMA SessionsDecision ==
    ASSUME R!SessionsAssumption, SessionsInv, R!Next
    PROVE  R!FirstDecision
<1>1. ASSUME NEW p \in Proc, R!Publish(p) PROVE R!FirstDecision
    BY <1>1
    DEF R!Publish, R!At, R!FirstDecision, SessionsInv, R!TypeOK, Decision, Spent,
        R!SessionsAssumption
<1>2. (\A p \in Proc : ~R!Publish(p)) => UNCHANGED decided
    BY DEF R!Next, R!Show, R!Decide, R!Create, R!Fill, R!Consume, R!Fail, R!Expire,
           R!Otherwise
<1> QED
    BY <1>1, <1>2 DEF R!FirstDecision

\* For every number of sessions, decisions and kills: a session decides once,
\* about the card it showed, though its file is consumed only afterwards
\* (apply_review_session_decision_v2, consume_session).
THEOREM SessionsDecideOnce ==
    ASSUME R!SessionsAssumption
    PROVE  R!Spec => R!DecidesOnce
<1>1. R!Init => SessionsInv
    BY SessionsInit
<1>2. SessionsInv /\ [R!Next]_R!vars => SessionsInv'
    BY SessionsNext
<1>3. SessionsInv /\ [R!Next]_R!vars => [R!FirstDecision]_R!vars
  BY SessionsDecision
<1> QED
    BY <1>1, <1>2, <1>3, PTL DEF R!Spec, R!DecidesOnce

-----------------------------------------------------------------------------
(* Migration *)

\* Who stamps or retires holds the lock, the contract is what the step calls
\* for, and what is retired stays so: only git brings it back, and not while a
\* migration runs.
Migrator(p) ==
    /\ pc[p] \in {"stamp", "link", "retire", "unlist"} => holder = p
    /\ pc[p] = "link" => tree.contract = None
    /\ pc[p] \in {"resume", "retire", "unlist"} => tree.contract = "current"
    /\ pc[p] \in {"unlist", "repair"} => tree.retired # "ours"
    /\ pc[p] = "repair" => ~tree.entry

\* Before the stamp the manifest is the committed one. The retired view is the
\* committed one, the owner's or gone, and gone only where it is not committed
\* or after the stamp. A commit is of a whole contract.
Rollback ==
    /\ tree.contract # "current" =>
           tree.entry = head.entry /\ tree.retired \in {head.retired, "theirs"}
    /\ tree.retired \in {head.retired, "theirs", None}
    /\ head.contract \in {"old", "current"}

MigrationInv == M!TypeOK /\ Rollback /\ \A p \in Proc : Migrator(p)

\* The invariant holds at first.
LEMMA MigrationInit ==
    ASSUME M!MigrationAssumption
    PROVE  M!Init => MigrationInv
<1> USE DEF M!MigrationAssumption
<1> SUFFICES ASSUME M!Init PROVE MigrationInv
    OBVIOUS
<1>1. M!TypeOK
    BY DEF M!Init, M!TypeOK, M!Tree, M!File
<1>2. Rollback
    BY DEF M!Init, Rollback
<1>3. \A p \in Proc : Migrator(p)
    BY DEF M!Init, Migrator
<1> QED
    BY <1>1, <1>2, <1>3 DEF MigrationInv

\* git checkout gives a tree that mixes the committed and the present one.
LEMMA CheckoutMixes ==
    ASSUME M!MigrationAssumption, MigrationInv, M!Checkout
    PROVE  /\ tree' \in M!Tree
           /\ tree'.contract = head.contract /\ tree'.entry = head.entry
           /\ tree'.retired = IF head.retired = None THEN tree.retired ELSE head.retired
<1>1. tree \in M!Tree /\ head \in M!Tree
    BY DEF MigrationInv, M!TypeOK
<1>2. DOMAIN tree = {"contract", "aside", "retired", "entry", "view"}
    BY <1>1 DEF M!Tree
<1>3. tree' = [x \in DOMAIN tree |-> IF x \in M!Untracked THEN tree[x] ELSE head[x]]
    BY DEF M!Checkout
<1>4. /\ "contract" \notin M!Untracked /\ "entry" \notin M!Untracked
      /\ "retired" \in M!Untracked <=> head.retired = None
    BY DEF M!Untracked
<1>5. PICK c, a, r, e, v :
          /\ c = tree'.contract /\ a = tree'.aside /\ r = tree'.retired
          /\ e = tree'.entry /\ v = tree'.view
    OBVIOUS
<1>6. /\ c \in {"old", "current", None} /\ a \in BOOLEAN /\ r \in M!File
      /\ e \in BOOLEAN /\ v \in M!File
    BY <1>1, <1>2, <1>3, <1>5 DEF M!Tree
<1>7. tree' = [contract |-> c, aside |-> a, retired |-> r, entry |-> e, view |-> v]
    BY <1>2, <1>3, <1>5
<1>8. tree' \in M!Tree
    BY <1>6, <1>7 DEF M!Tree
<1> QED
    BY <1>2, <1>3, <1>4, <1>8

\* Every step keeps the invariant.
LEMMA MigrationStep ==
    ASSUME M!MigrationAssumption, MigrationInv, M!Next
    PROVE  MigrationInv'
<1> USE DEF M!MigrationAssumption, MigrationInv, M!Goto, M!At, M!Resting
<1>1. ASSUME NEW p \in Proc, M!Migrate(p) PROVE MigrationInv'
  <2>1. M!TypeOK'
      BY <1>1 DEF M!Migrate, M!TypeOK, M!Tree, M!File
  <2>2. Rollback'
      BY <1>1 DEF M!Migrate, M!TypeOK, M!Tree, M!File, Rollback, Migrator
  <2>3. \A q \in Proc : Migrator(q)'
      BY <1>1 DEF M!Migrate, M!TypeOK, M!Tree, M!File, Migrator
  <2> QED
      BY <2>1, <2>2, <2>3
<1>2. ASSUME NEW p \in Proc, M!Lock(p) PROVE MigrationInv'
  <2>1. M!TypeOK'
      BY <1>2 DEF M!Lock, M!TypeOK, M!Tree, M!File
  <2>2. Rollback'
      BY <1>2 DEF M!Lock, M!TypeOK, M!Tree, M!File, Rollback, Migrator
  <2>3. \A q \in Proc : Migrator(q)'
      BY <1>2 DEF M!Lock, M!TypeOK, M!Tree, M!File, Migrator
  <2> QED
      BY <2>1, <2>2, <2>3
<1>3. ASSUME NEW p \in Proc, M!Resume(p) PROVE MigrationInv'
  <2>1. M!TypeOK'
      BY <1>3 DEF M!Resume, M!TypeOK, M!Tree, M!File
  <2>2. Rollback'
      BY <1>3 DEF M!Resume, M!TypeOK, M!Tree, M!File, Rollback, Migrator
  <2>3. \A q \in Proc : Migrator(q)'
      BY <1>3 DEF M!Resume, M!TypeOK, M!Tree, M!File, Migrator
  <2> QED
      BY <2>1, <2>2, <2>3
<1>4. ASSUME NEW p \in Proc, M!MoveAside(p) PROVE MigrationInv'
  <2>1. M!TypeOK'
      BY <1>4 DEF M!MoveAside, M!TypeOK, M!Tree, M!File
  <2>2. Rollback'
      BY <1>4 DEF M!MoveAside, M!TypeOK, M!Tree, M!File, Rollback, Migrator
  <2>3. \A q \in Proc : Migrator(q)'
      BY <1>4 DEF M!MoveAside, M!TypeOK, M!Tree, M!File, Migrator
  <2> QED
      BY <2>1, <2>2, <2>3
<1>5. ASSUME NEW p \in Proc, M!Link(p) PROVE MigrationInv'
  <2>1. M!TypeOK'
      BY <1>5 DEF M!Link, M!TypeOK, M!Tree, M!File
  <2>2. Rollback'
      BY <1>5 DEF M!Link, M!TypeOK, M!Tree, M!File, Rollback, Migrator
  <2>3. \A q \in Proc : Migrator(q)'
      BY <1>5 DEF M!Link, M!TypeOK, M!Tree, M!File, Migrator
  <2> QED
      BY <2>1, <2>2, <2>3
<1>6. ASSUME NEW p \in Proc, M!Retire(p) PROVE MigrationInv'
  <2>1. M!TypeOK'
      BY <1>6 DEF M!Retire, M!Change, M!TypeOK, M!Tree, M!File
  <2>2. Rollback'
      BY <1>6 DEF M!Retire, M!Change, M!TypeOK, M!Tree, M!File, Rollback, Migrator
  <2>3. \A q \in Proc : Migrator(q)'
      BY <1>6 DEF M!Retire, M!Change, M!TypeOK, M!Tree, M!File, Migrator
  <2> QED
      BY <2>1, <2>2, <2>3
<1>7. ASSUME NEW p \in Proc, M!Unlist(p) PROVE MigrationInv'
  <2>1. M!TypeOK'
      BY <1>7 DEF M!Unlist, M!Change, M!TypeOK, M!Tree, M!File
  <2>2. Rollback'
      BY <1>7 DEF M!Unlist, M!Change, M!TypeOK, M!Tree, M!File, Rollback, Migrator
  <2>3. \A q \in Proc : Migrator(q)'
      BY <1>7 DEF M!Unlist, M!Change, M!TypeOK, M!Tree, M!File, Migrator
  <2> QED
      BY <2>1, <2>2, <2>3
<1>8. ASSUME NEW p \in Proc, M!Repair(p) PROVE MigrationInv'
  <2>1. M!TypeOK'
      BY <1>8 DEF M!Repair, M!Change, M!TypeOK, M!Tree, M!File
  <2>2. Rollback'
      BY <1>8 DEF M!Repair, M!Change, M!TypeOK, M!Tree, M!File, Rollback, Migrator
  <2>3. \A q \in Proc : Migrator(q)'
      BY <1>8 DEF M!Repair, M!Change, M!TypeOK, M!Tree, M!File, Migrator
  <2> QED
      BY <2>1, <2>2, <2>3
<1>9. ASSUME NEW p \in Proc, M!Fail(p) PROVE MigrationInv'
  <2>1. M!TypeOK'
      BY <1>9 DEF M!Fail, M!End, M!TypeOK, M!Tree, M!File
  <2>2. Rollback'
      BY <1>9 DEF M!Fail, M!End, M!TypeOK, M!Tree, M!File, Rollback, Migrator
  <2>3. \A q \in Proc : Migrator(q)'
      BY <1>9 DEF M!Fail, M!End, M!TypeOK, M!Tree, M!File, Migrator
  <2> QED
      BY <2>1, <2>2, <2>3
<1>10. ASSUME NEW p \in Proc, M!Crash(p) PROVE MigrationInv'
  <2>1. M!TypeOK'
      BY <1>10 DEF M!Crash, M!End, M!TypeOK, M!Tree, M!File
  <2>2. Rollback'
      BY <1>10 DEF M!Crash, M!End, M!TypeOK, M!Tree, M!File, Rollback, Migrator
  <2>3. \A q \in Proc : Migrator(q)'
      BY <1>10 DEF M!Crash, M!End, M!TypeOK, M!Tree, M!File, Migrator
  <2> QED
      BY <2>1, <2>2, <2>3
<1>11. ASSUME M!Dashboard PROVE MigrationInv'
  <2>1. M!TypeOK'
      BY <1>11 DEF M!Dashboard, M!Change, M!TypeOK, M!Tree, M!File
  <2>2. Rollback'
      BY <1>11 DEF M!Dashboard, M!Change, M!TypeOK, M!Tree, M!File, Rollback
  <2>3. \A q \in Proc : Migrator(q)'
      BY <1>11 DEF M!Dashboard, M!Change, M!TypeOK, M!Tree, M!File, Migrator
  <2> QED
      BY <2>1, <2>2, <2>3
<1>12. ASSUME M!EditTree PROVE MigrationInv'
  <2>1. M!TypeOK'
      BY <1>12 DEF M!EditTree, M!Change, M!TypeOK, M!Tree, M!File
  <2>2. Rollback'
      BY <1>12 DEF M!EditTree, M!Change, M!TypeOK, M!Tree, M!File, Rollback
  <2>3. \A q \in Proc : Migrator(q)'
      BY <1>12 DEF M!EditTree, M!Change, M!TypeOK, M!Tree, M!File, Migrator
  <2> QED
      BY <2>1, <2>2, <2>3
<1>13. ASSUME M!Commit PROVE MigrationInv'
  <2>1. M!TypeOK'
      BY <1>13 DEF M!Commit, M!TypeOK, M!Tree, M!File
  <2>2. Rollback'
      BY <1>13 DEF M!Commit, M!TypeOK, M!Tree, M!File, Rollback
  <2>3. \A q \in Proc : Migrator(q)'
      BY <1>13 DEF M!Commit, M!TypeOK, M!Tree, M!File, Migrator
  <2> QED
      BY <2>1, <2>2, <2>3
<1>14. ASSUME M!Checkout PROVE MigrationInv'
  <2>0. UNCHANGED <<head, holder, pc>> /\ \A q \in Proc : pc[q] \in {"idle", "done"}
      BY <1>14 DEF M!Checkout
  <2>1. M!TypeOK'
      BY <1>14, <2>0, CheckoutMixes DEF M!TypeOK
  <2>2. Rollback'
      BY <1>14, <2>0, CheckoutMixes DEF Rollback
  <2>3. \A q \in Proc : Migrator(q)'
      BY <2>0 DEF Migrator
  <2> QED
      BY <2>1, <2>2, <2>3
<1> QED
    BY <1>1, <1>2, <1>3, <1>4, <1>5, <1>6, <1>7, <1>8, <1>9, <1>10, <1>11, <1>12, <1>13, <1>14 DEF M!Next

\* Every step keeps the invariant of Migration.
LEMMA MigrationNext ==
    ASSUME M!MigrationAssumption
    PROVE  MigrationInv /\ [M!Next]_M!vars => MigrationInv'
<1>1. MigrationInv /\ UNCHANGED M!vars => MigrationInv'
    BY DEF MigrationInv, M!TypeOK, Rollback, Migrator, M!vars
<1> QED
    BY <1>1, MigrationStep

\* Reporting success is the last step of a migration whose others are done.
LEMMA MigrationFinish ==
    ASSUME M!MigrationAssumption, MigrationInv, M!Next
    PROVE  M!OwnersChanges /\ M!Success
<1>1. M!OwnersChanges
    BY DEF MigrationInv, Rollback, M!OwnersChanges, M!MigrationAssumption
<1>2. ASSUME NEW p \in Proc, M!At(p, "repair"), pc'[p] = "done"
      PROVE  M!Repair(p)
  <2> USE <1>2 DEF M!At, M!Goto, MigrationInv, M!TypeOK
  <2>1. ASSUME NEW q \in Proc,
               \/ M!Migrate(q) \/ M!Lock(q) \/ M!Resume(q) \/ M!MoveAside(q) \/ M!Link(q)
               \/ M!Retire(q) \/ M!Unlist(q) \/ M!Fail(q) \/ M!Crash(q)
        PROVE  FALSE
      BY <2>1 DEF M!Migrate, M!Lock, M!Resume, M!MoveAside, M!Link, M!Retire, M!Unlist,
                  M!Fail, M!Crash, M!End
  <2>2. ASSUME NEW q \in Proc, M!Repair(q) PROVE q = p
      BY <2>2 DEF M!Repair
  <2>3. ~M!Dashboard /\ ~M!EditTree /\ ~M!Commit /\ ~M!Checkout
      BY DEF M!Dashboard, M!EditTree, M!Commit, M!Checkout, M!Resting
  <2> QED
      BY <2>1, <2>2, <2>3 DEF M!Next
<1>3. ASSUME NEW p \in Proc, M!Repair(p)
      PROVE  /\ tree'.contract = "current" /\ tree'.view = "ours"
             /\ ~tree'.entry /\ tree'.retired # "ours"
    BY <1>3 DEF M!Repair, M!Change, M!At, MigrationInv, M!TypeOK, M!Tree, Migrator
<1> QED
    BY <1>1, <1>2, <1>3 DEF M!Success

\* For every number of processes, kills, commits, checkouts and edits: a tree
\* that is refused as dirty before the stamp is so by its owner's changes, and a
\* migration that reports success leaves nothing of the old vocabulary
\* (migrate_v2, require_clean_git_tree, retire_generated_dashboard_file_locked_v2).
THEOREM MigrationsComplete ==
    ASSUME M!MigrationAssumption
    PROVE  M!Spec => M!MigrationCompletes
<1>1. M!Init => MigrationInv
    BY MigrationInit
<1>2. MigrationInv /\ [M!Next]_M!vars => MigrationInv'
    BY MigrationNext
<1>3. MigrationInv /\ [M!Next]_M!vars => [M!OwnersChanges /\ M!Success]_M!vars
  BY MigrationFinish
<1> QED
    BY <1>1, <1>2, <1>3, PTL DEF M!Spec, M!MigrationCompletes

-----------------------------------------------------------------------------
(* KnowledgeNotes *)

\* What p is to publish: a draft, or the approval of what its card showed.
Publishes(p) ==
    pc[p] \in {"create", "replace", "exchange"} =>
        LET new == job[p].new IN
        /\ new \in K!Note
        /\ new.reviewed => new.text = job[p].shown /\ new.approved = new.text

NotesInv == K!TypeOK /\ \A p \in Proc : Publishes(p)

\* A draft is a note nobody has reviewed.
LEMMA DraftIsUnreviewed ==
    ASSUME K!NotesAssumption, NEW t \in Text, NEW old \in K!Note \cup {None}
    PROVE  K!Draft(t, old) \in K!Note /\ ~K!Draft(t, old).reviewed
<1>1. CASE old = None
    BY <1>1 DEF K!Draft, K!Note
<1>2. CASE old \in K!Note
  <2>1. old.approved \in Text \cup {None}
      BY <1>2 DEF K!Note
  <2> QED
      BY <1>2, <2>1 DEF K!Draft, K!Note, K!NotesAssumption
<1> QED
    BY <1>1, <1>2

\* The approval of a current note says that its text is reviewed, and nothing
\* else.
LEMMA ApprovalIsOfTheText ==
    ASSUME NEW n \in K!Note
    PROVE  LET approved == [n EXCEPT !.reviewed = TRUE, !.approved = n.text]
           IN  /\ approved \in K!Note /\ approved.text = n.text
               /\ approved.approved = n.text
    BY DEF K!Note

\* The jobs of a draft and of a card, whole.
LEMMA JobFields ==
    ASSUME NEW x, NEW y, NEW z
    PROVE  /\ [K!NoJob EXCEPT !.seen = x, !.new = y] = [seen |-> x, new |-> y, shown |-> None]
           /\ [K!NoJob EXCEPT !.shown = z] = [seen |-> None, new |-> None, shown |-> z]
<1>1. PICK r : r = [K!NoJob EXCEPT !.seen = x]
    OBVIOUS
<1>2. r = [seen |-> x, new |-> None, shown |-> None]
    BY <1>1 DEF K!NoJob
<1>3. [r EXCEPT !.new = y] = [seen |-> x, new |-> y, shown |-> None]
    BY <1>2
<1>4. [K!NoJob EXCEPT !.shown = z] = [seen |-> None, new |-> None, shown |-> z]
    BY DEF K!NoJob
<1> QED
    BY <1>1, <1>3, <1>4

\* Every step keeps the invariant.
LEMMA NotesStep ==
    ASSUME K!NotesAssumption, NotesInv, K!Next
    PROVE  NotesInv'
<1> USE DEF K!NotesAssumption, NotesInv, K!Goto, K!At
<1>1. ASSUME NEW p \in Proc, NEW t \in Text, K!Write(p, t) PROVE NotesInv'
  <2>1. PICK new : new = K!Draft(t, note)
      OBVIOUS
  <2>2. new \in K!Note /\ ~new.reviewed
      BY <2>1, DraftIsUnreviewed DEF K!TypeOK
  <2>a. K!Set(p, [K!NoJob EXCEPT !.seen = note, !.new = new])
      BY ONLY <1>1, <2>1, Zenon DEF K!Write
  <2>3. job' = [job EXCEPT ![p] = [seen |-> note, new |-> new, shown |-> None]]
      BY <2>a, JobFields DEF K!Set
  <2>4. K!TypeOK'
      BY <1>1, <2>2, <2>3 DEF K!Write, K!TypeOK
  <2>5. \A q \in Proc : Publishes(q)'
      BY <1>1, <2>2, <2>3 DEF K!Write, K!TypeOK, Publishes
  <2> QED
      BY <2>4, <2>5
<1>2. ASSUME NEW p \in Proc, K!Create(p) PROVE NotesInv'
  <2>1. K!TypeOK'
      BY <1>2 DEF K!Create, K!End, K!Set, K!NoJob, K!TypeOK, Publishes
  <2>2. \A q \in Proc : Publishes(q)'
      BY <1>2 DEF K!Create, K!End, K!Set, K!NoJob, K!TypeOK, Publishes
  <2> QED
      BY <2>1, <2>2
<1>3. ASSUME NEW p \in Proc, K!Show(p) PROVE NotesInv'
  <2>1. note.revision \in Text
      BY <1>3 DEF K!Show, K!TypeOK, K!Note
  <2>a. job' = [job EXCEPT ![p] = [seen |-> None, new |-> None, shown |-> note.revision]]
      BY <1>3, JobFields DEF K!Show, K!Set
  <2>2. K!TypeOK'
      BY <1>3, <2>1, <2>a DEF K!Show, K!TypeOK
  <2>3. \A q \in Proc : Publishes(q)'
      BY <1>3, <2>a DEF K!Show, K!TypeOK, Publishes
  <2> QED
      BY <2>2, <2>3
<1>4. ASSUME NEW p \in Proc, K!Approve(p) PROVE NotesInv'
  <2>1. note \in K!Note /\ note.text = job[p].shown
      BY <1>4 DEF K!Approve, K!TypeOK, K!Current
  <2>2. PICK new : new = [note EXCEPT !.reviewed = TRUE, !.approved = note.text]
      OBVIOUS
  <2>3. new \in K!Note /\ new.text = job[p].shown /\ new.approved = new.text
      BY <2>1, <2>2, ApprovalIsOfTheText
  <2>a. K!Set(p, [K!NoJob EXCEPT !.seen = note, !.shown = job[p].shown, !.new = new])
      BY ONLY <1>4, <2>2, Zenon DEF K!Approve, K!Approval
  <2>4. job' = [job EXCEPT ![p] = [seen |-> note, new |-> new, shown |-> job[p].shown]]
    <3>1. PICK r : r = [K!NoJob EXCEPT !.seen = note]
        OBVIOUS
    <3>2. PICK s : s = [r EXCEPT !.shown = job[p].shown]
        OBVIOUS
    <3>3. s = [seen |-> note, new |-> None, shown |-> job[p].shown]
        BY <3>1, <3>2 DEF K!NoJob
    <3>4. [s EXCEPT !.new = new] = [seen |-> note, new |-> new, shown |-> job[p].shown]
        BY <3>3
    <3>5. K!Set(p, [s EXCEPT !.new = new])
        BY ONLY <2>a, <3>1, <3>2, Zenon
    <3> QED
        BY <3>4, <3>5 DEF K!Set
  <2>5. K!TypeOK'
      BY <1>4, <2>1, <2>3, <2>4 DEF K!Approve, K!TypeOK
  <2>6. \A q \in Proc : Publishes(q)'
      BY <1>4, <2>3, <2>4 DEF K!Approve, K!TypeOK, Publishes
  <2> QED
      BY <2>5, <2>6
<1>5. ASSUME NEW p \in Proc, K!MoveAside(p) PROVE NotesInv'
  <2>1. K!TypeOK'
      BY <1>5 DEF K!MoveAside, K!TypeOK, Publishes
  <2>2. \A q \in Proc : Publishes(q)'
      BY <1>5 DEF K!MoveAside, K!TypeOK, Publishes
  <2> QED
      BY <2>1, <2>2
<1>6. ASSUME NEW p \in Proc, K!Exchange(p) PROVE NotesInv'
  <2>1. K!TypeOK'
      BY <1>6 DEF K!Exchange, K!End, K!Set, K!NoJob, K!TypeOK, Publishes
  <2>2. \A q \in Proc : Publishes(q)'
      BY <1>6 DEF K!Exchange, K!End, K!Set, K!NoJob, K!TypeOK, Publishes
  <2> QED
      BY <2>1, <2>2
<1>7. ASSUME NEW p \in Proc, K!Restore(p) PROVE NotesInv'
  <2>1. K!TypeOK'
      BY <1>7 DEF K!Restore, K!End, K!Set, K!NoJob, K!TypeOK, Publishes
  <2>2. \A q \in Proc : Publishes(q)'
      BY <1>7 DEF K!Restore, K!End, K!Set, K!NoJob, K!TypeOK, Publishes
  <2> QED
      BY <2>1, <2>2
<1>8. ASSUME NEW p \in Proc, K!Stop(p) PROVE NotesInv'
  <2>1. K!TypeOK'
      BY <1>8 DEF K!Stop, K!End, K!Set, K!NoJob, K!TypeOK, Publishes
  <2>2. \A q \in Proc : Publishes(q)'
      BY <1>8 DEF K!Stop, K!End, K!Set, K!NoJob, K!TypeOK, Publishes
  <2> QED
      BY <2>1, <2>2
<1>9. ASSUME NEW p \in Proc, K!Crash(p) PROVE NotesInv'
  <2>1. K!TypeOK'
      BY <1>9 DEF K!Crash, K!End, K!Set, K!NoJob, K!TypeOK, Publishes
  <2>2. \A q \in Proc : Publishes(q)'
      BY <1>9 DEF K!Crash, K!End, K!Set, K!NoJob, K!TypeOK, Publishes
  <2> QED
      BY <2>1, <2>2
<1>10. ASSUME NEW t \in Text, K!EditNote(t) PROVE NotesInv'
  <2>1. note' \in K!Note
      BY <1>10 DEF K!EditNote, K!TypeOK, K!Note
  <2> QED
      BY <1>10, <2>1 DEF K!EditNote, K!TypeOK, Publishes
<1>11. ASSUME K!Copy PROVE NotesInv'
    BY <1>11 DEF K!Copy, K!TypeOK, Publishes
<1> QED
    BY <1>1, <1>2, <1>3, <1>4, <1>5, <1>6, <1>7, <1>8, <1>9, <1>10, <1>11 DEF K!Next

\* The invariant of KnowledgeNotes holds at first,
LEMMA NotesInit == ASSUME K!NotesAssumption PROVE K!Init => NotesInv
<1>0. K!NoJob \in [seen : K!Note \cup {None}, new : K!Note \cup {None},
                     shown : Text \cup {None}]
    BY DEF K!NoJob
<1>1. K!Init => K!TypeOK
    BY <1>0 DEF K!Init, K!TypeOK
<1>2. K!Init => \A p \in Proc : Publishes(p)
    BY DEF K!Init, Publishes
<1> QED
    BY <1>1, <1>2 DEF NotesInv

\* and every step keeps it.
LEMMA NotesNext == ASSUME K!NotesAssumption PROVE NotesInv /\ [K!Next]_K!vars => NotesInv'
<1>1. NotesInv /\ UNCHANGED K!vars => NotesInv'
    BY DEF NotesInv, K!TypeOK, Publishes, K!vars
<1> QED
    BY <1>1, NotesStep

\* What becomes reviewed is put there by the exchange.
LEMMA NotesApproval ==
    ASSUME K!NotesAssumption, NotesInv, K!Next
    PROVE  K!ApprovedAsShown
<1> SUFFICES ASSUME NEW p \in Proc, K!At(p, "exchange"), pc'[p] = "idle",
                    note = None, note' # None, note' # aside[p], note'.reviewed
             PROVE  note'.text = job[p].shown /\ note'.approved = note'.text
    BY DEF K!ApprovedAsShown
<1> USE DEF K!At
<1>0. pc \in [Proc -> {"idle", "create", "shown", "replace", "exchange"}] /\ Publishes(p)
    BY DEF NotesInv, K!TypeOK
<1>1. CASE K!Exchange(p)
    BY <1>0, <1>1 DEF K!Exchange, Publishes
<1>2. ~K!Restore(p) /\ ~K!Stop(p) /\ ~K!Crash(p) /\ ~K!Create(p)
    BY DEF K!Restore, K!Stop, K!Crash, K!Create
<1>3. \A t \in Text : ~K!Write(p, t) /\ ~K!EditNote(t)
    BY DEF K!Write, K!EditNote
<1>4. ~K!Show(p) /\ ~K!Approve(p) /\ ~K!MoveAside(p) /\ ~K!Copy
    BY DEF K!Show, K!Approve, K!MoveAside, K!Copy
<1>5. ASSUME NEW q \in Proc \ {p},
             \/ \E t \in Text : K!Write(q, t)
             \/ K!Create(q) \/ K!Show(q) \/ K!Approve(q)
             \/ K!MoveAside(q) \/ K!Exchange(q) \/ K!Restore(q) \/ K!Stop(q)
             \/ K!Crash(q)
      PROVE  FALSE
  <2>1. PICK step : pc' = [pc EXCEPT ![q] = step]
      BY <1>5 DEF K!Write, K!Create, K!Show, K!Approve, K!MoveAside, K!Exchange,
                  K!Restore, K!Stop, K!Crash, K!End, K!Goto
  <2> QED
      BY <1>0, <2>1
<1> QED
    BY <1>1, <1>2, <1>3, <1>4, <1>5 DEF K!Next

\* For every number of processes, texts, edits and kills: what becomes reviewed
\* is the text whose revision the owner saw on the card (approve_knowledge).
THEOREM NotesReviewedAsShown ==
    ASSUME K!NotesAssumption
    PROVE  K!Spec => K!ReviewedAsShown
<1>1. K!Init => NotesInv
    BY NotesInit
<1>2. NotesInv /\ [K!Next]_K!vars => NotesInv'
    BY NotesNext
<1>3. NotesInv /\ [K!Next]_K!vars => [K!ApprovedAsShown]_K!vars
  BY NotesApproval
<1> QED
    BY <1>1, <1>2, <1>3, PTL DEF K!Spec, K!ReviewedAsShown

-----------------------------------------------------------------------------
(* Setup *)

\* What the owner has still to write was never seen: not in the profile, not in
\* what a plan says, not in what a process read of one.
Fresh ==
    /\ world.profile \notin edits
    /\ \A q \in Plan : stored[q] \in U!Stored => stored[q].seen.profile \notin edits
    /\ \A p \in User : job[p].stored \in U!Stored => job[p].stored.seen.profile \notin edits

\* Who plans, asks or sets up holds the lock. Once the plan is rechecked, the
\* profile to replace is the one it says: an edit between the approval and the
\* recheck is of something the plan does not say. Beyond the Inbox, what there
\* is to replace may be replaced.
Installer(p) ==
    /\ pc[p] \in {"planning", "asked", "approved", "valid"} \cup U!Steps => holder = p
    /\ pc[p] \in {"planning", "asked", "approved", "valid"} =>
           job[p].plan \in Plan /\ job[p].stored \in U!Stored
    /\ pc[p] = "approved" =>
           world.profile = job[p].profile \/ world.profile # job[p].stored.seen.profile
    /\ pc[p] \in {"valid"} \cup U!Steps /\ job[p].plan # None =>
           job[p].stored \in U!Stored /\ job[p].profile = job[p].stored.seen.profile
    /\ pc[p] \in U!Steps \ {"inbox"} => job[p].profile \in {None, "mine"} \/ job[p].replace

SetupInv ==
    /\ U!TypeOK
    /\ Fresh
    /\ \A q \in Plan : plan[q] = "open" => stored[q] \in U!Stored
    /\ \A p \in User : Installer(p)

\* The jobs and the controls of the type invariant.
SetupJob == [plan : Plan \cup {None}, stored : U!Stored \cup {None},
             replace : BOOLEAN, profile : U!Profile \cup {None}]
SetupPc == {"idle", "planning", "asked", "approved", "valid"} \cup U!Steps \cup U!LegacySteps

\* Plans of which every open one says something, and none what the owner has
\* still to write.
PlansOK(pl, st) ==
    /\ pl \in [Plan -> {"none", "partial", "open", "consumed"}]
    /\ st \in [Plan -> U!Stored \cup {None}]
    /\ \A q \in Plan : pl[q] = "open" => st[q] \in U!Stored
    /\ \A q \in Plan : st[q] \in U!Stored => st[q].seen.profile \notin edits

\* A step of p that leaves another's approval alone keeps what is said of the
\* others: it is enough to look at p and at what it wrote.
LEMMA OthersUntouched ==
    ASSUME U!SetupAssumption, SetupInv, NEW p \in User,
           UNCHANGED edits, PlansOK(plan', stored'),
           world' \in U!World, world'.profile \notin edits,
           \/ world'.profile = world.profile
           \/ \A q \in User \ {p} : pc[q] # "approved",
           NEW j \in SetupJob, job' = [job EXCEPT ![p] = j],
           NEW step \in SetupPc, pc' = [pc EXCEPT ![p] = step],
           holder' \in User \cup {None},
           \A q \in User \ {p} : holder = q => holder' = q,
           j.stored \in U!Stored => j.stored.seen.profile \notin edits,
           Installer(p)'
    PROVE  SetupInv'
<1>1. U!TypeOK'
    BY DEF SetupInv, U!TypeOK, SetupJob, SetupPc, PlansOK
<1>2. \A q \in User \ {p} : job'[q] = job[q] /\ pc'[q] = pc[q]
    BY DEF SetupInv, U!TypeOK
<1>3. job'[p] = j
    BY DEF SetupInv, U!TypeOK
<1>4. Fresh'
    BY <1>2, <1>3 DEF SetupInv, Fresh, PlansOK
<1>5. \A q \in User \ {p} : Installer(q)'
    BY <1>2 DEF SetupInv, Installer
<1> QED
    BY <1>1, <1>4, <1>5 DEF SetupInv, PlansOK

\* What the invariant says of the plans and of the job and step of one process.
LEMMA SetupFacts ==
    ASSUME SetupInv, NEW p \in User
    PROVE  /\ PlansOK(plan, stored)
           /\ world \in U!World /\ world.profile \notin edits
           /\ world.profile \in U!Profile \cup {None}
           /\ job[p] \in SetupJob /\ pc[p] \in SetupPc
           /\ holder \in User \cup {None}
           /\ job[p].stored \in U!Stored => job[p].stored.seen.profile \notin edits
           /\ Installer(p)
    BY DEF SetupInv, U!TypeOK, Fresh, PlansOK, SetupJob, SetupPc, U!World

\* The end of a command.
LEMMA SetupEnds ==
    ASSUME U!SetupAssumption, SetupInv, NEW p \in User, U!End(p),
           UNCHANGED edits, PlansOK(plan', stored'),
           world' \in U!World, world'.profile \notin edits,
           \/ world'.profile = world.profile
           \/ \A q \in User \ {p} : pc[q] # "approved"
    PROVE  SetupInv'
<1>1. U!NoJob \in SetupJob /\ U!NoJob.plan = None /\ U!NoJob.stored = None
    BY DEF U!NoJob, SetupJob
<1>2. job' = [job EXCEPT ![p] = U!NoJob] /\ pc' = [pc EXCEPT ![p] = "idle"] /\ "idle" \in SetupPc
    BY DEF U!End, U!Goto, SetupPc
<1>3. holder' \in User \cup {None} /\ \A q \in User \ {p} : holder = q => holder' = q
    BY SetupFacts DEF U!End
<1>4. job'[p] = U!NoJob /\ pc'[p] = "idle"
    BY <1>2 DEF SetupInv, U!TypeOK
<1>5. Installer(p)'
    BY <1>1, <1>4 DEF Installer, U!Steps
<1> QED
    BY <1>1, <1>2, <1>3, <1>5, OthersUntouched DEF U!SetupAssumption

\* A step that changes no job, no lock and no plan.
LEMMA SetupGoes ==
    ASSUME U!SetupAssumption, SetupInv, NEW p \in User,
           NEW step \in SetupPc, pc' = [pc EXCEPT ![p] = step],
           UNCHANGED <<edits, plan, stored, job, holder>>,
           world' \in U!World, world'.profile = world.profile,
           Installer(p)'
    PROVE  SetupInv'
<1>1. job' = [job EXCEPT ![p] = job[p]]
    BY DEF SetupInv, U!TypeOK
<1>2. PlansOK(plan', stored')
    BY SetupFacts
<1> QED
    BY <1>1, <1>2, SetupFacts, OthersUntouched

\* Plans that change while nothing else does.
LEMMA PlansKept ==
    ASSUME SetupInv, PlansOK(plan', stored'), UNCHANGED <<edits, world, holder, pc, job>>
    PROVE  SetupInv'
<1>1. U!TypeOK'
    BY DEF SetupInv, U!TypeOK, PlansOK
<1>2. Fresh'
    BY DEF SetupInv, Fresh, PlansOK
<1>3. \A p \in User : Installer(p)'
    BY DEF SetupInv, Installer
<1> QED
    BY <1>1, <1>2, <1>3 DEF SetupInv, PlansOK

\* Every step keeps the invariant.
LEMMA SetupStep ==
    ASSUME U!SetupAssumption, SetupInv, U!Next
    PROVE  SetupInv'
<1> USE DEF U!SetupAssumption
<1>0. /\ pc \in [User -> SetupPc] /\ job \in [User -> SetupJob]
      /\ edits \in SUBSET Edit /\ Fresh
    BY DEF SetupInv, U!TypeOK, SetupJob, SetupPc
<1> USE DEF U!Goto, U!At
<1>1. ASSUME NEW p \in User, U!Recheck(p) PROVE SetupInv'
  <2>1. /\ pc' = [pc EXCEPT ![p] = "valid"] /\ "valid" \in SetupPc
        /\ UNCHANGED <<edits, plan, stored, job, holder>>
      BY <1>1 DEF U!Recheck, U!plans, SetupPc, U!Steps, U!LegacySteps
  <2>2. world' \in U!World /\ world'.profile = world.profile
      BY <1>1, SetupFacts DEF U!Recheck, U!World
  <2>3. Installer(p)'
      BY <1>0, <1>1, <2>1, <2>2, SetupFacts DEF U!Recheck, U!Current, U!Observed, Installer, U!Steps
  <2> QED
      BY <2>1, <2>2, <2>3, SetupGoes
<1>2. ASSUME NEW p \in User, U!EnsureInbox(p) PROVE SetupInv'
  <2>1. /\ pc' = [pc EXCEPT ![p] = "scaffold"] /\ "scaffold" \in SetupPc
        /\ UNCHANGED <<edits, plan, stored, job, holder>>
      BY <1>2 DEF U!EnsureInbox, U!Change, U!plans, SetupPc, U!Steps, U!LegacySteps
  <2>2. world' \in U!World /\ world'.profile = world.profile
      BY <1>2, SetupFacts DEF U!EnsureInbox, U!Change, U!World
  <2>3. Installer(p)'
      BY <1>0, <1>2, <2>1, <2>2, SetupFacts DEF U!EnsureInbox, Installer, U!Steps
  <2> QED
      BY <2>1, <2>2, <2>3, SetupGoes
<1>3. ASSUME NEW p \in User, U!WriteMarker(p) PROVE SetupInv'
  <2>1. /\ pc' = [pc EXCEPT ![p] = "dashboard"] /\ "dashboard" \in SetupPc
        /\ UNCHANGED <<edits, plan, stored, job, holder>>
      BY <1>3 DEF U!WriteMarker, U!Change, U!plans, SetupPc, U!Steps, U!LegacySteps
  <2>2. world' \in U!World /\ world'.profile = world.profile
      BY <1>3, SetupFacts DEF U!WriteMarker, U!Change, U!World
  <2>3. Installer(p)'
      BY <1>0, <1>3, <2>1, <2>2, SetupFacts DEF U!WriteMarker, Installer, U!Steps
  <2> QED
      BY <2>1, <2>2, <2>3, SetupGoes
<1>4. ASSUME NEW p \in User, U!EnsureDashboard(p) PROVE SetupInv'
  <2>1. /\ pc' = [pc EXCEPT ![p] = "profile"] /\ "profile" \in SetupPc
        /\ UNCHANGED <<edits, plan, stored, job, holder>>
      BY <1>4 DEF U!EnsureDashboard, U!Change, U!plans, SetupPc, U!Steps, U!LegacySteps
  <2>2. world' \in U!World /\ world'.profile = world.profile
      BY <1>4, SetupFacts DEF U!EnsureDashboard, U!Change, U!World
  <2>3. Installer(p)'
      BY <1>0, <1>4, <2>1, <2>2, SetupFacts DEF U!EnsureDashboard, Installer, U!Steps
  <2> QED
      BY <2>1, <2>2, <2>3, SetupGoes
<1>5. ASSUME NEW p \in User, U!LegacyInbox(p) PROVE SetupInv'
  <2>1. /\ pc' = [pc EXCEPT ![p] = "legacyProfile"] /\ "legacyProfile" \in SetupPc
        /\ UNCHANGED <<edits, plan, stored, job, holder>>
      BY <1>5 DEF U!LegacyInbox, U!Change, U!plans, SetupPc, U!Steps, U!LegacySteps
  <2>2. world' \in U!World /\ world'.profile = world.profile
      BY <1>5, SetupFacts DEF U!LegacyInbox, U!Change, U!World
  <2>3. Installer(p)'
      BY <1>0, <1>5, <2>1, <2>2, SetupFacts DEF U!LegacyInbox, Installer, U!Steps
  <2> QED
      BY <2>1, <2>2, <2>3, SetupGoes
<1>6. ASSUME NEW p \in User, U!Scaffold(p) PROVE SetupInv'
  <2>1. PICK step \in {"marker", "dashboard"} : pc' = [pc EXCEPT ![p] = step]
      BY <1>6 DEF U!Scaffold, U!Change
  <2>2. step \in SetupPc /\ UNCHANGED <<edits, plan, stored, job, holder>>
      BY <1>6, <2>1 DEF U!Scaffold, U!Change, U!plans, SetupPc, U!Steps
  <2>3. world' \in U!World /\ world'.profile = world.profile
      BY <1>6, SetupFacts DEF U!Scaffold, U!Change, U!World
  <2>4. Installer(p)'
      BY <1>0, <1>6, <2>1, <2>2, <2>3, SetupFacts DEF U!Scaffold, Installer, U!Steps
  <2> QED
      BY <2>1, <2>2, <2>3, <2>4, SetupGoes
<1>7. ASSUME NEW p \in User, U!Fail(p) PROVE SetupInv'
    BY <1>7, SetupFacts, SetupEnds DEF U!Fail, U!plans, PlansOK
<1>8. ASSUME NEW p \in User, U!Crash(p) PROVE SetupInv'
    BY <1>8, SetupFacts, SetupEnds DEF U!Crash, U!plans, PlansOK
<1>9. ASSUME NEW p \in User, U!WritePlan(p) PROVE SetupInv'
  <2>1. PlansOK(plan', stored')
      BY <1>9, SetupFacts DEF U!WritePlan, PlansOK, Installer
  <2> QED
      BY <1>9, <2>1, SetupFacts, SetupEnds DEF U!WritePlan
<1>10. ASSUME NEW p \in User, U!ReplaceProfile(p) PROVE SetupInv'
  <2>1. PlansOK(plan', stored')
      BY <1>10, SetupFacts DEF U!ReplaceProfile, U!plans, PlansOK
  <2>2. world' \in U!World /\ world'.profile \notin edits
      BY <1>0, <1>10, SetupFacts DEF U!ReplaceProfile, U!World, U!Profile
  <2>3. \A q \in User \ {p} : pc[q] # "approved"
      BY <1>10, SetupFacts DEF U!ReplaceProfile, Installer, U!Steps
  <2> QED
      BY <1>10, <2>1, <2>2, <2>3, SetupEnds DEF U!ReplaceProfile
<1>11. ASSUME NEW p \in User, U!LegacyProfile(p) PROVE SetupInv'
  <2>1. PlansOK(plan', stored')
      BY <1>11, SetupFacts DEF U!LegacyProfile, U!plans, PlansOK
  <2>2. world' \in U!World /\ world'.profile \notin edits
      BY <1>0, <1>11, SetupFacts DEF U!LegacyProfile, U!World, U!Profile
  <2>3. \/ world'.profile = world.profile
        \/ \A q \in User \ {p} : pc[q] # "approved"
      BY <1>11, SetupFacts DEF U!LegacyProfile, Installer, U!Steps
  <2> QED
      BY <1>11, <2>1, <2>2, <2>3, SetupEnds DEF U!LegacyProfile
<1>12. ASSUME NEW p \in User, U!RefusePlan(p) PROVE SetupInv'
  <2>1. PlansOK(plan', stored')
      BY <1>12, SetupFacts DEF U!RefusePlan, U!CleanUp, U!Cleaned, U!Outdated, PlansOK
  <2> QED
      BY <1>12, <2>1, PlansKept DEF U!RefusePlan
<1>13. ASSUME NEW p \in User, U!Consume(p) PROVE SetupInv'
  <2>1. PlansOK(plan', stored')
      BY <1>13, SetupFacts DEF U!Consume, PlansOK, Installer
  <2>2. Installer(p)'
      BY <1>0, <1>13, SetupFacts DEF U!Consume, Installer, U!Steps
  <2>3. job' = [job EXCEPT ![p] = job[p]]
      BY <1>0, <1>13 DEF U!Consume
  <2>4. "inbox" \in SetupPc
      BY DEF SetupPc, U!Steps
  <2> QED
      BY <1>13, <2>1, <2>2, <2>3, <2>4, SetupFacts, OthersUntouched DEF U!Consume
<1>14. ASSUME NEW p \in User, NEW q \in Plan, U!Ask(p, q) PROVE SetupInv'
  <2>1. stored[q] \in U!Stored /\ stored[q].seen.profile \notin edits
      BY <1>14, SetupFacts DEF U!Ask, PlansOK
  <2>2. PICK r \in BOOLEAN, c \in U!Stored : r = stored[q].replace /\ c = stored[q]
      BY <2>1 DEF U!Stored
  <2>3. PICK j : j = [plan |-> q, stored |-> c, replace |-> r, profile |-> None]
      OBVIOUS
  <2>4. U!Approval(q) = j
    <3>1. PICK a : a = [U!NoJob EXCEPT !.plan = q]
        OBVIOUS
    <3>2. PICK d : d = [a EXCEPT !.stored = c]
        OBVIOUS
    <3>3. a = [plan |-> q, stored |-> None, replace |-> FALSE, profile |-> None]
        BY <3>1 DEF U!NoJob
    <3>4. d = [plan |-> q, stored |-> c, replace |-> FALSE, profile |-> None]
        BY <3>2, <3>3
    <3>5. [d EXCEPT !.replace = r] = j
        BY <2>3, <3>4
    <3>6. U!Approval(q) = [U!NoJob EXCEPT !.plan = q, !.stored = c, !.replace = r]
        BY ONLY <2>2, Zenon DEF U!Approval
    <3> QED
        BY ONLY <3>1, <3>2, <3>5, <3>6, Zenon
  <2>5. j \in SetupJob /\ j.stored.seen.profile \notin edits
      BY <2>1, <2>2, <2>3 DEF SetupJob
  <2>6. /\ job' = [job EXCEPT ![p] = j] /\ pc' = [pc EXCEPT ![p] = "asked"]
        /\ holder' = p /\ holder = None /\ UNCHANGED <<edits, world, plan, stored>>
        /\ "asked" \in SetupPc
      BY <1>14, <2>4 DEF U!Ask, U!Lock, U!plans, SetupPc
  <2>7. Installer(p)'
      BY <1>0, <2>2, <2>3, <2>6 DEF Installer, U!Steps
  <2>8. PlansOK(plan', stored')
      BY <2>6, SetupFacts DEF PlansOK
  <2> QED
      BY <2>5, <2>6, <2>7, <2>8, SetupFacts, OthersUntouched
<1>15. ASSUME NEW p \in User, U!Approve(p) PROVE SetupInv'
  <2>1. PICK j : j = [job[p] EXCEPT !.profile = world.profile]
      OBVIOUS
  <2>2. j \in SetupJob /\ j.plan = job[p].plan /\ j.stored = job[p].stored
        /\ j.profile = world.profile
      BY <2>1, SetupFacts DEF SetupJob
  <2>3. /\ job' = [job EXCEPT ![p] = j] /\ pc' = [pc EXCEPT ![p] = "approved"]
        /\ UNCHANGED <<edits, world, plan, stored, holder>> /\ "approved" \in SetupPc
      BY <1>0, <1>15, <2>1 DEF U!Approve, U!plans, SetupPc, U!LegacySteps
  <2>4. Installer(p)'
      BY <1>0, <1>15, <2>2, <2>3, SetupFacts DEF U!Approve, Installer, U!Steps
  <2>5. PlansOK(plan', stored')
      BY <2>3, SetupFacts DEF PlansOK
  <2> QED
      BY <2>2, <2>3, <2>4, <2>5, SetupFacts, OthersUntouched
<1>16. ASSUME NEW p \in User, U!Refresh(p) PROVE SetupInv'
  <2>1. PICK j : j = [job[p] EXCEPT !.profile = world.profile]
      OBVIOUS
  <2>2. j \in SetupJob /\ j.plan = job[p].plan /\ j.stored = job[p].stored
        /\ j.profile = world.profile
      BY <2>1, SetupFacts DEF SetupJob
  <2>3. /\ job' = [job EXCEPT ![p] = j] /\ pc' = [pc EXCEPT ![p] = "refreshed"]
        /\ UNCHANGED <<edits, world, plan, stored, holder>> /\ "refreshed" \in SetupPc
      BY <1>0, <1>16, <2>1 DEF U!Refresh, U!plans, SetupPc, U!LegacySteps
  <2>4. Installer(p)'
      BY <1>0, <1>16, <2>2, <2>3, SetupFacts DEF U!Refresh, Installer, U!Steps
  <2>5. PlansOK(plan', stored')
      BY <2>3, SetupFacts DEF PlansOK
  <2> QED
      BY <2>2, <2>3, <2>4, <2>5, SetupFacts, OthersUntouched
<1>17. ASSUME NEW p \in User, NEW r \in BOOLEAN, U!Direct(p, r) PROVE SetupInv'
  <2>1. PICK a : a = [U!NoJob EXCEPT !.replace = r]
      OBVIOUS
  <2>2. PICK j : j = [a EXCEPT !.profile = world.profile]
      OBVIOUS
  <2>3. a = [plan |-> None, stored |-> None, replace |-> r, profile |-> None]
      BY <2>1 DEF U!NoJob
  <2>4. j = [plan |-> None, stored |-> None, replace |-> r, profile |-> world.profile]
      BY <2>2, <2>3
  <2>5. j \in SetupJob /\ j.plan = None /\ j.stored = None
      BY <2>4, SetupFacts DEF SetupJob
  <2>6. job' = [job EXCEPT ![p] = j]
      BY ONLY <1>17, <2>1, <2>2, Zenon DEF U!Direct
  <2>7. /\ pc' = [pc EXCEPT ![p] = "inbox"] /\ holder' = p /\ holder = None
        /\ UNCHANGED <<edits, world, plan, stored>> /\ "inbox" \in SetupPc
      BY <1>17 DEF U!Direct, U!Lock, U!plans, SetupPc, U!Steps
  <2>8. Installer(p)'
      BY <1>0, <2>5, <2>6, <2>7 DEF Installer, U!Steps
  <2>9. PlansOK(plan', stored')
      BY <2>7, SetupFacts DEF PlansOK
  <2> QED
      BY <2>5, <2>6, <2>7, <2>8, <2>9, SetupFacts, OthersUntouched
<1>18. ASSUME NEW p \in User, NEW q \in Plan, NEW r \in BOOLEAN, U!BeginPlan(p, q, r)
      PROVE  SetupInv'
  <2>1. PICK c : c = [seen |-> world, replace |-> r, expired |-> FALSE]
      OBVIOUS
  <2>2. c \in U!Stored /\ c.seen.profile \notin edits
      BY <2>1, SetupFacts DEF U!Stored
  <2>3. PICK k : k = [job[p] EXCEPT !.plan = q]
      OBVIOUS
  <2>4. PICK j : j = [k EXCEPT !.stored = c]
      OBVIOUS
  <2>5. k \in SetupJob /\ k.plan = q
      BY <2>3, SetupFacts DEF SetupJob
  <2>6. j \in SetupJob /\ j.plan = q /\ j.stored = c
      BY <2>2, <2>4, <2>5 DEF SetupJob
  <2>7. job' = [job EXCEPT ![p] = j]
    <3>1. PICK f : f = [job EXCEPT ![p].plan = q]
        OBVIOUS
    <3>2. f = [job EXCEPT ![p] = k] /\ f \in [User -> SetupJob] /\ f[p] = k
        BY <1>0, <2>3, <2>5, <3>1
    <3>3. job' = [f EXCEPT ![p].stored = c]
        BY ONLY <1>18, <2>1, <3>1, Zenon DEF U!BeginPlan, U!Observed
    <3>4. job' = [f EXCEPT ![p] = j]
        BY <2>4, <3>2, <3>3
    <3> QED
        BY <1>0, <3>2, <3>4
  <2>8. /\ pc' = [pc EXCEPT ![p] = "planning"] /\ holder' = p /\ holder = None
        /\ UNCHANGED <<edits, world>> /\ "planning" \in SetupPc
      BY <1>18 DEF U!BeginPlan, U!Lock, SetupPc
  <2>9. Installer(p)'
      BY <1>0, <2>2, <2>6, <2>7, <2>8 DEF Installer, U!Steps
  <2>10. PlansOK(plan', stored')
      BY <1>18, <2>8, SetupFacts
      DEF U!BeginPlan, U!CleanUp, U!Cleaned, U!Outdated, PlansOK
  <2> QED
      BY <2>2, <2>6, <2>7, <2>8, <2>9, <2>10, SetupFacts, OthersUntouched
<1>19. ASSUME NEW q \in Plan, U!Expire(q) PROVE SetupInv'
  <2>1. PICK c : c = [stored[q] EXCEPT !.expired = TRUE]
      OBVIOUS
  <2>2. stored[q] \in U!Stored
      BY <1>19 DEF U!Expire, SetupInv
  <2>3. c \in U!Stored /\ c.seen = stored[q].seen
      BY <2>1, <2>2 DEF U!Stored
  <2>4. stored' = [stored EXCEPT ![q] = c]
      BY <1>19, <2>1 DEF U!Expire, SetupInv, U!TypeOK
  <2>5. PlansOK(plan', stored')
      BY <1>19, <2>2, <2>3, <2>4, ZenonT(60) DEF U!Expire, SetupInv, U!TypeOK, Fresh, PlansOK
  <2> QED
      BY <1>19, <2>5, PlansKept DEF U!Expire
<1>20. ASSUME U!Meddle PROVE SetupInv'
  <2>0. UNCHANGED <<plan, stored, holder, pc, job>>
      BY <1>20 DEF U!Meddle, U!plans
  <2>1. /\ edits' \subseteq edits /\ world' \in U!World /\ world'.profile \notin edits'
        /\ world'.profile # world.profile => world'.profile \in edits
      BY <1>20, <1>0 DEF U!Meddle, SetupInv, U!TypeOK, U!World, U!Profile, Fresh
  <2>2. U!TypeOK'
      BY <2>0, <2>1 DEF SetupInv, U!TypeOK
  <2>3. Fresh'
      BY <2>0, <2>1 DEF SetupInv, Fresh
  <2>4. \A p \in User : Installer(p)'
      BY <2>0, <2>1, <1>0 DEF SetupInv, Installer, Fresh
  <2> QED
      BY <2>0, <2>2, <2>3, <2>4 DEF SetupInv
<1>21. ASSUME NEW p \in User, U!KeepProfile(p) PROVE SetupInv'
    BY <1>21, SetupFacts, SetupEnds DEF U!KeepProfile, U!plans, PlansOK
<1>22. ASSUME NEW p \in User, U!CompareProfile(p) PROVE SetupInv'
  <2>1. /\ pc' = [pc EXCEPT ![p] = "compared"] /\ "compared" \in SetupPc
        /\ UNCHANGED <<edits, plan, stored, job, holder>>
      BY <1>22 DEF U!CompareProfile, U!plans, SetupPc, U!Steps
  <2>2. world' \in U!World /\ world'.profile = world.profile
      BY <1>22, SetupFacts DEF U!CompareProfile
  <2>3. Installer(p)'
      BY <1>0, <1>22, <2>1, <2>2, SetupFacts DEF U!CompareProfile, Installer, U!Steps
  <2> QED
      BY <2>1, <2>2, <2>3, SetupGoes
<1> QED
    BY <1>1, <1>2, <1>3, <1>4, <1>5, <1>6, <1>7, <1>8, <1>9, <1>10, <1>11, <1>12, <1>13, <1>14, <1>15, <1>16, <1>17, <1>18, <1>19, <1>20, <1>21, <1>22 DEF U!Next

\* The invariant of Setup holds at first,
LEMMA SetupInit == ASSUME U!SetupAssumption PROVE U!Init => SetupInv
<1> SUFFICES ASSUME U!Init PROVE SetupInv
    OBVIOUS
<1>0. U!NoJob \in SetupJob /\ U!NoJob.stored = None
    BY DEF U!NoJob, SetupJob
<1>1. U!TypeOK
    BY <1>0 DEF U!Init, U!TypeOK, SetupJob, U!Profile
<1>2. Fresh
    BY <1>0 DEF U!Init, Fresh, U!SetupAssumption
<1>3. \A p \in User : Installer(p)
    BY DEF U!Init, Installer, U!Steps
<1> QED
    BY <1>1, <1>2, <1>3 DEF SetupInv, U!Init

\* and every step keeps it.
LEMMA SetupNext == ASSUME U!SetupAssumption PROVE SetupInv /\ [U!Next]_U!vars => SetupInv'
<1>1. SetupInv /\ UNCHANGED U!vars => SetupInv'
    BY DEF SetupInv, U!TypeOK, Fresh, Installer, U!vars, U!plans
<1> QED
    BY <1>1, SetupStep

\* Only setup gets past the comparison, by comparing.
LEMMA SetupCompares ==
    ASSUME SetupInv, U!Next, NEW p \in User, pc[p] = "profile", pc'[p] = "compared"
    PROVE  U!CompareProfile(p)
<1>1. pc \in [User -> SetupPc]
    BY DEF SetupInv, U!TypeOK, SetupPc
<1>2. \A q \in Plan : ~U!Expire(q)
    BY DEF U!Expire
<1>3. ~U!Meddle
    BY DEF U!Meddle
<1>4. ASSUME NEW q \in User, NEW step \in SetupPc \ {"compared"}, pc' = [pc EXCEPT ![q] = step]
      PROVE  FALSE
    BY <1>1, <1>4
<1>5. ASSUME NEW q \in User,
             \/ \E x \in Plan, r \in BOOLEAN : U!BeginPlan(q, x, r)
             \/ \E x \in Plan : U!Ask(q, x)
             \/ \E r \in BOOLEAN : U!Direct(q, r)
             \/ U!WritePlan(q) \/ U!Approve(q) \/ U!Recheck(q) \/ U!Consume(q)
             \/ U!Refresh(q) \/ U!Fail(q) \/ U!Crash(q)
             \/ U!KeepProfile(q) \/ U!ReplaceProfile(q) \/ U!LegacyProfile(q)
      PROVE  FALSE
  <2>1. PICK step \in SetupPc \ {"compared"} : pc' = [pc EXCEPT ![q] = step]
      BY <1>5 DEF U!BeginPlan, U!Ask, U!Direct, U!WritePlan, U!Approve, U!Recheck,
                  U!Consume, U!Refresh, U!Fail, U!Crash, U!KeepProfile, U!ReplaceProfile,
                  U!LegacyProfile, U!End, U!Goto, SetupPc, U!Steps, U!LegacySteps
  <2> QED
      BY <1>4, <2>1
<1>6. ASSUME NEW q \in User,
             \/ U!EnsureInbox(q) \/ U!Scaffold(q) \/ U!WriteMarker(q)
             \/ U!EnsureDashboard(q) \/ U!LegacyInbox(q)
      PROVE  FALSE
  <2>1. PICK step \in SetupPc \ {"compared"} : pc' = [pc EXCEPT ![q] = step]
      BY <1>6 DEF U!EnsureInbox, U!Scaffold, U!WriteMarker, U!EnsureDashboard,
                  U!LegacyInbox, U!Change, U!Goto, SetupPc, U!Steps, U!LegacySteps
  <2> QED
      BY <1>4, <2>1
<1>7. ASSUME NEW q \in User, U!RefusePlan(q) PROVE FALSE
    BY <1>7 DEF U!RefusePlan
<1>8. ASSUME NEW q \in User, U!CompareProfile(q) PROVE U!CompareProfile(p)
  <2>1. pc' = [pc EXCEPT ![q] = "compared"]
      BY <1>8 DEF U!CompareProfile, U!Goto
  <2>2. q = p
      BY <1>1, <2>1
  <2> QED
      BY <1>8, <2>2
<1> QED
    BY <1>2, <1>3, <1>5, <1>6, <1>7, <1>8 DEF U!Next

\* The profile is changed by the owner, by the setup that has compared it, and,
\* under the lock, by the setup of the first version.
LEMMA ProfileWriters ==
    ASSUME SetupInv, U!Next, world'.profile # world.profile
    PROVE  \/ world'.profile \in Edit
           \/ \E p \in User : U!ReplaceProfile(p)
           \/ world'.profile = "legacy" /\ holder = None
<1>1. world \in U!World /\ edits \in SUBSET Edit
    BY DEF SetupInv, U!TypeOK
<1>2. \A q \in Plan : ~U!Expire(q)
    BY DEF U!Expire
<1>3. CASE U!Meddle
  <2>1. CASE \E e \in edits : world' = [world EXCEPT !.profile = e]
      BY <1>1, <2>1 DEF U!World
  <2>2. CASE \/ world' = [world EXCEPT !.repo = "gappy"]
             \/ world' = [world EXCEPT !.dash = "edited"]
      BY <1>1, <2>2 DEF U!World
  <2> QED
      BY <1>3, <2>1, <2>2 DEF U!Meddle
<1>4. ASSUME NEW q \in User,
             \/ \E x \in Plan, r \in BOOLEAN : U!BeginPlan(q, x, r)
             \/ \E x \in Plan : U!Ask(q, x)
             \/ \E r \in BOOLEAN : U!Direct(q, r)
             \/ U!WritePlan(q) \/ U!RefusePlan(q) \/ U!Approve(q) \/ U!Recheck(q)
             \/ U!Consume(q) \/ U!Refresh(q) \/ U!Fail(q) \/ U!Crash(q)
             \/ U!KeepProfile(q) \/ U!CompareProfile(q)
      PROVE  FALSE
    BY <1>4 DEF U!BeginPlan, U!Ask, U!Direct, U!WritePlan, U!RefusePlan, U!Approve,
                U!Recheck, U!Consume, U!Refresh, U!Fail, U!Crash, U!KeepProfile,
                U!CompareProfile, U!plans
<1>5. ASSUME NEW q \in User,
             \/ U!EnsureInbox(q) \/ U!Scaffold(q) \/ U!WriteMarker(q)
             \/ U!EnsureDashboard(q) \/ U!LegacyInbox(q)
      PROVE  FALSE
  <2>1. \/ world' = [world EXCEPT !["inbox"] = TRUE]
        \/ world' = [world EXCEPT !["repo"] = "partial"]
        \/ world' = [world EXCEPT !["repo"] = "kb"]
        \/ world' = [world EXCEPT !["dash"] = "ours"]
      BY <1>5 DEF U!EnsureInbox, U!Scaffold, U!WriteMarker, U!EnsureDashboard,
                  U!LegacyInbox, U!Change
  <2> QED
      BY <1>1, <2>1 DEF U!World
<1>6. ASSUME NEW q \in User, U!LegacyProfile(q)
      PROVE  world'.profile = "legacy" /\ holder = None
  <2>1. world' = [world EXCEPT !.profile = "legacy"] /\ holder = None
      BY <1>6 DEF U!LegacyProfile
  <2> QED
      BY <1>1, <2>1 DEF U!World
<1> QED
    BY <1>2, <1>3, <1>4, <1>5, <1>6 DEF U!Next

\* The profile is compared, and nothing but an edit comes between that and the
\* replacement.
LEMMA SetupReplacement ==
    ASSUME U!SetupAssumption, SetupInv, U!Next
    PROVE  U!ReplacedAsApproved
<1> USE DEF U!At
<1>1. ASSUME NEW p \in User, pc[p] = "profile", pc'[p] = "compared"
      PROVE  /\ job[p].plan # None => world.profile = job[p].stored.seen.profile
             /\ world.profile \in {None, "mine"} \/ job[p].replace
  <2>1. world.profile = job[p].profile
      BY <1>1, SetupCompares DEF U!CompareProfile
  <2> QED
      BY <1>1, <2>1 DEF SetupInv, Installer, U!Steps
<1>2. ASSUME NEW p \in User, pc[p] = "compared", world'.profile # world.profile
      PROVE  world'.profile \in Edit \/ pc'[p] = "idle"
  <2>1. holder = p /\ holder # None
      BY <1>2 DEF SetupInv, Installer, U!Steps, U!SetupAssumption
  <2>2. ASSUME NEW q \in User, U!ReplaceProfile(q) PROVE pc'[p] = "idle"
    <3>1. pc[q] = "compared" /\ holder = q /\ pc' = [pc EXCEPT ![q] = "idle"]
        BY <2>2 DEF U!ReplaceProfile, U!End, U!Goto, SetupInv, Installer, U!Steps
    <3> QED
        BY <2>1, <3>1 DEF SetupInv, U!TypeOK
  <2> QED
      BY <1>2, <2>1, <2>2, ProfileWriters
<1>3. ASSUME world'.profile = "mine", world.profile # "mine"
      PROVE  \E p \in User : pc[p] = "compared"
    BY <1>3, ProfileWriters DEF U!ReplaceProfile, U!SetupAssumption
<1> QED
    BY <1>1, <1>2, <1>3 DEF U!ReplacedAsApproved

\* For every number of processes, plans, edits and kills: setup replaces the
\* profile of this machine after a comparison with what it was when the owner
\* approved, and another knowledge base only where that was asked for; no command
\* changes the profile between the two, and an edit that does is overwritten
\* (validate_stored_plan_current, write_if_unchanged).
THEOREM ProfileReplacedAsApproved ==
    ASSUME U!SetupAssumption
    PROVE  U!Spec => U!ProfileAsApproved
<1>1. U!Init => SetupInv
    BY SetupInit
<1>2. SetupInv /\ [U!Next]_U!vars => SetupInv'
    BY SetupNext
<1>3. SetupInv /\ [U!Next]_U!vars => [U!ReplacedAsApproved]_U!vars
  BY SetupReplacement
<1> QED
    BY <1>1, <1>2, <1>3, PTL DEF U!Spec, U!ProfileAsApproved

-----------------------------------------------------------------------------
(* Imports *)

\* One import at a time is at work in the folder; its copy is whole before it is
\* linked, and no other process is there to take it away.
Importer(p) ==
    /\ pc[p] \in {"naming", "copying", "linking"} => holder = p
    /\ pc[p] # "idle" => job[p].content \in Content
    /\ pc[p] \in {"copying", "linking", "capture", "publishing"} => job[p].target \in A!Name
    /\ pc[p] = "linking" => temporary[p] = job[p].content

ImportsInv == A!TypeOK /\ \A p \in Proc : Importer(p)

\* The jobs of the type invariant.
ImportJob == [content : Content \cup {None}, target : A!Name \cup {None}, verified : BOOLEAN]

\* What Choose and Link make of a job is one.
LEMMA ImportJobs ==
    ASSUME ImportsInv, NEW p \in Proc, job[p].content \in Content, NEW n \in A!Name
    PROVE  /\ [content |-> job[p].content, target |-> n, verified |-> FALSE] \in ImportJob
           /\ [content |-> job[p].content, target |-> n, verified |-> job[p].verified] \in ImportJob
<1>1. job[p].verified \in BOOLEAN
    BY DEF ImportsInv, A!TypeOK
<1>2. PICK v \in BOOLEAN : v = job[p].verified
    BY <1>1
<1> QED
    BY <1>2 DEF ImportJob

\* Every step keeps the invariant.
LEMMA ImportsStep ==
    ASSUME A!ImportsAssumption, ImportsInv, A!Next
    PROVE  ImportsInv'
<1> USE DEF A!ImportsAssumption, ImportsInv, A!Goto, A!At, A!Work
<1>1. ASSUME NEW p \in Proc, NEW v \in BOOLEAN, A!BeginImport(p, v) PROVE ImportsInv'
  <2>1. A!TypeOK'
      BY <1>1 DEF A!BeginImport, A!TypeOK, Importer
  <2>2. \A q \in Proc : Importer(q)'
      BY <1>1 DEF A!BeginImport, A!TypeOK, Importer
  <2> QED
      BY <2>1, <2>2
<1>2. ASSUME NEW p \in Proc, NEW c \in Content, A!ReuseCaptured(p, c) PROVE ImportsInv'
  <2>1. A!TypeOK'
      BY <1>2 DEF A!ReuseCaptured, A!TypeOK, Importer
  <2>2. \A q \in Proc : Importer(q)'
      BY <1>2 DEF A!ReuseCaptured, A!TypeOK, Importer
  <2> QED
      BY <2>1, <2>2
<1>3. ASSUME NEW p \in Proc, NEW n \in A!Name, A!TakeInside(p, n) PROVE ImportsInv'
  <2>1. A!TypeOK'
      BY <1>3 DEF A!TakeInside, A!TypeOK, Importer
  <2>2. \A q \in Proc : Importer(q)'
      BY <1>3 DEF A!TakeInside, A!TypeOK, Importer
  <2> QED
      BY <2>1, <2>2
<1>4. ASSUME NEW p \in Proc, NEW n \in A!Name, A!ReuseCopy(p, n) PROVE ImportsInv'
  <2>1. A!TypeOK'
      BY <1>4 DEF A!ReuseCopy, A!TypeOK, Importer
  <2>2. \A q \in Proc : Importer(q)'
      BY <1>4 DEF A!ReuseCopy, A!TypeOK, Importer
  <2> QED
      BY <2>1, <2>2
<1>5. ASSUME NEW p \in Proc, A!Acquire(p) PROVE ImportsInv'
  <2>1. A!TypeOK'
      BY <1>5 DEF A!Acquire, A!Reset, A!TypeOK, Importer
  <2>2. \A q \in Proc : Importer(q)'
      BY <1>5 DEF A!Acquire, A!Reset, A!TypeOK, Importer
  <2> QED
      BY <2>1, <2>2
<1>6. ASSUME NEW p \in Proc, A!Choose(p) PROVE ImportsInv'
  <2>0. job[p].content \in Content /\ "own" \in A!Name /\ job[p].content \in A!Name
      BY <1>6 DEF A!Choose, Importer, A!Name
  <2>1. PICK target \in A!Name :
            \/ folder[target] = job[p].content /\ A!Placed(p, target) /\ UNCHANGED temporary
            \/ /\ A!Work(p, job[p].content, target, job[p].verified)
               /\ temporary' = [temporary EXCEPT ![p] = "part"]
               /\ A!Goto(p, "copying")
               /\ UNCHANGED holder
      BY <1>6, <2>0, Zenon DEF A!Choose
  <2>2. UNCHANGED <<folder, outside, registry>> /\ pc[p] = "naming"
      BY <1>6 DEF A!Choose
  <2>3. A!TypeOK'
    <3>1. PICK j \in ImportJob : job' = [job EXCEPT ![p] = j]
        BY <2>0, <2>1, ImportJobs, Zenon DEF A!Placed
    <3>2. job' \in [Proc -> ImportJob]
        BY <3>1 DEF A!TypeOK, ImportJob
    <3>3. /\ holder' \in Proc \cup {None} /\ temporary' \in [Proc -> Content \cup {"part", None}]
          /\ pc' \in [Proc -> {"idle", "waiting", "naming", "copying", "linking", "capture", "publishing"}]
        BY <2>1 DEF A!Placed, A!TypeOK
    <3> QED
        BY <2>2, <3>2, <3>3 DEF A!TypeOK, ImportJob
  <2>4. \A q \in Proc : Importer(q)'
      BY <2>0, <2>1, <2>2 DEF A!Placed, A!TypeOK, Importer
  <2> QED
      BY <2>3, <2>4
<1>7. ASSUME NEW p \in Proc, A!Copy(p) PROVE ImportsInv'
  <2>1. A!TypeOK'
      BY <1>7 DEF A!Copy, A!TypeOK, Importer
  <2>2. \A q \in Proc : Importer(q)'
      BY <1>7 DEF A!Copy, A!TypeOK, Importer
  <2> QED
      BY <2>1, <2>2
<1>8. ASSUME NEW p \in Proc, A!Link(p) PROVE ImportsInv'
  <2>1. A!TypeOK'
    <3>1. job[p].content \in Content /\ job[p].target \in A!Name /\ temporary[p] \in Content
        BY <1>8 DEF A!Link, Importer
    <3>2. PICK j : j = [content |-> job[p].content, target |-> job[p].target, verified |-> FALSE]
        OBVIOUS
    <3>3. j \in ImportJob
        BY <3>1, <3>2, ImportJobs
    <3>4. job' = job \/ job' = [job EXCEPT ![p] = j]
        BY <1>8, <3>2 DEF A!Link, A!Placed
    <3>5. job' \in [Proc -> ImportJob]
        BY <3>3, <3>4 DEF A!TypeOK, ImportJob
    <3>6. /\ holder' \in Proc \cup {None} /\ temporary' \in [Proc -> Content \cup {"part", None}]
          /\ pc' \in [Proc -> {"idle", "waiting", "naming", "copying", "linking", "capture", "publishing"}]
        BY <1>8 DEF A!Link, A!Placed, A!TypeOK
    <3>7. folder' \in [A!Name -> Content \cup {None}] /\ UNCHANGED <<outside, registry>>
        BY <1>8, <3>1 DEF A!Link, A!TypeOK
    <3> QED
        BY <3>5, <3>6, <3>7 DEF A!TypeOK, ImportJob
  <2>2. \A q \in Proc : Importer(q)'
      BY <1>8 DEF A!Link, A!Placed, A!TypeOK, Importer
  <2> QED
      BY <2>1, <2>2
<1>9. ASSUME NEW p \in Proc, A!Capture(p) PROVE ImportsInv'
  <2>1. A!TypeOK'
      BY <1>9 DEF A!Capture, A!End, A!NoJob, A!TypeOK, Importer
  <2>2. \A q \in Proc : Importer(q)'
      BY <1>9 DEF A!Capture, A!End, A!NoJob, A!TypeOK, Importer
  <2> QED
      BY <2>1, <2>2
<1>10. ASSUME NEW p \in Proc, A!Fail(p) PROVE ImportsInv'
  <2>1. A!TypeOK'
      BY <1>10 DEF A!Fail, A!End, A!NoJob, A!TypeOK, Importer
  <2>2. \A q \in Proc : Importer(q)'
      BY <1>10 DEF A!Fail, A!End, A!NoJob, A!TypeOK, Importer
  <2> QED
      BY <2>1, <2>2
<1>11. ASSUME NEW p \in Proc, A!Crash(p) PROVE ImportsInv'
  <2>1. A!TypeOK'
      BY <1>11 DEF A!Crash, A!NoJob, A!TypeOK, Importer
  <2>2. \A q \in Proc : Importer(q)'
      BY <1>11 DEF A!Crash, A!NoJob, A!TypeOK, Importer
  <2> QED
      BY <2>1, <2>2
<1>12. ASSUME A!Meddle PROVE ImportsInv'
  <2>1. A!TypeOK'
      BY <1>12 DEF A!Meddle, A!TypeOK
  <2>2. \A q \in Proc : Importer(q)'
      BY <1>12 DEF A!Meddle, Importer
  <2> QED
      BY <2>1, <2>2
<1>13. ASSUME NEW p \in Proc, A!ReadSelected(p) PROVE ImportsInv'
  <2>1. A!TypeOK'
      BY <1>13 DEF A!ReadSelected, A!TypeOK
  <2>2. \A q \in Proc : Importer(q)'
      BY <1>13 DEF A!ReadSelected, A!TypeOK, Importer
  <2> QED
      BY <2>1, <2>2
<1> QED
    BY <1>1, <1>2, <1>3, <1>4, <1>5, <1>6, <1>7, <1>8, <1>9, <1>10, <1>11, <1>12, <1>13 DEF A!Next

\* The invariant of Imports holds at first,
LEMMA ImportsInit == ASSUME A!ImportsAssumption PROVE A!Init => ImportsInv
<1> SUFFICES ASSUME A!Init PROVE ImportsInv
    OBVIOUS
<1>0. A!NoJob \in [content : Content \cup {None}, target : A!Name \cup {None},
                   verified : BOOLEAN]
    BY DEF A!NoJob
<1>1. A!TypeOK
    BY <1>0 DEF A!Init, A!TypeOK
<1>2. \A p \in Proc : Importer(p)
    BY DEF A!Init, Importer
<1> QED
    BY <1>1, <1>2 DEF ImportsInv

\* and every step keeps it.
LEMMA ImportsNext ==
    ASSUME A!ImportsAssumption
    PROVE  ImportsInv /\ [A!Next]_A!vars => ImportsInv'
<1>1. ImportsInv /\ UNCHANGED A!vars => ImportsInv'
    BY DEF ImportsInv, A!TypeOK, Importer, A!vars
<1> QED
    BY <1>1, ImportsStep

\* A file appears by linking, an Asset by a capture that has read it.
LEMMA ImportsAdd ==
    ASSUME A!ImportsAssumption, ImportsInv, A!Next
    PROVE  A!PutDownAndCaptured
<1> USE DEF A!At, A!Goto
<1>0. pc \in [Proc -> {"idle", "waiting", "naming", "copying", "linking", "capture", "publishing"}]
      /\ registry \in [Content -> A!Name \cup {None}]
    BY DEF ImportsInv, A!TypeOK
<1>1. ASSUME NEW p \in Proc, pc[p] = "linking", folder' # folder,
             pc'[p] # "linking"
      PROVE  \E n \in A!Name : /\ folder[n] = None
                               /\ folder' = [folder EXCEPT ![n] = job[p].content]
  <2>1. A!Link(p)
    <3>1. PICK q \in Proc : A!Link(q)
        BY <1>1 DEF A!Next, A!BeginImport, A!ReuseCaptured, A!TakeInside, A!ReuseCopy,
                    A!Acquire, A!Choose, A!Copy, A!ReadSelected, A!Capture, A!Fail, A!Crash, A!Meddle
    <3>2. Importer(p) /\ Importer(q)
        BY DEF ImportsInv
    <3>3. holder = p /\ holder = q
        BY <1>1, <3>1, <3>2 DEF Importer, A!Link
    <3> QED
        BY <3>1, <3>3
  <2>2. Importer(p)
      BY DEF ImportsInv
  <2> QED
      BY <1>1, <2>1, <2>2 DEF A!Link, Importer
<1>2. ASSUME NEW c \in Content, registry'[c] # registry[c]
      PROVE  /\ registry[c] = None
             /\ \E p \in Proc : /\ pc[p] = "publishing"
                                /\ job[p].content = c /\ job[p].target = registry'[c]
  <2>1. PICK p \in Proc : A!Capture(p)
      BY <1>2 DEF A!Next, A!BeginImport, A!ReuseCaptured, A!TakeInside, A!ReuseCopy,
                  A!Acquire, A!Choose, A!Copy, A!Link, A!ReadSelected, A!Fail, A!Crash, A!Meddle
  <2> QED
      BY <1>0, <1>2, <2>1 DEF A!Capture
<1>3. ASSUME NEW p \in Proc, pc[p] = "capture", pc'[p] = "publishing"
      PROVE  job'[p] = job[p] /\ folder[job[p].target] = job[p].content
  <2>1. ASSUME NEW q \in Proc,
               NEW step \in {"idle", "waiting", "naming", "copying", "linking", "capture"},
               pc' = [pc EXCEPT ![q] = step]
        PROVE  FALSE
      BY <1>0, <1>3, <2>1
  <2>2. ASSUME NEW q \in Proc,
               \/ \E v \in BOOLEAN : A!BeginImport(q, v)
               \/ \E c \in Content : A!ReuseCaptured(q, c)
               \/ \E n \in A!Name : A!TakeInside(q, n) \/ A!ReuseCopy(q, n)
               \/ A!Acquire(q) \/ A!Choose(q) \/ A!Copy(q) \/ A!Link(q)
               \/ A!Capture(q) \/ A!Fail(q) \/ A!Crash(q)
        PROVE  FALSE
    <3>1. PICK step \in {"idle", "waiting", "naming", "copying", "linking", "capture"} :
              pc' = [pc EXCEPT ![q] = step]
        BY <2>2 DEF A!BeginImport, A!ReuseCaptured, A!TakeInside, A!ReuseCopy, A!Acquire,
                    A!Choose, A!Copy, A!Link, A!Capture, A!Fail, A!Crash, A!Placed, A!End
    <3> QED
        BY <2>1, <3>1
  <2>3. ~A!Meddle
      BY <1>3 DEF A!Meddle
  <2>4. ASSUME NEW q \in Proc, A!ReadSelected(q)
        PROVE  job'[p] = job[p] /\ folder[job[p].target] = job[p].content
    <3>1. q = p
        BY <1>0, <1>3, <2>4 DEF A!ReadSelected
    <3> QED
        BY <2>4, <3>1 DEF A!ReadSelected
  <2> QED
      BY <2>2, <2>3, <2>4 DEF A!Next
<1> QED
    BY <1>1, <1>2, <1>3 DEF A!PutDownAndCaptured

\* For every number of processes, contents, names and kills, whatever the owner
\* and the provider do to the folder: an import puts the whole content it was
\* asked for under a name nobody uses, and an Asset is recorded once, where its
\* content was when it was opened to be captured (import_outside_pdf,
\* capture_asset).
THEOREM ImportsAddAsRead ==
    ASSUME A!ImportsAssumption
    PROVE  A!Spec => A!AddedAsRead
<1>1. A!Init => ImportsInv
    BY ImportsInit
<1>2. ImportsInv /\ [A!Next]_A!vars => ImportsInv'
    BY ImportsNext
<1>3. ImportsInv /\ [A!Next]_A!vars => [A!PutDownAndCaptured]_A!vars
  BY ImportsAdd
<1> QED
    BY <1>1, <1>2, <1>3, PTL DEF A!Spec, A!AddedAsRead

-----------------------------------------------------------------------------
(* Inbox *)

\* A set of numbers has a least one.
LEMMA LeastOf ==
    ASSUME NEW S \in SUBSET Nat, S # {}
    PROVE  X!Min(S) \in S /\ \A m \in S : X!Min(S) <= m
<1> DEFINE T == {1..n : n \in S}
<1>1. T # {} /\ T \subseteq FiniteSubsetsOf(Nat)
  <2>1. \A n \in S : 1..n \in SUBSET Nat /\ IsFiniteSet(1..n)
    BY FS_Interval
  <2> QED
    BY <2>1 DEF FiniteSubsetsOf
<1> HIDE DEF T
<1>2. PICK x \in T : \A y \in T : ~(<<y, x>> \in StrictSubsetOrdering(Nat))
  BY <1>1, FS_StrictSubsetOrderingWellFounded, WFMin
<1>3. PICK n \in S : x = 1..n
  BY DEF T
<1>4. ASSUME NEW m \in S, m < n PROVE FALSE
  <2>1. 1..m \in T /\ 1..m \in SUBSET Nat /\ 1..n \in SUBSET Nat
    BY DEF T
  <2>2. 1..m \subseteq 1..n /\ n \in 1..n /\ n \notin 1..m
    BY <1>4
  <2>3. <<1..m, 1..n>> \in StrictSubsetOrdering(Nat)
    BY <2>1, <2>2, Zenon DEF StrictSubsetOrdering
  <2> QED
    BY <1>2, <1>3, <2>1, <2>3
<1>5. \A m \in S : n <= m
  BY <1>4
<1> QED
  BY <1>5 DEF X!Min

\* What can be listed of finitely many things is finite.
LEMMA FiniteImage ==
    ASSUME NEW S, IsFiniteSet(S), NEW f
    PROVE  IsFiniteSet({f[x] : x \in S})
<1> DEFINE T == {f[x] : x \in S}
           g == [x \in S |-> f[x]]
<1>1. g \in Surjection(S, T)
  BY DEF Surjection
<1> QED
  BY <1>1, FS_Surjection

\* A scan that calls itself whole or complete has seen no bad file it does not
\* know of, and what it has yet to read it has not seen.
ScanSound ==
    /\ \A n \in X!Name : scan.opened[n] # None => scan.seen[n] = None
    /\ scan.whole => \A n \in X!Name : scan.seen[n] \notin {"invalid", "torn"}
    /\ scan.listed => scan.whole \/ \E n \in X!Name : scan.seen[n] \in {"invalid", "torn"}

\* A batch that leaves nothing out has an item for every file the scan saw, or
\* the file's content is registered; in the second version, for everything that
\* is no PDF in any case.
Accounted(n) ==
    \/ n \in batch.todo \cup batch.wrong \cup batch.done
    \/ scan.seen[n] \in Content /\ registry[scan.seen[n]] # None
BatchSound ==
    /\ pc \in {"adding", "added"} /\ batch.dropped = 0 /\ (generation = "v1" => batch.whole) =>
           \A n \in X!Name : scan.seen[n] # None => Accounted(n)
    /\ pc \in {"adding", "added"} /\ batch.dropped = 0 /\ generation = "v2" =>
           \A n \in X!Name : scan.seen[n] \notin Content \cup {None} => n \in batch.wrong
    /\ pc \in {"adding", "added"} /\ batch.whole =>
           IF generation = "v1" THEN scan.whole ELSE scan.listed
    /\ pc = "added" => batch.todo = {}

InboxInv == X!TypeOK /\ ScanSound /\ BatchSound

-----------------------------------------------------------------------------

\* What the instance says of finite sets is what the library says of them.
LEMMA SameFinite ==
    \A S : (X!IsFiniteSet(S) <=> IsFiniteSet(S)) /\ X!Cardinality(S) = Cardinality(S)
<1>1. \A S : X!IsFiniteSet(S) <=> IsFiniteSet(S)
  BY DEF X!IsFiniteSet, IsFiniteSet
<1>2. \A S : X!Cardinality(S) = Cardinality(S)
  BY DEF X!Cardinality, Cardinality
<1> QED
  BY <1>1, <1>2

\* The invariant holds at first.
LEMMA InboxInit == ASSUME X!InboxAssumption PROVE X!Init => InboxInv
<1> USE DEF X!InboxAssumption
<1> SUFFICES ASSUME X!Init PROVE InboxInv
  OBVIOUS
<1>1. X!TypeOK
  BY DEF X!Init, X!TypeOK, X!NoScan, X!NoBatch, X!File, X!Observation
<1>2. ScanSound /\ BatchSound
  BY DEF X!Init, ScanSound, BatchSound, X!NoScan, X!Unreadable
<1> QED
  BY <1>1, <1>2 DEF InboxInv

\* A scan that begins.
LEMMA WalkKeeps ==
    ASSUME X!InboxAssumption, InboxInv, NEW last \in 0 .. Files, X!Walk(last)
    PROVE  InboxInv'
<1>1. /\ scan' = [opened |-> X!Walked(last), seen |-> [n \in X!Name |-> None],
                  listed |-> last = Files, whole |-> last = Files, safe |-> last = Files]
      /\ batch' = X!NoBatch /\ pc' = "reading" /\ UNCHANGED <<generation, folder, X!repository>>
  BY DEF X!Walk
<1>2. X!Walked(last) \in [X!Name -> X!File]
  BY DEF X!Walked, InboxInv, X!TypeOK, X!File
<1>3. X!TypeOK'
  BY <1>1, <1>2 DEF InboxInv, X!TypeOK, X!NoBatch, X!repository, X!File
<1>4. ScanSound' /\ BatchSound'
  BY <1>1 DEF ScanSound, BatchSound, X!InboxAssumption, X!Unreadable
<1> QED
  BY <1>3, <1>4 DEF InboxInv

\* A file that is read.
LEMMA ReadKeeps ==
    ASSUME X!InboxAssumption, InboxInv, X!Read
    PROVE  InboxInv'
<1> PICK n : n = X!Min(X!Left)
  OBVIOUS
<1>1. /\ pc = "reading" /\ n \in X!Left
      /\ UNCHANGED <<generation, folder, registry, source, pc, batch>>
  BY LeastOf DEF X!Read, X!Left, X!Name, X!repository
<1>2. PICK r \in X!Readings(n) :
          scan' = [scan EXCEPT !.opened[n] = None,
                               !.seen[n] = r,
                               !.whole = @ /\ r \notin {"invalid", "torn"},
                               !.safe = @ /\ r # "torn"]
  BY DEF X!Read
<1>3. X!TypeOK /\ n \in X!Name /\ scan.opened[n] # None
  BY <1>1 DEF InboxInv, X!Left
<1>4. r \in Content \cup {"cold", "invalid", "torn"}
  BY <1>3, <1>2 DEF X!Readings, X!TypeOK, X!File, X!Unreadable
<1>5. /\ scan'.opened = [scan.opened EXCEPT ![n] = None]
      /\ scan'.seen = [scan.seen EXCEPT ![n] = r]
      /\ scan'.whole = (scan.whole /\ r \notin {"invalid", "torn"})
      /\ scan'.safe = (scan.safe /\ r # "torn")
      /\ scan'.listed = scan.listed
      /\ scan' \in [opened : [X!Name -> X!File], seen : [X!Name -> X!File \cup {"torn"}],
                    listed : BOOLEAN, whole : BOOLEAN, safe : BOOLEAN]
  BY <1>2, <1>3, <1>4 DEF X!TypeOK, X!File, X!Unreadable
<1>6. X!TypeOK'
  BY <1>1, <1>3, <1>5 DEF X!TypeOK
<1>7. ScanSound'
  <2>1. \A m \in X!Name \ {n} : scan'.opened[m] = scan.opened[m] /\ scan'.seen[m] = scan.seen[m]
    BY <1>3, <1>5 DEF X!TypeOK
  <2>2. scan'.opened[n] = None /\ scan'.seen[n] = r /\ scan.seen[n] = None
    BY <1>3, <1>5 DEF X!TypeOK, InboxInv, ScanSound
  <2>3. None \notin {"invalid", "torn"}
    BY DEF X!InboxAssumption, X!Unreadable
  <2> QED
    BY <1>3, <1>5, <2>1, <2>2, <2>3 DEF InboxInv, ScanSound
<1>8. BatchSound'
  BY <1>1 DEF BatchSound
<1> QED
  BY <1>6, <1>7, <1>8 DEF InboxInv

\* The time is up, or everything is read.
LEMMA ScanEnds ==
    ASSUME X!InboxAssumption, InboxInv, X!TimeOut \/ X!EndScan
    PROVE  InboxInv'
<1>1. CASE X!TimeOut
  <2>1. /\ scan'.opened = X!NoScan.opened /\ scan'.seen = scan.seen
        /\ scan'.listed = FALSE /\ scan'.whole = FALSE
        /\ scan' \in [opened : [X!Name -> X!File], seen : [X!Name -> X!File \cup {"torn"}],
                      listed : BOOLEAN, whole : BOOLEAN, safe : BOOLEAN]
    BY <1>1 DEF X!TimeOut, InboxInv, X!TypeOK, X!NoScan, X!File
  <2>2. pc = "reading" /\ UNCHANGED <<generation, folder, registry, source, pc, batch>>
    BY <1>1 DEF X!TimeOut, X!repository
  <2>3. X!TypeOK'
    BY <2>1, <2>2 DEF InboxInv, X!TypeOK
  <2>4. ScanSound' /\ BatchSound'
    BY <2>1, <2>2 DEF InboxInv, ScanSound, BatchSound, X!NoScan
  <2> QED
    BY <2>3, <2>4 DEF InboxInv
<1>2. CASE X!EndScan
  BY <1>2 DEF X!EndScan, X!repository, InboxInv, X!TypeOK, ScanSound, BatchSound
<1> QED
  BY <1>1, <1>2

\* What is read of the Assets is of current ones.
LEMMA ListingParts ==
    ASSUME NEW r \in X!Listings
    PROVE  r.known \in SUBSET X!Current /\ r.unread \subseteq r.known /\ r.locked \subseteq r.known
<1>1. PICK k \in SUBSET X!Current : r \in [known : {k}, unread : SUBSET k, locked : SUBSET k]
  BY DEF X!Listings
<1> QED
  BY <1>1

\* A visible file at which Assets are stands for one of them.
LEMMA StandsParts ==
    ASSUME NEW known, NEW f \in X!Stands(known)
    PROVE  /\ \A n : n \in DOMAIN f <=> n \in X!Visible /\ X!AssetsAt(known, n) # {}
           /\ \A n \in DOMAIN f : f[n] \in known
<1> DEFINE Taken == {n \in X!Visible : X!AssetsAt(known, n) # {}}
<1>1. f \in [Taken -> known]
  BY DEF X!Stands
<1> QED
  BY <1>1

\* A catalog is of the files and of the Assets no file stands for, and of what
\* could not be read; or its items are all locked, and it is not whole.
Items(f, r) == X!FileItems(f, r) \cup X!AbsentItems(f, r)
Catalog(catalog, r, f, o) ==
    /\ catalog.conflicts = X!Conflicts(r.known) /\ catalog.errors = o.errors
    /\ \/ catalog.items = Items(f, r) /\ catalog.whole = (scan.whole /\ o.whole)
       \/ /\ catalog.items = {X!Item(i.file, i.asset, X!Blocked("locked")) : i \in Items(f, r)}
          /\ catalog.whole = FALSE

LEMMA CatalogParts ==
    ASSUME NEW catalog \in X!Catalogs
    PROVE  \E r \in X!Listings : \E f \in X!Stands(r.known), o \in X!Outcomes(r) :
               Catalog(catalog, r, f, o)
<1> DEFINE Seen == UNION {UNION {X!CatalogsOf(f, r) : f \in X!Stands(r.known)} : r \in X!Listings}
<1>1. ASSUME NEW seen \in Seen
      PROVE  \E r \in X!Listings : \E f \in X!Stands(r.known), o \in X!Outcomes(r) :
                 seen = [items |-> Items(f, r), conflicts |-> X!Conflicts(r.known),
                         errors |-> o.errors, whole |-> scan.whole /\ o.whole,
                         safe |-> scan.safe /\ o.whole]
  <2>1. PICK r \in X!Listings : seen \in UNION {X!CatalogsOf(f, r) : f \in X!Stands(r.known)}
    OBVIOUS
  <2>2. PICK f \in X!Stands(r.known) : seen \in X!CatalogsOf(f, r)
    BY <2>1
  <2> QED
    BY <2>2 DEF X!CatalogsOf, Items
<1> HIDE DEF Seen
<1>2. CASE catalog \in Seen
  BY <1>1, <1>2 DEF Catalog
<1>3. ASSUME NEW seen \in Seen, catalog = X!LocksUnseen(seen)
      PROVE  \E r \in X!Listings : \E f \in X!Stands(r.known), o \in X!Outcomes(r) :
                 Catalog(catalog, r, f, o)
  <2>1. PICK r \in X!Listings : \E f \in X!Stands(r.known), o \in X!Outcomes(r) :
            seen = [items |-> Items(f, r), conflicts |-> X!Conflicts(r.known),
                    errors |-> o.errors, whole |-> scan.whole /\ o.whole,
                    safe |-> scan.safe /\ o.whole]
    BY <1>1
  <2>2. PICK f \in X!Stands(r.known), o \in X!Outcomes(r) :
            seen = [items |-> Items(f, r), conflicts |-> X!Conflicts(r.known),
                    errors |-> o.errors, whole |-> scan.whole /\ o.whole,
                    safe |-> scan.safe /\ o.whole]
    BY <2>1
  <2>3. /\ catalog.conflicts = X!Conflicts(r.known) /\ catalog.errors = o.errors
        /\ catalog.items = {X!Item(i.file, i.asset, X!Blocked("locked")) : i \in Items(f, r)}
        /\ catalog.whole = FALSE
    BY <1>3, <2>2 DEF X!LocksUnseen
  <2> QED
    BY <2>3 DEF Catalog
<1>4. catalog \in Seen \/ \E seen \in Seen : catalog = X!LocksUnseen(seen)
  BY DEF X!Catalogs, Seen
<1> QED
  BY <1>2, <1>3, <1>4

\* Of a batch of the first version that leaves nothing out: what stands for a
\* file is registered, or the file has an item.
LEMMA SeedsAccount ==
    ASSUME X!InboxAssumption, InboxInv, NEW catalog \in X!Catalogs, catalog.whole,
           X!Selected(catalog) = X!Seeds(catalog), NEW n \in X!Name, scan.seen[n] # None
    PROVE  \/ \E i \in X!Selected(catalog) : i.file = n /\ (i.action = "add" \/ i.state = "blocked")
           \/ scan.seen[n] \in Content /\ registry[scan.seen[n]] # None
<1>1. PICK r \in X!Listings : \E f \in X!Stands(r.known), o \in X!Outcomes(r) :
          Catalog(catalog, r, f, o)
  BY CatalogParts
<1>2. PICK f \in X!Stands(r.known) : catalog.items = Items(f, r) /\ scan.whole
  BY <1>1 DEF Catalog
<1>3. n \in X!Visible
  BY <1>2 DEF X!Visible, InboxInv, X!TypeOK, ScanSound, X!File, X!Unreadable
<1>4. ASSUME NEW i \in catalog.items, i.file = n, i.action = "add" \/ i.state = "blocked",
             i.action # "none"
      PROVE  \E j \in X!Selected(catalog) : j.file = n /\ (j.action = "add" \/ j.state = "blocked")
  BY <1>4 DEF X!Seeds
<1>5. CASE n \in DOMAIN f
  <2>1. PICK b : b = X!Blocker(f[n], n, r)
    OBVIOUS
  <2>2. f[n] \in X!Current
    BY <1>5, StandsParts, ListingParts
  <2>3. CASE b # None
    <3>1. PICK i : i = X!Item(n, f[n], X!Blocked(b))
      OBVIOUS
    <3>2. i \in catalog.items
      BY <1>2, <1>5, <2>1, <2>3, <3>1 DEF X!FileItems, Items
    <3>3. i.file = n /\ i.state = "blocked" /\ i.action # "none"
      BY <3>1 DEF X!Item, X!Blocked
    <3> QED
      BY <1>4, <3>2, <3>3
  <2>4. CASE b = None
    <3>1. None \notin {"mismatch", "missing", "locked", "changed"}
      BY DEF X!InboxAssumption
    <3>2. scan.seen[n] = f[n]
      BY <2>1, <2>4, <3>1 DEF X!Blocker
    <3> QED
      BY <2>2, <3>2 DEF X!Current
  <2> QED
    BY <2>3, <2>4
<1>6. CASE n \notin DOMAIN f
  <2>1. PICK i : i = X!Item(n, None, IF scan.seen[n] = "cold" THEN X!Blocked("missing")
                                   ELSE [state |-> "new", action |-> "add"])
    OBVIOUS
  <2>2. i \in catalog.items
    BY <1>2, <1>3, <1>6, <2>1 DEF X!FileItems, Items
  <2>3. i.file = n /\ (i.action = "add" \/ i.state = "blocked") /\ i.action # "none"
    BY <2>1 DEF X!Item, X!Blocked
  <2> QED
    BY <1>4, <2>2, <2>3
<1> QED
  BY <1>5, <1>6

\* The items of the files and of the absent Assets are finite, and of the folder.
LEMMA ItemsFinite ==
    ASSUME X!InboxAssumption, X!TypeOK, NEW r \in X!Listings, NEW f \in X!Stands(r.known)
    PROVE  IsFiniteSet(Items(f, r)) /\ \A i \in Items(f, r) : i.file \in X!Name
<1> PICK Taken : Taken = DOMAIN f
  OBVIOUS
<1>2. /\ IsFiniteSet(X!Name) /\ IsFiniteSet(X!Current) /\ X!Current \subseteq Content
      /\ Taken \subseteq X!Name /\ X!Visible \subseteq X!Name /\ r.known \subseteq X!Current
  <2>1. X!Current \subseteq Content /\ IsFiniteSet(Content)
    BY SameFinite DEF X!Current, X!InboxAssumption
  <2>2. IsFiniteSet(X!Current)
    BY <2>1, FS_Subset
  <2>3. IsFiniteSet(X!Name)
    <3>1. Files \in Int /\ 1 \in Int
      BY DEF X!InboxAssumption
    <3> QED
      BY <3>1, FS_Interval DEF X!Name
  <2>4. Taken \subseteq X!Visible
    BY StandsParts
  <2> QED
    BY <2>1, <2>2, <2>3, <2>4, ListingParts DEF X!Visible
<1>3. IsFiniteSet(X!FileItems(f, r)) /\ \A i \in X!FileItems(f, r) : i.file \in X!Name
  <2> DEFINE g == [m \in Taken |->
                   X!Item(m, f[m], IF X!Blocker(f[m], m, r) # None
                                 THEN X!Blocked(X!Blocker(f[m], m, r))
                                 ELSE X!ByStatus(registry[f[m]].status))]
             h == [m \in X!Visible \ Taken |->
                   X!Item(m, None, IF scan.seen[m] = "cold" THEN X!Blocked("missing")
                                 ELSE [state |-> "new", action |-> "add"])]
  <2>1. X!FileItems(f, r) = {g[m] : m \in Taken} \cup {h[m] : m \in X!Visible \ Taken}
    BY DEF X!FileItems
  <2>2. \A m \in Taken : g[m].file = m
    BY DEF X!Item
  <2>3. \A m \in X!Visible \ Taken : h[m].file = m
    BY DEF X!Item
  <2> HIDE DEF g, h
  <2>4. IsFiniteSet(Taken) /\ IsFiniteSet(X!Visible \ Taken)
    BY <1>2, FS_Subset
  <2>5. IsFiniteSet({g[m] : m \in Taken}) /\ IsFiniteSet({h[m] : m \in X!Visible \ Taken})
    BY <2>4, FiniteImage
  <2>6. IsFiniteSet({g[m] : m \in Taken} \cup {h[m] : m \in X!Visible \ Taken})
    BY <2>5, FS_Union
  <2> QED
    BY <1>2, <2>1, <2>2, <2>3, <2>6
<1>4. IsFiniteSet(X!AbsentItems(f, r)) /\ \A i \in X!AbsentItems(f, r) : i.file \in X!Name
  <2> DEFINE Unseen == {c \in r.known : \A n \in DOMAIN f : f[n] # c}
             g == [c \in Unseen |-> X!Item(registry[c].at, c, X!Blocked("missing"))]
  <2>1. X!AbsentItems(f, r) = IF scan.whole THEN {g[c] : c \in Unseen} ELSE {}
    BY DEF X!AbsentItems
  <2>2. \A c \in Unseen : g[c].file = registry[c].at /\ registry[c].at \in X!Name
    BY <1>2 DEF X!Item, X!TypeOK, X!Current, X!Record
  <2> HIDE DEF g
  <2>3. IsFiniteSet(Unseen)
    <3>1. Unseen \subseteq X!Current
      BY <1>2
    <3> QED
      BY <1>2, <3>1, FS_Subset
  <2> HIDE DEF Unseen
  <2>4. IsFiniteSet({g[c] : c \in Unseen})
    BY <2>3, FiniteImage
  <2> QED
    BY <2>1, <2>2, <2>4, FS_EmptySet
<1> QED
  BY <1>3, <1>4, FS_Union DEF Items

\* A catalog, and what a batch is made from, is finite and of files of the folder.
LEMMA CatalogFinite ==
    ASSUME X!InboxAssumption, X!TypeOK, NEW catalog \in X!Catalogs
    PROVE  /\ IsFiniteSet(X!Seeds(catalog)) /\ X!Selected(catalog) \subseteq X!Seeds(catalog)
           /\ \A i \in X!Seeds(catalog) : i.file \in X!Name
<1>1. IsFiniteSet(catalog.items) /\ \A i \in catalog.items : i.file \in X!Name
  <2>1. PICK r \in X!Listings : \E f \in X!Stands(r.known), o \in X!Outcomes(r) :
            Catalog(catalog, r, f, o)
    BY CatalogParts
  <2>2. PICK f \in X!Stands(r.known) :
            \/ catalog.items = Items(f, r)
            \/ catalog.items = {X!Item(i.file, i.asset, X!Blocked("locked")) : i \in Items(f, r)}
    BY <2>1 DEF Catalog
  <2>3. IsFiniteSet(Items(f, r)) /\ \A i \in Items(f, r) : i.file \in X!Name
    BY ItemsFinite
  <2>4. CASE catalog.items = {X!Item(i.file, i.asset, X!Blocked("locked")) : i \in Items(f, r)}
    <3> PICK S : S = Items(f, r)
      OBVIOUS
    <3> DEFINE g == [i \in S |-> X!Item(i.file, i.asset, X!Blocked("locked"))]
    <3>1. catalog.items = {g[i] : i \in S}
      BY <2>4
    <3>2. \A i \in S : g[i].file = i.file
      BY DEF X!Item
    <3> HIDE DEF g
    <3>3. IsFiniteSet({g[i] : i \in S})
      BY <2>3, FiniteImage
    <3> QED
      BY <2>3, <3>1, <3>2, <3>3
  <2> QED
    BY <2>2, <2>3, <2>4
<1>2. IsFiniteSet(X!Name)
  <2>1. Files \in Int /\ 1 \in Int
    BY DEF X!InboxAssumption
  <2> QED
    BY <2>1, FS_Interval DEF X!Name
<1>5. IsFiniteSet({i \in catalog.items : i.action # "none"})
  BY <1>1, FS_Subset
<1>6. PICK Bad \in SUBSET X!Name : Bad = {m \in X!Name : scan.seen[m] \in {"invalid", "torn"}}
  OBVIOUS
<1>7. /\ IsFiniteSet({X!Item(m, None, X!Blocked("changed")) : m \in Bad})
      /\ \A i \in {X!Item(m, None, X!Blocked("changed")) : m \in Bad} : i.file \in X!Name
  <2> DEFINE g == [m \in Bad |-> X!Item(m, None, X!Blocked("changed"))]
  <2>1. {X!Item(m, None, X!Blocked("changed")) : m \in Bad} = {g[m] : m \in Bad}
    OBVIOUS
  <2>2. IsFiniteSet(Bad)
    BY <1>2, FS_Subset
  <2> HIDE DEF g
  <2>3. IsFiniteSet({g[m] : m \in Bad})
    BY <2>2, FiniteImage
  <2>4. \A i \in {X!Item(m, None, X!Blocked("changed")) : m \in Bad} : i.file \in X!Name
    BY SMTT(30) DEF X!Item
  <2> QED
    BY <2>1, <2>3, <2>4
<1>8. X!Seeds(catalog) = {i \in catalog.items : i.action # "none"}
                           \cup {X!Item(m, None, X!Blocked("changed")) : m \in Bad}
  BY <1>6 DEF X!Seeds
<1>9. X!Selected(catalog) \subseteq X!Seeds(catalog)
  BY DEF X!Selected
<1>10. IsFiniteSet(X!Seeds(catalog))
  <2>1. PICK S : S = {i \in catalog.items : i.action # "none"}
    OBVIOUS
  <2>2. PICK T : T = {X!Item(m, None, X!Blocked("changed")) : m \in Bad}
    OBVIOUS
  <2>3. IsFiniteSet(S) /\ IsFiniteSet(T) /\ X!Seeds(catalog) = S \cup T
    BY <1>5, <1>7, <1>8, <2>1, <2>2
  <2>4. IsFiniteSet(S \cup T)
    BY <2>3, FS_Union
  <2> QED
    BY <2>3, <2>4
<1> QED
  BY <1>1, <1>7, <1>8, <1>9, <1>10

\* A batch of the first version that begins.
LEMMA BeginBatchKeeps ==
    ASSUME X!InboxAssumption, InboxInv, X!BeginBatch
    PROVE  InboxInv'
<1> PICK catalog \in X!Catalogs : batch' = X!BatchOf(catalog)
  BY DEF X!BeginBatch
<1> DEFINE Adds == {i.file : i \in {j \in X!Selected(catalog) : j.action = "add"}}
           Safe == catalog.safe /\ ~X!Erroneous(catalog)
           Bad == {i.file : i \in {j \in X!Selected(catalog) : j.state = "blocked"}}
<1>1. /\ batch' = [done |-> {}, todo |-> IF Safe THEN Adds ELSE {},
                   wrong |-> (IF Safe THEN {} ELSE Adds) \cup Bad,
                   dropped |-> Cardinality(X!Seeds(catalog)) - Cardinality(X!Selected(catalog)),
                   whole |-> catalog.whole /\ Safe]
      /\ pc = "scanned" /\ generation = "v1" /\ pc' = "adding"
      /\ UNCHANGED <<generation, folder, registry, source, scan>>
  BY SameFinite DEF X!BeginBatch, X!BatchOf, X!repository
<1>2. X!TypeOK /\ ScanSound
  BY DEF InboxInv
<1>3. /\ IsFiniteSet(X!Seeds(catalog)) /\ X!Selected(catalog) \subseteq X!Seeds(catalog)
      /\ \A i \in X!Seeds(catalog) : i.file \in X!Name
  BY <1>2, CatalogFinite
<1>4. /\ Cardinality(X!Seeds(catalog)) \in Nat /\ Cardinality(X!Selected(catalog)) \in Nat
      /\ Cardinality(X!Selected(catalog)) <= Cardinality(X!Seeds(catalog))
      /\ Cardinality(X!Selected(catalog)) = Cardinality(X!Seeds(catalog)) =>
             X!Selected(catalog) = X!Seeds(catalog)
  BY <1>3, FS_Subset, FS_CardinalityType
<1>5. Adds \subseteq X!Name /\ Bad \subseteq X!Name
  BY <1>3
<1>6. ASSUME batch'.dropped = 0, catalog.whole, NEW n \in X!Name, scan.seen[n] # None
      PROVE  \/ n \in Adds \cup Bad
             \/ scan.seen[n] \in Content /\ registry[scan.seen[n]] # None
  <2>1. X!Selected(catalog) = X!Seeds(catalog)
    BY <1>1, <1>4, <1>6
  <2> QED
    BY <1>6, <2>1, SeedsAccount
<1>10. catalog.whole => scan.whole
  BY CatalogParts DEF Catalog
<1> HIDE DEF Adds, Bad
<1>7. X!TypeOK'
  <2>1. batch'.whole \in BOOLEAN
    BY <1>1
  <2> HIDE DEF Safe
  <2> QED
    BY <1>1, <1>2, <1>4, <1>5, <2>1 DEF X!TypeOK
<1> HIDE DEF Safe
<1>11. batch'.whole => catalog.whole /\ Safe
  <2>1. batch'.whole = (catalog.whole /\ Safe)
    BY <1>1
  <2> QED
    BY <2>1, Zenon
<1>8. ASSUME batch'.dropped = 0, batch'.whole, NEW n \in X!Name, scan.seen[n] # None
      PROVE  Accounted(n)'
  BY <1>1, <1>6, <1>8, <1>11 DEF Accounted
<1>9. BatchSound'
  BY <1>1, <1>8, <1>10, <1>11 DEF BatchSound
<1> QED
  BY <1>1, <1>2, <1>7, <1>9 DEF InboxInv, ScanSound

\* A batch of the second version that begins.
LEMMA BeginPageKeeps ==
    ASSUME X!InboxAssumption, InboxInv, X!BeginPage
    PROVE  InboxInv'
<1>1. /\ batch' = [done |-> {},
                   todo |-> {n \in X!Page : scan.seen[n] \in Content},
                   wrong |-> {n \in X!Page : scan.seen[n] \notin Content},
                   dropped |-> Cardinality(X!Candidates \ X!Page), whole |-> scan.listed]
      /\ pc = "scanned" /\ generation = "v2" /\ pc' = "adding"
      /\ UNCHANGED <<generation, folder, registry, source, scan>>
  BY SameFinite DEF X!BeginPage, X!repository
<1>2. X!TypeOK /\ ScanSound
  BY DEF InboxInv
<1>3. X!Page \subseteq X!Candidates /\ X!Candidates \subseteq X!Name
  BY DEF X!Page, X!Candidates
<1>4. IsFiniteSet(X!Candidates \ X!Page)
  <2>1. Files \in Int /\ 1 \in Int
    BY DEF X!InboxAssumption
  <2>2. IsFiniteSet(X!Name)
    BY <2>1, FS_Interval DEF X!Name
  <2> QED
    BY <1>3, <2>2, FS_Subset
<1>5. /\ Cardinality(X!Candidates \ X!Page) \in Nat
      /\ Cardinality(X!Candidates \ X!Page) = 0 => X!Candidates = X!Page
  <2>1. PICK unseen : unseen = X!Candidates \ X!Page
    OBVIOUS
  <2>2. Cardinality(unseen) \in Nat /\ (Cardinality(unseen) = 0 => unseen = {})
    BY <1>4, <2>1, FS_CardinalityType, FS_EmptySet
  <2> QED
    BY <1>3, <2>1, <2>2
<1>6. X!TypeOK'
  BY <1>1, <1>2, <1>3, <1>5 DEF X!TypeOK
<1>7. ASSUME batch'.dropped = 0, NEW n \in X!Name, scan.seen[n] # None
      PROVE  /\ n \in batch'.todo \cup batch'.wrong
             /\ scan.seen[n] \notin Content => n \in batch'.wrong
  <2>1. n \in X!Page
    BY <1>1, <1>5, <1>7 DEF X!Candidates
  <2> QED
    BY <1>1, <2>1
<1>8. BatchSound'
  BY <1>1, <1>7 DEF BatchSound, Accounted
<1> QED
  BY <1>1, <1>2, <1>6, <1>8 DEF InboxInv, ScanSound

\* A file that is added, or not.
LEMMA AddNextKeeps ==
    ASSUME X!InboxAssumption, InboxInv, X!AddNext
    PROVE  InboxInv'
<1> PICK n : n = X!Min(batch.todo)
  OBVIOUS
<1>1. X!TypeOK /\ ScanSound /\ BatchSound
  BY DEF InboxInv
<1>2. /\ pc = "adding" /\ n \in batch.todo /\ n \in X!Name
      /\ UNCHANGED <<generation, folder, source, pc, scan>>
  <2>1. pc = "adding" /\ batch.todo # {} /\ UNCHANGED <<generation, folder, source, pc, scan>>
    BY DEF X!AddNext
  <2>2. batch.todo \in SUBSET X!Name /\ batch.todo \in SUBSET Nat
    BY <1>1 DEF X!TypeOK, X!Name
  <2> QED
    BY <2>1, <2>2, LeastOf
<1>3. /\ \/ batch' = [batch EXCEPT !.todo = @ \ {n}, !.done = @ \cup {n}]
         \/ batch' = [batch EXCEPT !.todo = @ \ {n}, !.wrong = @ \cup {n}]
      /\ \/ registry' = registry
         \/ /\ folder[n] \in Content
            /\ registry' = [registry EXCEPT ![folder[n]] =
                                IF @ = None THEN [at |-> n, status |-> "registered"] ELSE @]
  BY DEF X!AddNext
<1>4. /\ batch'.dropped = batch.dropped /\ batch'.whole = batch.whole
      /\ batch.wrong \subseteq batch'.wrong
      /\ batch.todo \cup batch.wrong \cup batch.done
             \subseteq batch'.todo \cup batch'.wrong \cup batch'.done
      /\ batch' \in [todo : SUBSET X!Name, done : SUBSET X!Name, wrong : SUBSET X!Name,
                    dropped : Nat, whole : BOOLEAN]
  <2>1. CASE batch' = [batch EXCEPT !.todo = @ \ {n}, !.done = @ \cup {n}]
    BY <1>1, <1>2, <2>1 DEF X!TypeOK
  <2>2. CASE batch' = [batch EXCEPT !.todo = @ \ {n}, !.wrong = @ \cup {n}]
    BY <1>1, <1>2, <2>2 DEF X!TypeOK
  <2> QED
    BY <1>3, <2>1, <2>2
<1>5. /\ registry' \in [Content -> X!Record \cup {None}]
      /\ \A c \in Content : registry[c] # None => registry'[c] # None
  <2>1. [at |-> n, status |-> "registered"] \in X!Record
    BY <1>2 DEF X!Record, X!Status
  <2> QED
    BY <1>1, <1>3, <2>1 DEF X!TypeOK
<1>6. X!TypeOK'
  BY <1>1, <1>2, <1>4, <1>5 DEF X!TypeOK
<1>7. BatchSound'
  BY <1>1, <1>2, <1>4, <1>5 DEF BatchSound, Accounted
<1> QED
  BY <1>1, <1>2, <1>6, <1>7 DEF InboxInv, ScanSound

\* A batch that ends, a report that is given, and what others do.
LEMMA OthersKeep ==
    ASSUME X!InboxAssumption, InboxInv,
           \/ X!EndBatch \/ X!Done
           \/ \E n \in X!Name, f \in X!File : X!Meddle(n, f)
           \/ \E c \in Content, n \in X!Name, k \in Kept : X!Elsewhere(c, n, k)
    PROVE  InboxInv'
<1>1. X!TypeOK /\ ScanSound /\ BatchSound
  BY DEF InboxInv
<1>2. CASE X!EndBatch
  BY <1>1, <1>2 DEF X!EndBatch, InboxInv, X!TypeOK, ScanSound, BatchSound, Accounted, X!repository
<1>3. CASE X!Done
  <2>1. X!TypeOK'
    BY <1>1, <1>3 DEF X!Done, X!TypeOK, X!NoScan, X!NoBatch, X!File, X!repository
  <2>2. ScanSound' /\ BatchSound'
    BY <1>3 DEF X!Done, ScanSound, BatchSound, X!NoScan, X!InboxAssumption, X!Unreadable
  <2> QED
    BY <2>1, <2>2 DEF InboxInv
<1>4. ASSUME NEW n \in X!Name, NEW f \in X!File, X!Meddle(n, f) PROVE InboxInv'
  BY <1>1, <1>4 DEF X!Meddle, InboxInv, X!TypeOK, ScanSound, BatchSound, Accounted, X!repository
<1>5. ASSUME NEW c \in Content, NEW n \in X!Name, NEW k \in Kept, X!Elsewhere(c, n, k)
      PROVE  InboxInv'
  <2>1. k[1] \in X!Status /\ k[2] \in X!Observation
    BY DEF X!InboxAssumption
  <2>2. [at |-> n, status |-> k[1]] \in X!Record
    BY <2>1 DEF X!Record
  <2>3. X!TypeOK'
    BY <1>1, <1>5, <2>1, <2>2 DEF X!Elsewhere, X!TypeOK
  <2>4. ScanSound' /\ BatchSound'
    BY <1>1, <1>5 DEF X!Elsewhere, ScanSound, BatchSound
  <2> QED
    BY <2>3, <2>4 DEF InboxInv
<1> QED
  BY <1>2, <1>3, <1>4, <1>5

\* Every step keeps the invariant.
LEMMA InboxNext ==
    ASSUME X!InboxAssumption, InboxInv, X!Next \/ UNCHANGED X!vars
    PROVE  InboxInv'
<1>1. CASE UNCHANGED X!vars
  BY <1>1 DEF X!vars, InboxInv, X!TypeOK, ScanSound, BatchSound, Accounted
<1>2. CASE X!BeginBatch
  BY <1>2, BeginBatchKeeps
<1> QED
  BY <1>1, <1>2, WalkKeeps, ReadKeeps, ScanEnds, BeginPageKeeps, AddNextKeeps,
     OthersKeep DEF X!Next

-----------------------------------------------------------------------------

\* What an item says and what it asks for.
Kinds == {<<"blocked", "hydrate">>, <<"blocked", "retry">>, <<"blocked", "repair">>,
          <<"registered", "prepare">>, <<"incomplete", "write_draft">>,
          <<"review_pending", "review">>, <<"processed", "none">>, <<"new", "add">>}
Actions == {"repair", "hydrate", "retry", "review", "write_draft", "prepare", "add", "none"}

\* Every item asks for what its state calls for.
LEMMA ItemKinds ==
    ASSUME NEW catalog \in X!Catalogs, NEW i \in catalog.items
    PROVE  <<i.state, i.action>> \in Kinds
<1>1. PICK r \in X!Listings : \E f \in X!Stands(r.known), o \in X!Outcomes(r) :
          Catalog(catalog, r, f, o)
  BY CatalogParts
<1>2. PICK f \in X!Stands(r.known), o \in X!Outcomes(r) : Catalog(catalog, r, f, o)
  BY <1>1
<1>3. \A b : <<X!Blocked(b).state, X!Blocked(b).action>> \in Kinds
  BY DEF X!Blocked, Kinds
<1>4. \A status : <<X!ByStatus(status).state, X!ByStatus(status).action>> \in Kinds
  BY <1>3 DEF X!ByStatus, Kinds
<1>5. CASE i \in X!FileItems(f, r)
  <2>1. \/ \E m, c, b : i = X!Item(m, c, X!Blocked(b))
        \/ \E m, c, status : i = X!Item(m, c, X!ByStatus(status))
        \/ \E m : i = X!Item(m, None, [state |-> "new", action |-> "add"])
    BY <1>5 DEF X!FileItems
  <2> QED
    BY <1>3, <1>4, <2>1 DEF X!Item, Kinds
<1>6. CASE i \in X!AbsentItems(f, r)
  <2>1. \E m, c : i = X!Item(m, c, X!Blocked("missing"))
    BY <1>6 DEF X!AbsentItems
  <2> QED
    BY <1>3, <2>1 DEF X!Item
<1>7. CASE i \in {X!Item(j.file, j.asset, X!Blocked("locked")) : j \in Items(f, r)}
  <2>1. \E m, c : i = X!Item(m, c, X!Blocked("locked"))
    BY <1>7
  <2> QED
    BY <1>3, <2>1 DEF X!Item
<1> QED
  BY <1>2, <1>5, <1>6, <1>7 DEF Catalog, Items

\* Of some actions one is most urgent.
LEMMA MostUrgent ==
    ASSUME NEW All \in SUBSET Actions, All # {},
           NEW a, a = CHOOSE x \in All : \A y \in All : X!Priority(x) <= X!Priority(y)
    PROVE  a \in All /\ \A y \in All : X!Priority(a) <= X!Priority(y)
<1>1. /\ X!Priority("repair") = 1 /\ X!Priority("hydrate") = 2 /\ X!Priority("retry") = 3
      /\ X!Priority("review") = 4 /\ X!Priority("write_draft") = 5 /\ X!Priority("prepare") = 6
      /\ X!Priority("add") = 7 /\ X!Priority("none") = 8
  BY DEF X!Priority
<1>2. \E x \in All : \A y \in All : X!Priority(x) <= X!Priority(y)
  <2>1. \A x \in Actions : X!Priority(x) \in 1..8
    BY <1>1 DEF Actions
  <2> DEFINE Least(x) == \A y \in All : X!Priority(x) <= X!Priority(y)
  <2>2. CASE "repair" \in All
    BY <1>1, <2>1, <2>2
  <2>3. CASE "repair" \notin All /\ "hydrate" \in All
    BY <1>1, <2>3 DEF Actions
  <2>4. CASE All \cap {"repair", "hydrate"} = {} /\ "retry" \in All
    BY <1>1, <2>4 DEF Actions
  <2>5. CASE All \cap {"repair", "hydrate", "retry"} = {} /\ "review" \in All
    BY <1>1, <2>5 DEF Actions
  <2>6. CASE All \cap {"repair", "hydrate", "retry", "review"} = {} /\ "write_draft" \in All
    BY <1>1, <2>6 DEF Actions
  <2>7. CASE All \subseteq {"prepare", "add", "none"} /\ "prepare" \in All
    BY <1>1, <2>7
  <2>8. CASE All \subseteq {"add", "none"} /\ "add" \in All
    BY <1>1, <2>8
  <2>9. CASE All = {"none"}
    BY <1>1, <2>9
  <2> QED
    BY <2>2, <2>3, <2>4, <2>5, <2>6, <2>7, <2>8, <2>9 DEF Actions
<1> QED
  BY <1>2

\* A file two Assets claim that is there is an item that is blocked.
LEMMA ConflictShows ==
    ASSUME NEW catalog \in X!Catalogs, NEW n \in catalog.conflicts \cap X!Visible,
           catalog.whole, None # "mismatch"
    PROVE  \E i \in catalog.items : i.state = "blocked"
<1>1. PICK r \in X!Listings : \E f \in X!Stands(r.known), o \in X!Outcomes(r) :
          Catalog(catalog, r, f, o)
  BY CatalogParts
<1>2. PICK f \in X!Stands(r.known) :
          catalog.items = Items(f, r) /\ catalog.conflicts = X!Conflicts(r.known)
  BY <1>1 DEF Catalog
<1>3. n \in DOMAIN f
  <2>1. Cardinality(X!Claims(r.known, n)) > 1
    BY <1>2, SameFinite DEF X!Conflicts
  <2>2. X!Claims(r.known, n) # {}
    BY <2>1, FS_EmptySet
  <2> QED
    BY <2>2, StandsParts DEF X!AssetsAt
<1>4. X!Blocker(f[n], n, r) = "mismatch"
  BY <1>2 DEF X!Blocker, X!Conflicts
<1>5. X!Item(n, f[n], X!Blocked("mismatch")) \in catalog.items
  BY <1>2, <1>3, <1>4 DEF X!FileItems, Items
<1> QED
  BY <1>5 DEF X!Item, X!Blocked

\* A status of good health was seen of every Asset.
LEMMA HealthSeen ==
    ASSUME X!InboxAssumption, NEW catalog \in X!Catalogs, X!Healthy(catalog), NEW c \in X!Current
    PROVE  \E n \in X!Name : scan.seen[n] = c
<1>1. PICK r \in X!Listings : \E f \in X!Stands(r.known), o \in X!Outcomes(r) :
          Catalog(catalog, r, f, o)
  BY CatalogParts
<1>2. catalog.whole /\ catalog.errors = {} /\ \A i \in catalog.items : i.state # "blocked"
  BY DEF X!Healthy, X!Complete, X!AnyBlocked, X!Erroneous
<1>3. PICK f \in X!Stands(r.known), o \in X!Outcomes(r) :
          catalog.items = Items(f, r) /\ scan.whole /\ o.whole /\ o.errors = {}
  BY <1>1, <1>2 DEF Catalog
<1>4. c \in r.known
  BY <1>3 DEF X!Outcomes
<1>5. \E n \in DOMAIN f : f[n] = c
  <2> SUFFICES ASSUME \A n \in DOMAIN f : f[n] # c PROVE FALSE
    OBVIOUS
  <2>1. X!Item(registry[c].at, c, X!Blocked("missing")) \in catalog.items
    BY <1>3, <1>4 DEF X!AbsentItems, Items
  <2> QED
    BY <1>2, <2>1 DEF X!Item, X!Blocked
<1>6. PICK n \in DOMAIN f : f[n] = c
  BY <1>5
<1>7. PICK b : b = X!Blocker(c, n, r)
  OBVIOUS
<1>8. b = None
  <2> SUFFICES ASSUME b # None PROVE FALSE
    OBVIOUS
  <2>1. X!Item(n, c, X!Blocked(b)) \in catalog.items
    BY <1>3, <1>6, <1>7 DEF X!FileItems, Items
  <2> QED
    BY <1>2, <2>1 DEF X!Item, X!Blocked
<1>9. scan.seen[n] = c
  BY <1>7, <1>8 DEF X!Blocker, X!InboxAssumption
<1> QED
  BY <1>6, <1>9, StandsParts DEF X!Visible

\* Status and home.
LEMMA StatusAgrees ==
    ASSUME X!InboxAssumption, NEW catalog \in X!Catalogs
    PROVE  X!HomeAndStatusAgree(catalog)
<1> DEFINE Wrong == {i.action : i \in {j \in X!Shown(catalog) : j.state = "blocked"}}
                        \cup (IF X!Erroneous(catalog) THEN {"repair"} ELSE {})
                        \cup (IF X!Complete(catalog) THEN {} ELSE {"retry"})
           All == IF Wrong # {} THEN Wrong ELSE {i.action : i \in X!Shown(catalog)} \cup {"none"}
<1> PICK a : a = X!NextAction(catalog)
  OBVIOUS
<1>1. X!Shown(catalog) \subseteq catalog.items
  BY DEF X!Shown
<1>2. \A i \in catalog.items : <<i.state, i.action>> \in Kinds
  BY ItemKinds
<1>3. All \in SUBSET Actions /\ All # {}
  BY <1>1, <1>2 DEF Kinds, Actions
<1>4. a = CHOOSE x \in All : \A y \in All : X!Priority(x) <= X!Priority(y)
  BY DEF X!NextAction, X!Complete
<1>5. a \in All /\ \A y \in All : X!Priority(a) <= X!Priority(y)
  <2> HIDE DEF All
  <2> QED
    BY <1>3, <1>4, MostUrgent
<1>6. /\ X!Priority("repair") = 1 /\ X!Priority("hydrate") = 2 /\ X!Priority("retry") = 3
      /\ X!Priority("review") = 4 /\ X!Priority("write_draft") = 5 /\ X!Priority("prepare") = 6
      /\ X!Priority("add") = 7 /\ X!Priority("none") = 8
  BY DEF X!Priority
<1>7. CASE ~X!Healthy(catalog)
  <2>1. Wrong # {}
    <3>1. X!Complete(catalog) => X!Shown(catalog) = catalog.items
      BY DEF X!Complete
    <3>2. CASE ~X!Erroneous(catalog) /\ X!Complete(catalog)
      <4>1. PICK i \in catalog.items : i.state = "blocked"
        BY <1>7, <3>2 DEF X!Healthy, X!AnyBlocked, X!Erroneous
      <4> QED
        BY <3>1, <3>2, <4>1
    <3> QED
      BY <3>2
  <2>2. Wrong \subseteq {"repair", "hydrate", "retry"}
    BY <1>1, <1>2 DEF Kinds
  <2>3. a \in {"repair", "hydrate", "retry"}
    BY <1>5, <2>1, <2>2
  <2>4. X!Class(a) = "repair"
    BY <2>3 DEF X!Class
  <2>5. CASE X!AnyBlocked(catalog)
    BY <2>4, <2>5 DEF X!HomeAndStatusAgree, X!HomeLegacy
  <2>6. CASE ~X!AnyBlocked(catalog)
    <3>1. ASSUME X!Complete(catalog), "uncounted" \notin catalog.errors,
                 catalog.conflicts \subseteq X!Visible
          PROVE  FALSE
      <4>1. catalog.errors \subseteq {"counted", "uncounted"}
        BY CatalogParts DEF Catalog, X!Outcomes
      <4>2. catalog.errors = {}
        BY <2>6, <3>1, <4>1 DEF X!AnyBlocked
      <4>3. PICK n \in catalog.conflicts : TRUE
        BY <1>7, <2>6, <3>1, <4>2 DEF X!Healthy, X!Erroneous
      <4> QED
        BY <2>6, <3>1, <4>3, ConflictShows DEF X!InboxAssumption, X!AnyBlocked, X!Complete
    <3> QED
      BY <1>7, <2>4, <3>1 DEF X!HomeAndStatusAgree
  <2> QED
    BY <2>5, <2>6
<1>8. CASE X!Healthy(catalog)
  <2>1. /\ ~X!AnyBlocked(catalog) /\ \A i \in catalog.items : i.state # "blocked"
        /\ X!Shown(catalog) = catalog.items
    BY <1>8 DEF X!Healthy, X!AnyBlocked, X!Complete
  <2>2. All = {i.action : i \in catalog.items} \cup {"none"}
    <3>1. Wrong = {}
      BY <1>8, <2>1 DEF X!Healthy
    <3> QED
      BY <2>1, <3>1
  <2> HIDE DEF All
  <2>3. a \notin {"repair", "hydrate", "retry"}
    BY <1>2, <1>5, <2>1, <2>2 DEF Kinds
  <2>4. CASE \E i \in catalog.items : i.state = "review_pending"
    <3>1. "review" \in All
      BY <1>2, <2>2, <2>4 DEF Kinds
    <3>2. a = "review"
      BY <1>3, <1>5, <1>6, <2>3, <3>1 DEF Actions
    <3> QED
      BY <2>1, <2>4, <3>2 DEF X!HomeAndStatusAgree, X!HomeLegacy, X!Class
  <2>5. ASSUME \A i \in catalog.items : i.state # "review_pending" PROVE a # "review"
    BY <1>2, <1>5, <2>2, <2>5 DEF Kinds
  <2>6. CASE /\ \A i \in catalog.items : i.state # "review_pending"
             /\ \E i \in catalog.items : i.state \in {"new", "registered", "incomplete"}
    <3>1. \E y \in All : y \in {"add", "prepare", "write_draft"}
      BY <1>2, <2>2, <2>6 DEF Kinds
    <3>2. X!Class(a) = "add"
      BY <1>3, <1>5, <1>6, <2>3, <2>5, <2>6, <3>1 DEF Actions, X!Class
    <3> QED
      BY <2>1, <2>6, <3>2 DEF X!HomeAndStatusAgree, X!HomeLegacy
  <2>7. CASE \A i \in catalog.items :
                 i.state \notin {"review_pending", "new", "registered", "incomplete"}
    <3>1. All = {"none"}
      BY <1>2, <2>1, <2>2, <2>7 DEF Kinds
    <3>2. a = "none"
      BY <1>5, <3>1
    <3> QED
      BY <2>1, <2>7, <3>2 DEF X!HomeAndStatusAgree, X!HomeLegacy, X!Class
  <2> QED
    BY <2>4, <2>6, <2>7
<1> QED
  BY <1>7, <1>8

\* What is said of a scan and of a batch.
LEMMA InboxReports ==
    ASSUME X!InboxAssumption, InboxInv
    PROVE  X!ReportsAreTrue
<1>1. \A catalog \in X!Catalogs :
          /\ X!HomeAndStatusAgree(catalog)
          /\ X!Healthy(catalog) => \A c \in X!Current : \E n \in X!Name : scan.seen[n] = c
  BY StatusAgrees, HealthSeen
<1>2. ASSUME pc = "added", X!BatchComplete
      PROVE  /\ \A n \in X!Name : scan.seen[n] # None =>
                    \/ n \in batch.wrong \cup batch.done
                    \/ scan.seen[n] \in Content /\ registry[scan.seen[n]] # None
             /\ generation = "v2" /\ batch.wrong = {} =>
                    ~X!Trouble /\ X!NewFiles \subseteq batch.done
  <2>1. /\ batch.dropped = 0 /\ batch.whole /\ batch.todo = {} /\ generation \in {"v1", "v2"}
        /\ generation = "v2" => scan.listed
    BY <1>2 DEF X!BatchComplete, InboxInv, BatchSound, X!TypeOK
  <2>2. ASSUME NEW n \in X!Name, scan.seen[n] # None PROVE Accounted(n)
    BY <1>2, <2>1, <2>2 DEF InboxInv, BatchSound
  <2>3. ASSUME generation = "v2", batch.wrong = {}
        PROVE  ~X!Trouble /\ X!NewFiles \subseteq batch.done
    <3>1. \A n \in X!Name : scan.seen[n] \in Content \cup {None}
      BY <1>2, <2>1, <2>3 DEF InboxInv, BatchSound
    <3>2. \A n \in X!Name : scan.seen[n] \notin {"cold", "invalid", "torn"}
      BY <3>1 DEF X!InboxAssumption, X!Unreadable
    <3>3. scan.whole
      BY <2>1, <2>3, <3>2 DEF InboxInv, ScanSound
    <3>4. X!NewFiles \subseteq batch.done
      <4>1. ASSUME NEW n \in X!NewFiles PROVE n \in batch.done
        <5>1. n \in X!Name /\ scan.seen[n] \in Content /\ registry[scan.seen[n]] = None
          BY DEF X!NewFiles
        <5>2. scan.seen[n] # None
          BY <5>1 DEF X!InboxAssumption
        <5> QED
          BY <2>1, <2>2, <2>3, <5>1, <5>2 DEF Accounted
      <4> QED
        BY <4>1
    <3> QED
      BY <3>2, <3>3, <3>4 DEF X!Trouble
  <2> QED
    BY <2>1, <2>2, <2>3 DEF Accounted
<1> QED
  BY <1>1, <1>2 DEF X!ReportsAreTrue

\* Whatever happens in the folder while it is scanned, and to the Assets between
\* two commands, and whatever documents cannot be read: a status of good health
\* has seen every Asset's content; status and home recommend the same, or status
\* sees trouble and something was not seen, not shown or not counted; and a batch
\* that calls itself complete has an answer for every file of the folder.
THEOREM ReportsOfTheFolderAreTrue ==
    ASSUME X!InboxAssumption
    PROVE  X!Spec => []X!ReportsAreTrue
<1>1. X!Init => InboxInv
  BY InboxInit
<1>2. InboxInv /\ [X!Next]_X!vars => InboxInv'
  BY InboxNext
<1>3. InboxInv => X!ReportsAreTrue
  BY InboxReports
<1> QED
  BY <1>1, <1>2, <1>3, PTL DEF X!Spec

-----------------------------------------------------------------------------
(* Orders *)

\* Of finitely many things in an order, one comes after all the others.
LEMMA GreatestOf ==
    ASSUME NEW S, IsFiniteSet(S), S # {}, NEW Order,
           \A x, y, z \in S : <<x, y>> \in Order /\ <<y, z>> \in Order => <<x, z>> \in Order,
           \A x, y \in S : x # y => <<x, y>> \in Order \/ <<y, x>> \in Order
    PROVE  \E m \in S : \A x \in S \ {m} : <<x, m>> \in Order
<1> DEFINE Above(m) == {x \in S \ {m} : <<x, m>> \notin Order}
           T == {Above(m) : m \in S}
<1>1. T # {} /\ T \subseteq FiniteSubsetsOf(S)
  <2>1. \A m \in S : Above(m) \in SUBSET S /\ IsFiniteSet(Above(m))
    BY FS_Subset
  <2> HIDE DEF Above
  <2>2. \A m \in S : Above(m) \in FiniteSubsetsOf(S)
    BY <2>1 DEF FiniteSubsetsOf
  <2> QED
    BY <2>2
<1> HIDE DEF T
<1>2. PICK a \in T : \A b \in T : ~(<<b, a>> \in StrictSubsetOrdering(S))
  BY <1>1, FS_StrictSubsetOrderingWellFounded, WFMin
<1>3. PICK m \in S : a = Above(m)
  BY DEF T
<1>4. ASSUME NEW x \in S \ {m}, <<x, m>> \notin Order PROVE FALSE
  <2>1. <<m, x>> \in Order
    BY <1>4
  <2>2. Above(x) \in T /\ Above(x) \in SUBSET S /\ Above(m) \in SUBSET S
    BY DEF T
  <2>3. \A y \in Above(x) : y \in Above(m) \/ y = m
    BY <2>1
  <2>4. m \notin Above(x)
    BY <2>1
  <2>5. x \in Above(m) /\ x \notin Above(x)
    BY <1>4
  <2>6. <<Above(x), Above(m)>> \in StrictSubsetOrdering(S)
    BY <2>2, <2>3, <2>4, <2>5, Zenon DEF StrictSubsetOrdering
  <2> QED
    BY <1>2, <1>3, <2>2, <2>6
<1> QED
  BY <1>4

\* Finitely many things can be put in order.
LEMMA CanBeSorted ==
    ASSUME NEW S, IsFiniteSet(S), NEW Order,
           \A x, y, z \in S : <<x, y>> \in Order /\ <<y, z>> \in Order => <<x, z>> \in Order,
           \A x, y \in S : x # y => <<x, y>> \in Order \/ <<y, x>> \in Order
    PROVE  \E list \in [1..Cardinality(S) -> S] :
               \A i, j \in 1..Cardinality(S) : i < j => <<list[i], list[j]>> \in Order
<1> DEFINE Sorted(T) == \E list \in [1..Cardinality(T) -> T] :
               \A i, j \in 1..Cardinality(T) : i < j => <<list[i], list[j]>> \in Order
           Bad == {T \in FiniteSubsetsOf(S) : ~Sorted(T)}
<1> SUFFICES ASSUME S \in Bad PROVE FALSE
  BY DEF FiniteSubsetsOf
<1> HIDE DEF Sorted
<1>1. PICK T \in Bad : \A W \in Bad : ~(<<W, T>> \in StrictSubsetOrdering(S))
  <2>1. Bad # {} /\ Bad \subseteq FiniteSubsetsOf(S)
    OBVIOUS
  <2> HIDE DEF Bad
  <2> QED
    BY <2>1, FS_StrictSubsetOrderingWellFounded, WFMin
<1>2. T \in SUBSET S /\ IsFiniteSet(T) /\ ~Sorted(T)
  BY DEF FiniteSubsetsOf
<1>3. T # {}
  <2>1. ASSUME T = {} PROVE FALSE
    <3>1. Cardinality(T) = 0
      BY <2>1, FS_EmptySet
    <3>2. PICK list : list = [i \in 1..0 |-> i]
      OBVIOUS
    <3>3. list \in [1..Cardinality(T) -> T]
      BY <3>1, <3>2
    <3>4. \A i, j \in 1..Cardinality(T) : FALSE
      BY <3>1
    <3> QED
      BY <1>2, <3>3, <3>4 DEF Sorted
  <2> QED
    BY <2>1
<1>4. PICK m \in T : \A x \in T \ {m} : <<x, m>> \in Order
  BY <1>2, <1>3, GreatestOf
<1>5. IsFiniteSet(T \ {m}) /\ Cardinality(T \ {m}) = Cardinality(T) - 1
      /\ Cardinality(T) \in Nat /\ Cardinality(T) # 0
  BY <1>2, <1>3, FS_RemoveElement, FS_CardinalityType, FS_EmptySet
<1>6. Sorted(T \ {m})
  <2>1. <<T \ {m}, T>> \in StrictSubsetOrdering(S)
    BY <1>2, Zenon DEF StrictSubsetOrdering
  <2>2. T \ {m} \in FiniteSubsetsOf(S)
    BY <1>2, <1>5 DEF FiniteSubsetsOf
  <2> QED
    BY <1>1, <2>1, <2>2
<1> DEFINE n == Cardinality(T)
<1>7. PICK f \in [1..(n - 1) -> T \ {m}] : \A i, j \in 1..(n - 1) : i < j => <<f[i], f[j]>> \in Order
  BY <1>5, <1>6 DEF Sorted
<1> DEFINE g == [i \in 1..n |-> IF i = n THEN m ELSE f[i]]
<1> HIDE DEF n
<1>8. g \in [1..n -> T]
  BY <1>5, <1>7 DEF n
<1>9. \A i, j \in 1..n : i < j => <<g[i], g[j]>> \in Order
  BY <1>4, <1>5, <1>7 DEF n
<1> QED
  BY <1>2, <1>8, <1>9 DEF Sorted, n

\* A list of as many as there are, in an order where nothing is before itself, has all.
LEMMA SortedHasAll ==
    ASSUME NEW S, IsFiniteSet(S), NEW list \in [1..Cardinality(S) -> S],
           \A i, j \in 1..Cardinality(S) : i < j => list[i] # list[j]
    PROVE  \A x \in S : \E i \in 1..Cardinality(S) : list[i] = x
<1>1. Cardinality(S) \in Nat
  BY FS_CardinalityType
<1> DEFINE n == Cardinality(S)
<1>2. IsFiniteSet(1..n) /\ Cardinality(1..n) = n
  BY <1>1, FS_Interval
<1>3. list \in Injection(1..n, S)
  <2>1. ASSUME NEW i \in 1..n, NEW j \in 1..n, list[i] = list[j], i # j PROVE FALSE
    <3>1. i < j \/ j < i
      BY <1>1, <2>1
    <3> QED
      BY <2>1, <3>1
  <2> QED
    BY <2>1 DEF Injection, IsInjective
<1>4. list \in Surjection(1..n, S)
  BY <1>2, <1>3, FS_Injection
<1> QED
  BY <1>4 DEF Surjection

-----------------------------------------------------------------------------
(* Logs *)

\* The pieces of a line follow each other, a line begins once, and of a search
\* that was made.
Lines ==
    /\ \A i \in 1..Len(recall) :
           /\ recall[i][1] \in 1..searches
           /\ recall[i][2] > 1 => i > 1 /\ recall[i - 1] = <<recall[i][1], recall[i][2] - 1>>
    /\ \A i, j \in 1..Len(recall) : recall[i] = recall[j] /\ recall[i][2] = 1 => i = j

\* Each search at work has a line of its own, and who appends holds the lock and
\* goes on where the log ends.
Appender(p) ==
    pc[p] \in {"searched", "append"} =>
        LET s == job[p].search  part == job[p].part IN
        /\ s \in 1..searches
        /\ \A q \in Proc \ {p} : pc[q] \in {"searched", "append"} => job[q].search # s
        /\ pc[p] = "searched" => part = 1
        /\ IF part = 1 THEN \A i \in 1..Len(recall) : recall[i][1] # s
           ELSE Len(recall) > 0 /\ recall[Len(recall)] = <<s, part - 1>>

Holds(p) == pc[p] \in {"append", "publish", "saved"} => holder = p

\* A search that was counted as appended has its whole line in the log.
Whole(s) == \E i \in 1..Len(recall) :
                /\ i + 2 <= Len(recall)
                /\ recall[i] = <<s, 1>> /\ recall[i + 1] = <<s, 2>> /\ recall[i + 2] = <<s, 3>>

\* Where a line breaks off, but for the one somebody is at.
Torn(log) == {i \in 1..Len(log) : log[i][2] < 3 /\ (i = Len(log) \/ log[i + 1][2] = 1)}
Busy == \E p \in Proc : pc[p] = "append" /\ job[p].part > 1
Abandoned == Torn(recall) \ (IF Busy THEN {Len(recall)} ELSE {})

\* What a command is about is what it was asked to write.
Writer(p) ==
    /\ pc[p] \in {"confirmed", "publish", "saved"} => job[p].text \in Texts /\ job[p].at \in 1..MaxTime
    /\ pc[p] = "saved" => L!Note(job[p].text, job[p].at) \in notes

\* What is said to be written is there.
OnFile ==
    \A t \in Texts, at \in 1..MaxTime :
        /\ L!Said("note", t, at) \in written => L!Note(t, at) \in notes
        /\ L!Said("judgment", t, at) \in written => judgments[t] = at
        /\ L!Said("attempt", t, at) \in written => L!Said("attempt", t, at) \in events
        /\ L!Said("question", t, at) \in written => L!Said("question", t, at) \in events

LogInv ==
    /\ Lines
    /\ \A p \in Proc : Appender(p) /\ Holds(p)
    /\ \A s \in logged : Whole(s)
    /\ Cardinality(Abandoned) <= kills
NoteInv == (\A p \in Proc : Writer(p)) /\ OnFile
LogsInv == L!TypeOK /\ LogInv /\ NoteInv

\* The invariant of Logs holds at first.
LEMMA LogsInit == ASSUME L!LogsAssumption PROVE L!Init => LogsInv
<1> SUFFICES ASSUME L!Init PROVE LogsInv
  OBVIOUS
<1>1. L!TypeOK
  BY DEF L!Init, L!TypeOK, L!LogsAssumption, L!Job, L!NoJob, L!Pc, L!Part
<1>2. NoteInv
  BY DEF L!Init, NoteInv, Writer, OnFile
<1>3. recall = <<>> /\ Len(recall) = 0 /\ kills = 0 /\ logged = {}
  BY DEF L!Init
<1>4. Torn(recall) = {}
  BY <1>3 DEF Torn
<1>5. Abandoned = {}
  BY <1>4 DEF Abandoned
<1>6. Cardinality(Abandoned) <= kills
  BY <1>3, <1>5, FS_EmptySet
<1>7. Lines /\ \A p \in Proc : Appender(p) /\ Holds(p)
  BY <1>3 DEF Lines, Appender, Holds, L!Init
<1> QED
  BY <1>1, <1>2, <1>3, <1>6, <1>7 DEF LogsInv, LogInv

\* Counting in Logs is counting here.
LEMMA LogsCount ==
    \A S : L!Cardinality(S) = Cardinality(S)
  BY DEF L!Cardinality, Cardinality

\* The job of a note, a judgment or an event.
LEMMA NoteJob ==
    ASSUME NEW t, NEW at
    PROVE  [L!NoJob EXCEPT !.text = t, !.at = at]
               = [search |-> 0, part |-> 1, text |-> t, at |-> at]
<1>1. PICK r : r = [L!NoJob EXCEPT !.text = t]
  OBVIOUS
<1>2. r = [search |-> 0, part |-> 1, text |-> t, at |-> 0]
  BY <1>1 DEF L!NoJob
<1>3. [r EXCEPT !.at = at] = [search |-> 0, part |-> 1, text |-> t, at |-> at]
  BY <1>2
<1> QED
  BY <1>1, <1>3

\* The job of a search.
LEMMA FindJob ==
    ASSUME NEW s
    PROVE  [L!NoJob EXCEPT !.search = s] = [search |-> s, part |-> 1, text |-> None, at |-> 0]
  BY DEF L!NoJob

\* The log and who is at it are left alone.
LEMMA LogStays ==
    ASSUME LogInv, L!TypeOK, UNCHANGED <<recall, logged, kills, searches, holder>>,
           \A p \in Proc : \/ pc'[p] = pc[p] /\ job'[p] = job[p]
                           \/ /\ pc[p] # "append" /\ pc'[p] \notin {"searched", "append"}
                              /\ pc'[p] \in {"publish", "saved"} => holder = p
    PROVE  LogInv'
<1>1. Lines'
  BY DEF LogInv, Lines
<1>2. \A p \in Proc : Appender(p)' /\ Holds(p)'
  BY DEF LogInv, Appender, Holds
<1>3. \A s \in logged : Whole(s)'
  BY DEF LogInv, Whole
<1>4. Busy' = Busy
  BY DEF Busy
<1>5. Abandoned' = Abandoned
  BY <1>4 DEF Abandoned, Torn
<1> QED
  BY <1>1, <1>2, <1>3, <1>5 DEF LogInv

\* The notes and who is at them are left alone.
LEMMA NotesStay ==
    ASSUME NoteInv, UNCHANGED <<notes, judgments, events, written>>,
           \A p \in Proc : \/ pc'[p] = pc[p] /\ job'[p] = job[p]
                           \/ pc'[p] \notin {"confirmed", "publish", "saved"}
    PROVE  NoteInv'
  BY DEF NoteInv, Writer, OnFile

\* A search that begins has no line yet.
LEMMA FindKeeps ==
    ASSUME L!LogsAssumption, LogsInv, NEW p \in Proc, L!Find(p)
    PROVE  LogsInv'
<1>1. /\ searches' = searches + 1 /\ searches' \in 1..MaxSearches /\ pc[p] = "idle"
      /\ pc' = [pc EXCEPT ![p] = "searched"]
      /\ job' = [job EXCEPT ![p] = [search |-> searches + 1, part |-> 1, text |-> None, at |-> 0]]
      /\ UNCHANGED <<recall, notes, left, judgments, events, written, logged, kills, writes, now, holder>>
  <2>1. searches < MaxSearches /\ searches \in 0..MaxSearches /\ MaxSearches \in Nat
    BY DEF L!Find, LogsInv, L!TypeOK, L!LogsAssumption
  <2>2. job' = [job EXCEPT ![p] = [L!NoJob EXCEPT !.search = searches + 1]]
    BY DEF L!Find, L!Set
  <2>3. job' = [job EXCEPT ![p] = [search |-> searches + 1, part |-> 1, text |-> None, at |-> 0]]
    BY <2>2, FindJob
  <2>4. searches' = searches + 1 /\ searches + 1 \in 1..MaxSearches
    BY <2>1 DEF L!Find
  <2> QED
    BY <2>3, <2>4 DEF L!Find, L!Goto, L!files, L!ghosts
<1>2. L!TypeOK /\ LogInv /\ NoteInv
  BY DEF LogsInv
<1>3. L!TypeOK'
  <2>1. [search |-> searches + 1, part |-> 1, text |-> None, at |-> 0] \in L!Job
    <3>1. searches + 1 \in 0..MaxSearches
      BY <1>1, <1>2 DEF L!TypeOK, L!LogsAssumption
    <3>2. 0 \in 0..MaxTime
      BY DEF L!LogsAssumption
    <3> QED
      BY <3>1, <3>2 DEF L!Job, L!Part
  <2>2. job' \in [Proc -> L!Job] /\ pc' \in [Proc -> L!Pc]
    BY <1>1, <1>2, <2>1 DEF L!TypeOK, L!Pc
  <2>3. searches' \in 0..MaxSearches
    BY <1>1
  <2> QED
    BY <1>1, <1>2, <2>2, <2>3 DEF L!TypeOK
<1>4. NoteInv'
  BY <1>1, <1>2, NotesStay DEF L!TypeOK
<1>5. Lines'
  <2>1. searches \in Nat /\ 1..searches \subseteq 1..searches'
    BY <1>1, <1>2 DEF L!TypeOK, L!LogsAssumption
  <2> HIDE <1>1
  <2>2. UNCHANGED recall
    BY <1>1
  <2> QED
    BY <1>2, <2>1, <2>2 DEF LogInv, Lines
<1>6. Appender(p)' /\ Holds(p)'
  BY <1>1, <1>2 DEF LogInv, Lines, Appender, Holds, L!TypeOK
<1>7. \A q \in Proc \ {p} : Appender(q)' /\ Holds(q)'
  BY <1>1, <1>2 DEF LogInv, Appender, Holds, L!TypeOK
<1>8. (\A s \in logged : Whole(s)') /\ Busy' = Busy
  BY <1>1, <1>2 DEF LogInv, Whole, Busy, L!TypeOK
<1>9. Abandoned' = Abandoned
  BY <1>1, <1>8 DEF Abandoned, Torn
<1> QED
  BY <1>1, <1>2, <1>3, <1>4, <1>5, <1>6, <1>7, <1>8, <1>9 DEF LogInv, LogsInv

\* Who comes to append takes the lock, and finds nobody at a line.
LEMMA EnterAppendKeeps ==
    ASSUME L!LogsAssumption, LogsInv, NEW p \in Proc, L!EnterAppend(p)
    PROVE  LogsInv'
<1>1. /\ pc[p] = "searched" /\ holder = None /\ holder' = p
      /\ pc' = [pc EXCEPT ![p] = "append"]
      /\ UNCHANGED <<recall, notes, left, judgments, events, written, logged, kills,
                     searches, writes, now, job>>
  BY DEF L!EnterAppend, L!Goto, L!files, L!ghosts, L!bounds
<1>2. L!TypeOK /\ LogInv /\ NoteInv
  BY DEF LogsInv
<1>3. L!TypeOK'
  BY <1>1, <1>2 DEF L!TypeOK, L!Pc
<1>4. NoteInv'
  BY <1>1, <1>2, NotesStay DEF L!TypeOK
<1>5. Lines' /\ \A s \in logged : Whole(s)'
  BY <1>1, <1>2 DEF LogInv, Lines, Whole
<1>6. \A q \in Proc : Appender(q)' /\ Holds(q)'
  BY <1>1, <1>2 DEF LogInv, Appender, Holds, L!TypeOK, L!LogsAssumption
<1>7. Busy' = Busy
  BY <1>1, <1>2 DEF LogInv, Appender, Holds, Busy, L!TypeOK
<1>8. Abandoned' = Abandoned
  BY <1>1, <1>7 DEF Abandoned, Torn
<1> QED
  BY <1>1, <1>2, <1>3, <1>4, <1>5, <1>6, <1>8 DEF LogInv, LogsInv

\* A piece that is appended follows the one before it; the last makes a whole line.
LEMMA AppendPartKeeps ==
    ASSUME L!LogsAssumption, LogsInv, NEW p \in Proc, L!AppendPart(p)
    PROVE  LogsInv'
<1>1. /\ pc[p] = "append" /\ recall' = Append(recall, <<job[p].search, job[p].part>>)
      /\ UNCHANGED <<notes, left, judgments, events, written, kills, searches, writes, now>>
  BY DEF L!AppendPart, L!bounds
<1>2. L!TypeOK /\ LogInv /\ NoteInv /\ Appender(p) /\ Holds(p) /\ Lines
  BY DEF LogsInv, LogInv
<1>3. /\ job[p].search \in 1..searches /\ job[p].search \in 1..MaxSearches
      /\ job[p].part \in 1..3 /\ job[p] \in L!Job
      /\ holder = p /\ Len(recall) \in Nat /\ searches \in 0..MaxSearches
  BY <1>1, <1>2, LenProperties DEF L!TypeOK, Appender, Holds, L!Job, L!Part, L!LogsAssumption
<1>4. PICK s \in 1..MaxSearches, part \in 1..3, n \in Nat, high \in Nat :
          s = job[p].search /\ part = job[p].part /\ n = Len(recall) /\ high = searches
  BY <1>3 DEF L!LogsAssumption
<1>5. /\ UNCHANGED <<notes, left, judgments, events, written, kills, searches, writes, now>>
      /\ pc[p] = "append" /\ searches = high /\ s \in 1..high /\ holder = p
      /\ Len(recall) = n /\ job[p] \in L!Job /\ job[p].search = s /\ job[p].part = part
      /\ pc \in [Proc -> L!Pc] /\ job \in [Proc -> L!Job]
  BY <1>1, <1>2, <1>3, <1>4 DEF L!TypeOK
<1>6. \/ /\ part < 3 /\ job' = [job EXCEPT ![p] = [job[p] EXCEPT !.part = part + 1]]
         /\ logged' = logged /\ holder' = holder /\ pc' = pc
      \/ /\ part = 3 /\ logged' = logged \cup {s} /\ holder' = None
         /\ pc' = [pc EXCEPT ![p] = "idle"] /\ job' = [job EXCEPT ![p] = L!NoJob]
  BY <1>4 DEF L!AppendPart, L!Set, L!Quit, L!Goto
<1>7. /\ Len(recall') = n + 1 /\ recall' \in Seq((1..MaxSearches) \X L!Part)
      /\ \A i \in 1..n : recall'[i] = recall[i]
      /\ recall'[n + 1] = <<s, part>>
  <2>1. recall \in Seq((1..MaxSearches) \X L!Part) /\ <<s, part>> \in (1..MaxSearches) \X L!Part
    BY <1>2 DEF L!TypeOK, L!Part
  <2> QED
    BY <1>1, <1>4, <2>1, AppendProperties
<1>8. /\ part = 1 => \A i \in 1..n : recall[i][1] # s
      /\ part > 1 => n > 0 /\ recall[n] = <<s, part - 1>>
  BY <1>2, <1>5 DEF Appender
<1>9. part < 3 => /\ [job[p] EXCEPT !.part = part + 1] \in L!Job
                  /\ [job[p] EXCEPT !.part = part + 1].search = s
                  /\ [job[p] EXCEPT !.part = part + 1].part = part + 1
  <2> SUFFICES ASSUME part < 3
               PROVE  LET j == [job[p] EXCEPT !.part = part + 1]
                      IN  j \in L!Job /\ j.search = s /\ j.part = part + 1
    OBVIOUS
  <2>1. PICK j : j = job[p]
    OBVIOUS
  <2>2. part + 1 \in L!Part
    BY DEF L!Part
  <2>3. j \in L!Job /\ j.search = s
    BY <1>5, <2>1
  <2>4. [j EXCEPT !.part = part + 1] \in L!Job /\ [j EXCEPT !.part = part + 1].search = s
        /\ [j EXCEPT !.part = part + 1].part = part + 1
    BY <2>2, <2>3 DEF L!Job
  <2> QED
    BY <2>1, <2>4
<1>10. /\ \A q \in Proc \ {p} : pc'[q] = pc[q] /\ job'[q] = job[q]
       /\ part < 3 => pc'[p] = "append" /\ job'[p].search = s /\ job'[p].part = part + 1
       /\ part = 3 => pc'[p] = "idle"
  <2>1. CASE part < 3
    <3>1. PICK j : j = [job[p] EXCEPT !.part = part + 1]
      OBVIOUS
    <3>2. j.search = s /\ j.part = part + 1 /\ job' = [job EXCEPT ![p] = j] /\ pc' = pc
      BY <1>6, <1>9, <2>1, <3>1
    <3> QED
      BY <1>5, <2>1, <3>2
  <2>2. CASE part = 3
    BY <1>5, <1>6, <2>2
  <2> QED
    BY <2>1, <2>2
<1>11. L!TypeOK'
  <2>1. L!NoJob \in L!Job
    BY DEF L!Job, L!NoJob, L!Part, L!LogsAssumption
  <2>2. job' \in [Proc -> L!Job] /\ pc' \in [Proc -> L!Pc]
    BY <1>5, <1>6, <1>9, <2>1 DEF L!Pc
  <2>3. holder' \in Proc \cup {None} /\ logged' \in SUBSET (1..MaxSearches)
    BY <1>2, <1>6 DEF L!TypeOK
  <2> QED
    BY <1>2, <1>5, <1>7, <2>2, <2>3 DEF L!TypeOK
<1>12. NoteInv'
  <2>1. \A q \in Proc : \/ pc'[q] = pc[q] /\ job'[q] = job[q]
                        \/ pc'[q] \notin {"confirmed", "publish", "saved"}
    BY <1>10
  <2> QED
    BY <1>2, <1>5, <2>1, NotesStay
<1>13. \A i \in 1..(n + 1) : i \in 1..n \/ i = n + 1
  OBVIOUS
<1>14. Lines'
  <2>1. ASSUME NEW i \in 1..(n + 1)
        PROVE  /\ recall'[i][1] \in 1..high
               /\ recall'[i][2] > 1 => i > 1 /\ recall'[i - 1] = <<recall'[i][1], recall'[i][2] - 1>>
    <3>1. CASE i = n + 1
      <4>1. recall'[i][1] = s /\ recall'[i][2] = part
        BY <1>7, <3>1
      <4>2. part > 1 => i > 1 /\ i - 1 = n /\ n \in 1..n
        BY <1>8, <3>1
      <4>3. part > 1 => recall'[i - 1] = recall[n]
        BY <1>7, <4>2
      <4> QED
        BY <1>5, <1>8, <4>1, <4>2, <4>3
    <3>2. CASE i \in 1..n
      <4>1. recall'[i] = recall[i] /\ (i > 1 => i - 1 \in 1..n)
        BY <1>7, <3>2
      <4>2. i > 1 => recall'[i - 1] = recall[i - 1]
        BY <1>7, <4>1
      <4>3. /\ recall[i][1] \in 1..high
            /\ recall[i][2] > 1 => i > 1 /\ recall[i - 1] = <<recall[i][1], recall[i][2] - 1>>
        BY <1>2, <1>5, <3>2 DEF Lines
      <4> QED
        BY <4>1, <4>2, <4>3
    <3> QED
      BY <1>13, <3>1, <3>2
  <2>2. ASSUME NEW i \in 1..(n + 1), NEW j \in 1..(n + 1), recall'[i] = recall'[j], recall'[i][2] = 1
        PROVE  i = j
    <3>1. CASE i \in 1..n /\ j \in 1..n
      <4>1. recall[i] = recall[j] /\ recall[i][2] = 1
        BY <1>7, <2>2, <3>1
      <4> QED
        BY <1>2, <1>5, <3>1, <4>1 DEF Lines
    <3>2. ASSUME NEW k \in 1..n, recall'[k] = recall'[n + 1], recall'[k][2] = 1 PROVE FALSE
      <4>1. recall[k] = <<s, part>> /\ part = 1
        BY <1>7, <3>2
      <4> QED
        BY <1>8, <4>1
    <3> QED
      BY <1>13, <2>2, <3>1, <3>2
  <2>3. Len(recall') = n + 1 /\ searches' = high
    BY <1>5, <1>7
  <2> QED
    BY <2>1, <2>2, <2>3 DEF Lines
<1>15. \A q \in Proc \ {p} : /\ pc[q] # "append" /\ pc[q] \notin {"publish", "saved"}
                             /\ pc[q] = "searched" => job[q].search # s
  BY <1>2, <1>5 DEF LogInv, Appender, Holds
<1>16. \A q \in Proc : Holds(q)'
  BY <1>5, <1>6, <1>10, <1>15 DEF Holds
<1>17. ASSUME NEW q \in Proc PROVE Appender(q)'
  <2>1. CASE q = p /\ part < 3
    <3>1. part + 1 # 1 /\ (part + 1) - 1 = part /\ n + 1 > 0
      OBVIOUS
    <3>2. /\ pc'[q] = "append" /\ job'[q].search = s /\ job'[q].part = part + 1
          /\ Len(recall') = n + 1 /\ recall'[Len(recall')] = <<s, part>> /\ searches' = high
      BY <1>5, <1>7, <1>10, <2>1
    <3>3. \A x \in Proc \ {q} : pc'[x] \in {"searched", "append"} => job'[x].search # s
      BY <1>10, <1>15, <2>1
    <3> QED
      BY <1>5, <3>1, <3>2, <3>3 DEF Appender
  <2>2. CASE q = p /\ ~(part < 3)
    BY <1>10, <2>2 DEF Appender
  <2>3. CASE q # p /\ pc[q] = "searched"
    <3>1. pc'[q] = "searched" /\ job'[q] = job[q] /\ job[q].search # s
      BY <1>10, <1>15, <2>3
    <3>2. /\ job[q].part = 1 /\ job[q].search \in 1..high
          /\ \A i \in 1..n : recall[i][1] # job[q].search
          /\ \A x \in Proc \ {q} : pc[x] \in {"searched", "append"} => job[x].search # job[q].search
      BY <1>2, <1>5, <2>3 DEF LogInv, Appender
    <3>3. \A i \in 1..(n + 1) : recall'[i][1] # job[q].search
      BY <1>7, <1>13, <3>1, <3>2
    <3>4. \A x \in Proc \ {q} : pc'[x] \in {"searched", "append"} =>
                                    job'[x].search # job[q].search
      BY <1>5, <1>10, <3>1, <3>2
    <3>5. Len(recall') = n + 1 /\ searches' = high
      BY <1>5, <1>7
    <3> QED
      BY <3>1, <3>2, <3>3, <3>4, <3>5 DEF Appender
  <2>4. CASE q # p /\ pc[q] # "searched"
    BY <1>10, <1>15, <2>4 DEF Appender
  <2> QED
    BY <2>1, <2>2, <2>3, <2>4
<1>18. \A x \in logged' : Whole(x)'
  <2>1. ASSUME NEW x \in logged PROVE Whole(x)'
    <3>1. PICK i \in 1..n : /\ i + 2 <= n /\ recall[i] = <<x, 1>>
                            /\ recall[i + 1] = <<x, 2>> /\ recall[i + 2] = <<x, 3>>
      BY <1>2, <1>5 DEF LogInv, Whole
    <3>2. /\ i \in 1..(n + 1) /\ i + 2 <= n + 1 /\ i + 1 \in 1..n /\ i + 2 \in 1..n
      BY <3>1
    <3>3. recall'[i] = <<x, 1>> /\ recall'[i + 1] = <<x, 2>> /\ recall'[i + 2] = <<x, 3>>
      BY <1>7, <3>1, <3>2
    <3> QED
      BY <1>7, <3>2, <3>3 DEF Whole
  <2>2. CASE part = 3
    <3>1. n > 0 /\ recall[n] = <<s, 2>> /\ n \in 1..n
      BY <1>8, <2>2
    <3>2. recall[n][1] = s /\ recall[n][2] = 2
      BY <3>1
    <3>3. n > 1 /\ recall[n - 1] = <<s, 1>>
      BY <1>2, <1>5, <3>1, <3>2 DEF Lines
    <3>4. PICK i \in 1..n : i = n - 1
      BY <3>3
    <3>5. i + 1 = n /\ i + 2 = n + 1 /\ i \in 1..(n + 1) /\ i + 2 <= n + 1
      BY <3>4
    <3>6. recall'[i] = <<s, 1>> /\ recall'[i + 1] = <<s, 2>> /\ recall'[i + 2] = <<s, 3>>
      BY <1>7, <2>2, <3>1, <3>3, <3>4, <3>5
    <3>7. Whole(s)'
      BY <1>7, <3>5, <3>6 DEF Whole
    <3>8. logged' = logged \cup {s}
      BY <1>6, <2>2
    <3> QED
      BY <2>1, <3>7, <3>8
  <2>3. CASE part # 3
    BY <1>6, <2>1, <2>3
  <2> QED
    BY <2>2, <2>3
<1>19. Busy <=> part > 1
  BY <1>5, <1>15 DEF Busy
<1>20. Busy' <=> part < 3
  <2>1. \A q \in Proc \ {p} : pc'[q] # "append"
    BY <1>10, <1>15
  <2>2. CASE part < 3
    BY <1>10, <2>2 DEF Busy
  <2>3. CASE part = 3
    BY <1>10, <2>1, <2>3 DEF Busy
  <2> QED
    BY <2>2, <2>3
<1>21. Abandoned' = Abandoned
  <2>1. ASSUME NEW i \in 1..(n + 1), i < n PROVE i \in Abandoned' <=> i \in Abandoned
    <3>1. i \in 1..n /\ i + 1 \in 1..n /\ i # n /\ i # n + 1 /\ i \in 1..(n + 1)
      BY <2>1
    <3>2. recall'[i] = recall[i] /\ recall'[i + 1] = recall[i + 1]
      BY <1>7, <3>1
    <3>3. i \in Torn(recall)' <=> i \in Torn(recall)
      BY <1>5, <1>7, <3>1, <3>2 DEF Torn
    <3> QED
      BY <1>5, <1>7, <3>1, <3>3 DEF Abandoned
  <2>2. ASSUME n \in 1..(n + 1) PROVE n \in Abandoned' <=> n \in Abandoned
    <3>1. n \in 1..n /\ n # n + 1
      BY <2>2
    <3>2. recall'[n] = recall[n] /\ recall'[n + 1][2] = part
      BY <1>7, <3>1
    <3>3. n \in Torn(recall) <=> recall[n][2] < 3
      BY <1>5, <3>1 DEF Torn
    <3>4. n \in Torn(recall)' <=> recall[n][2] < 3 /\ part = 1
      BY <1>7, <2>2, <3>1, <3>2 DEF Torn
    <3> QED
      BY <1>5, <1>7, <1>19, <1>20, <3>1, <3>3, <3>4 DEF Abandoned
  <2>3. n + 1 \notin Abandoned'
    <3>1. recall'[n + 1][2] = part
      BY <1>7
    <3> QED
      BY <1>7, <1>20, <3>1 DEF Abandoned, Torn
  <2>4. Abandoned \subseteq 1..(n + 1) /\ Abandoned' \subseteq 1..(n + 1)
    BY <1>5, <1>7 DEF Abandoned, Torn
  <2>5. n + 1 \notin Abandoned
    BY <1>5 DEF Abandoned, Torn
  <2>6. \A i \in 1..(n + 1) : i < n \/ i = n \/ i = n + 1
    OBVIOUS
  <2>7. \A i \in 1..(n + 1) : i \in Abandoned' <=> i \in Abandoned
    BY <2>1, <2>2, <2>3, <2>5, <2>6
  <2> QED
    BY <2>4, <2>7
<1> QED
  BY <1>2, <1>5, <1>11, <1>12, <1>14, <1>16, <1>17, <1>18, <1>21 DEF LogInv, LogsInv

\* What is torn is finite.
LEMMA TornIsFinite == ASSUME L!TypeOK PROVE IsFiniteSet(Torn(recall))
<1>1. Len(recall) \in Nat
  BY LenProperties DEF L!TypeOK
<1>2. IsFiniteSet(1..Len(recall))
  BY <1>1, FS_Interval
<1> QED
  BY <1>2, FS_Subset DEF Torn

\* A process that is killed at a line leaves it torn, and is counted.
LEMMA KilledKeeps ==
    ASSUME L!LogsAssumption, LogsInv, NEW p \in Proc, L!Killed(p)
    PROVE  LogsInv'
<1>1. /\ pc[p] \in {"append", "publish", "saved"} /\ kills < MaxKills
      /\ kills' = IF pc[p] = "append" THEN kills + 1 ELSE kills
      /\ left' \in SUBSET (left \cup {p})
      /\ holder' = (IF holder = p THEN None ELSE holder)
      /\ pc' = [pc EXCEPT ![p] = "idle"] /\ job' = [job EXCEPT ![p] = L!NoJob]
      /\ UNCHANGED <<recall, notes, judgments, events, written, logged, searches, writes, now>>
  BY DEF L!Killed, L!Quit, L!Goto, L!Set, L!bounds
<1>2. L!TypeOK /\ LogInv /\ NoteInv
  BY DEF LogsInv
<1>3. L!TypeOK'
  <2>1. kills' \in 0..MaxKills
    BY <1>1, <1>2 DEF L!TypeOK, L!LogsAssumption
  <2>2. L!NoJob \in L!Job
    BY DEF L!Job, L!NoJob, L!Part, L!LogsAssumption
  <2>3. job' \in [Proc -> L!Job] /\ pc' \in [Proc -> L!Pc]
    BY <1>1, <1>2, <2>2 DEF L!TypeOK, L!Pc
  <2> QED
    BY <1>1, <1>2, <2>1, <2>3 DEF L!TypeOK
<1>4. NoteInv'
  BY <1>1, <1>2, NotesStay DEF L!TypeOK
<1>5. Lines' /\ \A s \in logged : Whole(s)'
  BY <1>1, <1>2 DEF LogInv, Lines, Whole
<1>6. \A q \in Proc : Appender(q)' /\ Holds(q)'
  BY <1>1, <1>2 DEF LogInv, Appender, Holds, L!TypeOK
<1>7. Cardinality(Abandoned') <= kills'
  <2>1. IsFiniteSet(Torn(recall)) /\ kills \in Nat
    BY <1>2, TornIsFinite DEF L!TypeOK, L!LogsAssumption
  <2>2. IsFiniteSet(Abandoned)
    BY <2>1, FS_Subset DEF Abandoned
  <2>3. CASE pc[p] = "append"
    <3>1. Abandoned' \subseteq Abandoned \cup {Len(recall)}
      BY <1>1 DEF Abandoned, Torn
    <3>2. /\ IsFiniteSet(Abandoned \cup {Len(recall)})
          /\ Cardinality(Abandoned \cup {Len(recall)}) <= Cardinality(Abandoned) + 1
          /\ Cardinality(Abandoned) \in Nat
      BY <2>2, FS_AddElement, FS_CardinalityType
    <3>3. Cardinality(Abandoned') <= Cardinality(Abandoned \cup {Len(recall)})
          /\ Cardinality(Abandoned') \in Nat /\ Cardinality(Abandoned \cup {Len(recall)}) \in Nat
      BY <3>1, <3>2, FS_Subset, FS_CardinalityType
    <3> QED
      BY <1>1, <1>2, <2>1, <2>3, <3>2, <3>3 DEF LogInv
  <2>4. CASE pc[p] # "append"
    <3>1. Busy' = Busy
      BY <1>1, <1>2, <2>4 DEF Busy, L!TypeOK
    <3>2. Abandoned' = Abandoned
      BY <1>1, <3>1 DEF Abandoned, Torn
    <3> QED
      BY <1>1, <1>2, <2>4, <3>2 DEF LogInv
  <2> QED
    BY <2>3, <2>4
<1> QED
  BY <1>1, <1>3, <1>4, <1>5, <1>6, <1>7 DEF LogInv, LogsInv

\* The steps of notes, judgments and events.
LEMMA NoteStepKeeps ==
    ASSUME L!LogsAssumption, LogsInv, NEW p \in Proc,
           L!Uncounted(p) \/ L!Remember(p) \/ L!EnterPublish(p) \/ L!Publish(p) \/ L!Saved(p)
    PROVE  LogsInv'
<1>1. L!TypeOK /\ LogInv /\ NoteInv
  BY DEF LogsInv
<1>2. L!NoJob \in L!Job
  BY DEF L!Job, L!NoJob, L!Part, L!LogsAssumption
<1>3. CASE L!Uncounted(p)
  <2>1. /\ pc[p] = "searched" /\ pc' = [pc EXCEPT ![p] = "idle"]
        /\ job' = [job EXCEPT ![p] = L!NoJob]
        /\ UNCHANGED <<recall, notes, left, judgments, events, written, logged, kills,
                       searches, writes, now, holder>>
    BY <1>3 DEF L!Uncounted, L!Quit, L!Goto, L!Set, L!files, L!ghosts, L!bounds
  <2>2. L!TypeOK'
    BY <1>1, <1>2, <2>1 DEF L!TypeOK, L!Pc
  <2>3. LogInv' /\ NoteInv'
    BY <1>1, <2>1, LogStays, NotesStay DEF L!TypeOK
  <2> QED
    BY <2>2, <2>3 DEF LogsInv
<1>4. CASE L!Remember(p)
  <2>1. PICK t \in Texts : job' = [job EXCEPT ![p] = [L!NoJob EXCEPT !.text = t, !.at = now]]
    BY <1>4 DEF L!Remember, L!Set
  <2>2. /\ pc[p] = "idle" /\ pc' = [pc EXCEPT ![p] = "confirmed"]
        /\ job' = [job EXCEPT ![p] = [search |-> 0, part |-> 1, text |-> t, at |-> now]]
        /\ writes' = writes + 1 /\ writes < MaxWrites
        /\ UNCHANGED <<recall, notes, left, judgments, events, written, logged, kills,
                       searches, now, holder>>
    BY <1>4, <2>1, NoteJob DEF L!Remember, L!Goto, L!Write, L!files, L!ghosts
  <2>3. L!TypeOK'
    <3>1. [search |-> 0, part |-> 1, text |-> t, at |-> now] \in L!Job
      BY <1>1 DEF L!TypeOK, L!Job, L!Part, L!LogsAssumption
    <3>2. job' \in [Proc -> L!Job] /\ pc' \in [Proc -> L!Pc]
      BY <1>1, <2>2, <3>1 DEF L!TypeOK, L!Pc
    <3>3. writes' \in 0..MaxWrites
      BY <1>1, <2>2 DEF L!TypeOK, L!LogsAssumption
    <3> QED
      BY <1>1, <2>2, <3>2, <3>3 DEF L!TypeOK
  <2>4. LogInv'
    BY <1>1, <2>2, LogStays DEF L!TypeOK
  <2>5. NoteInv'
    BY <1>1, <2>2 DEF L!TypeOK, NoteInv, Writer, OnFile
  <2> QED
    BY <2>3, <2>4, <2>5 DEF LogsInv
<1>5. CASE L!EnterPublish(p)
  <2>1. /\ pc[p] = "confirmed"
        /\ \/ holder = None /\ holder' = p /\ pc' = [pc EXCEPT ![p] = "publish"] /\ UNCHANGED job
           \/ /\ holder' = holder /\ pc' = [pc EXCEPT ![p] = "idle"]
              /\ job' = [job EXCEPT ![p] = L!NoJob]
        /\ UNCHANGED <<recall, notes, left, judgments, events, written, logged, kills,
                       searches, writes, now>>
    BY <1>5 DEF L!EnterPublish, L!Quit, L!Goto, L!Set, L!files, L!ghosts, L!bounds
  <2>2. L!TypeOK'
    BY <1>1, <1>2, <2>1 DEF L!TypeOK, L!Pc
  <2>3. NoteInv'
    BY <1>1, <2>1 DEF L!TypeOK, NoteInv, Writer, OnFile
  <2>4. Lines' /\ (\A s \in logged : Whole(s)')
    BY <1>1, <2>1 DEF LogInv, Lines, Whole
  <2>a. \A q \in Proc \ {p} : pc'[q] = pc[q] /\ job'[q] = job[q]
    BY <1>1, <2>1 DEF L!TypeOK
  <2>b. pc'[p] \in {"publish", "idle"}
    BY <1>1, <2>1 DEF L!TypeOK
  <2>c. Busy' = Busy
    BY <2>1, <2>a, <2>b DEF Busy
  <2>d. /\ pc'[p] = "publish" => holder' = p
        /\ \A q \in Proc \ {p} : pc[q] \in {"append", "publish", "saved"} => holder' = q
    BY <1>1, <2>1 DEF LogInv, Holds, L!TypeOK, L!LogsAssumption
  <2>5. \A q \in Proc : Appender(q)' /\ Holds(q)'
    <3>1. \A q \in Proc : Holds(q)'
      BY <2>a, <2>b, <2>d DEF Holds
    <3>2. \A q \in Proc : Appender(q)'
      BY <1>1, <2>1, <2>a, <2>b DEF LogInv, Appender
    <3> QED
      BY <3>1, <3>2
  <2>6. Abandoned' = Abandoned
    BY <2>1, <2>c DEF Abandoned, Torn
  <2> QED
    BY <1>1, <2>1, <2>2, <2>3, <2>4, <2>5, <2>6 DEF LogsInv, LogInv
<1>6. CASE L!Publish(p)
  <2>1. /\ pc[p] = "publish" /\ pc' = [pc EXCEPT ![p] = "saved"]
        /\ notes' = notes \cup {L!Note(job[p].text, job[p].at)}
        /\ UNCHANGED <<recall, left, judgments, events, written, logged, kills,
                       searches, writes, now, holder, job>>
    BY <1>6 DEF L!Publish, L!Goto, L!ghosts, L!bounds
  <2>2. job[p].text \in Texts /\ job[p].at \in 1..MaxTime
    BY <1>1, <2>1 DEF NoteInv, Writer
  <2>3. L!TypeOK'
    BY <1>1, <2>1, <2>2 DEF L!TypeOK, L!Pc, L!Note
  <2>a. \A q \in Proc \ {p} : pc'[q] = pc[q] /\ job'[q] = job[q]
    BY <1>1, <2>1 DEF L!TypeOK
  <2>b. pc'[p] = "saved" /\ holder = p
    BY <1>1, <2>1 DEF L!TypeOK, LogInv, Holds
  <2>4. LogInv'
    BY <1>1, <2>1, <2>a, <2>b, LogStays
  <2>5. NoteInv'
    BY <1>1, <2>1 DEF L!TypeOK, NoteInv, Writer, OnFile
  <2> QED
    BY <2>3, <2>4, <2>5 DEF LogsInv
<1>7. CASE L!Saved(p)
  <2>1. /\ pc[p] = "saved" /\ pc' = [pc EXCEPT ![p] = "idle"]
        /\ job' = [job EXCEPT ![p] = L!NoJob] /\ holder' = None
        /\ written' = written \cup {L!Said("note", job[p].text, job[p].at)}
        /\ UNCHANGED <<recall, notes, left, judgments, events, logged, kills,
                       searches, writes, now>>
    BY <1>7 DEF L!Saved, L!Quit, L!Goto, L!Set, L!files, L!bounds
  <2>2. /\ job[p].text \in Texts /\ job[p].at \in 1..MaxTime
        /\ L!Note(job[p].text, job[p].at) \in notes
    BY <1>1, <2>1 DEF NoteInv, Writer
  <2>3. L!TypeOK'
    <3>1. L!Said("note", job[p].text, job[p].at) \in L!Item
      BY <2>2 DEF L!Item, L!Said
    <3>2. job' \in [Proc -> L!Job] /\ pc' \in [Proc -> L!Pc]
      BY <1>1, <1>2, <2>1 DEF L!TypeOK, L!Pc
    <3> QED
      BY <1>1, <2>1, <3>1, <3>2 DEF L!TypeOK
  <2>4. NoteInv'
    <3>1. OnFile'
      <4>1. \A t \in Texts, at \in 1..MaxTime :
                L!Said("note", t, at) = L!Said("note", job[p].text, job[p].at)
                    => t = job[p].text /\ at = job[p].at
        BY DEF L!Said
      <4>2. \A w \in {"judgment", "attempt", "question"}, t \in Texts, at \in 1..MaxTime :
                L!Said(w, t, at) # L!Said("note", job[p].text, job[p].at)
        BY DEF L!Said
      <4> QED
        BY <1>1, <2>1, <2>2, <4>1, <4>2 DEF NoteInv, OnFile
    <3>2. \A q \in Proc : Writer(q)'
      BY <1>1, <2>1 DEF NoteInv, Writer, L!TypeOK
    <3> QED
      BY <3>1, <3>2 DEF NoteInv
  <2>5. Lines' /\ (\A s \in logged : Whole(s)') /\ Busy' = Busy
    BY <1>1, <2>1 DEF LogInv, Lines, Whole, Busy, L!TypeOK
  <2>6. \A q \in Proc : pc[q] # "append"
    BY <1>1, <2>1, <1>7 DEF LogInv, Holds, L!Saved
  <2>7. \A q \in Proc : Appender(q)' /\ Holds(q)'
    BY <1>1, <2>1, <2>6 DEF LogInv, Appender, Holds, L!TypeOK
  <2>8. Abandoned' = Abandoned
    BY <2>1, <2>5 DEF Abandoned, Torn
  <2> QED
    BY <1>1, <2>1, <2>3, <2>4, <2>5, <2>7, <2>8 DEF LogsInv, LogInv
<1> QED
  BY <1>3, <1>4, <1>5, <1>6, <1>7

\* Attempts, questions and judgments only add, or replace what is older.
LEMMA EventStepKeeps ==
    ASSUME L!LogsAssumption, LogsInv,
           \/ \E t \in Texts : L!Judge(t) \/ L!AddAttempt(t) \/ L!AddQuestion(t)
           \/ L!Tick \/ L!Tidy
    PROVE  LogsInv'
<1>1. L!TypeOK /\ LogInv /\ NoteInv
  BY DEF LogsInv
<1>2. UNCHANGED <<recall, notes, logged, kills, searches, holder, pc, job>>
  BY DEF L!Judge, L!AddAttempt, L!AddQuestion, L!AddEvent, L!Tick, L!Tidy, L!files, L!ghosts,
         L!bounds
<1>3. LogInv'
  BY <1>1, <1>2, LogStays
<1>4. \A p \in Proc : Writer(p)'
  BY <1>1, <1>2 DEF NoteInv, Writer
<1>5. \A v, w, t, u, x, y : L!Said(v, t, x) = L!Said(w, u, y) => v = w /\ t = u /\ x = y
  <2> SUFFICES ASSUME NEW v, NEW w, NEW t, NEW u, NEW x, NEW y, L!Said(v, t, x) = L!Said(w, u, y)
               PROVE  v = w /\ t = u /\ x = y
    OBVIOUS
  <2>1. L!Said(v, t, x).what = v /\ L!Said(v, t, x).text = t /\ L!Said(v, t, x).at = x
    BY DEF L!Said
  <2>2. L!Said(w, u, y).what = w /\ L!Said(w, u, y).text = u /\ L!Said(w, u, y).at = y
    BY DEF L!Said
  <2> QED
    BY <2>1, <2>2
<1>6. L!Write => writes' \in 0..MaxWrites
  BY <1>1 DEF L!Write, L!TypeOK, L!LogsAssumption
<1>7. now \in 1..MaxTime /\ MaxTime \in Nat
  BY <1>1 DEF L!TypeOK, L!LogsAssumption
<1>8. ASSUME NEW t \in Texts, L!Judge(t) PROVE L!TypeOK' /\ OnFile'
  <2>1. UNCHANGED <<left, events, now>> /\ L!Write
    BY <1>8 DEF L!Judge
  <2>2. \/ /\ judgments[t] = 0 /\ judgments' = [judgments EXCEPT ![t] = now]
           /\ written' = written \cup {L!Said("judgment", t, now)}
        \/ UNCHANGED <<judgments, written>>
    BY <1>8 DEF L!Judge
  <2>3. L!Said("judgment", t, now) \in L!Item
    BY <1>7 DEF L!Said, L!Item
  <2>4. judgments' \in [Texts -> 0..MaxTime] /\ written' \in SUBSET L!Item
    BY <1>1, <1>7, <2>2, <2>3 DEF L!TypeOK
  <2>5. L!TypeOK'
    BY <1>1, <1>2, <1>6, <2>1, <2>4 DEF L!TypeOK
  <2>6. CASE UNCHANGED <<judgments, written>>
    <3>1. UNCHANGED <<notes, judgments, events, written>>
      BY <1>2, <2>1, <2>6
    <3>2. OnFile
      BY <1>1 DEF NoteInv
    <3> QED
      BY <2>5, <3>1, <3>2 DEF OnFile, L!Said, L!Note
  <2>7. CASE /\ judgments[t] = 0 /\ judgments' = [judgments EXCEPT ![t] = now]
             /\ written' = written \cup {L!Said("judgment", t, now)}
    <3>1. \A u \in Texts, at \in 1..MaxTime :
              L!Said("judgment", u, at) \in written' => judgments'[u] = at
      <4> SUFFICES ASSUME NEW u \in Texts, NEW at \in 1..MaxTime,
                          L!Said("judgment", u, at) \in written'
                   PROVE  judgments'[u] = at
        OBVIOUS
      <4>1. CASE L!Said("judgment", u, at) \in written
        <5>1. judgments[u] = at /\ at # 0
          BY <1>1, <4>1 DEF NoteInv, OnFile
        <5> QED
          BY <1>1, <2>7, <5>1 DEF L!TypeOK
      <4>2. CASE L!Said("judgment", u, at) = L!Said("judgment", t, now)
        <5>1. u = t /\ at = now
          BY <1>5, <4>2
        <5> QED
          BY <1>1, <2>7, <5>1 DEF L!TypeOK
      <4> QED
        BY <2>7, <4>1, <4>2
    <3>2. \A w \in {"note", "attempt", "question"}, u \in Texts, at \in 1..MaxTime :
              L!Said(w, u, at) \in written' => L!Said(w, u, at) \in written
      BY <1>5, <2>7
    <3>3. OnFile /\ notes' = notes /\ events' = events
      BY <1>1, <1>2, <2>1 DEF NoteInv
    <3> QED
      BY <2>5, <3>1, <3>2, <3>3 DEF OnFile, L!Said, L!Note
  <2> QED
    BY <2>2, <2>5, <2>6, <2>7
<1>9. ASSUME NEW t \in Texts, NEW w \in {"attempt", "question"}, L!AddEvent(L!Said(w, t, now))
      PROVE  L!TypeOK' /\ OnFile'
  <2>1. PICK e : e = L!Said(w, t, now)
    OBVIOUS
  <2>2. /\ UNCHANGED <<left, judgments, now>> /\ L!Write
        /\ events' = events \cup {e} /\ written' = written \cup {e}
    BY <1>9, <2>1 DEF L!AddEvent
  <2>3. e \in L!Item
    BY <1>7, <2>1 DEF L!Said, L!Item
  <2>4. L!TypeOK'
    BY <1>1, <1>2, <1>6, <2>2, <2>3 DEF L!TypeOK
  <2>5. \A v \in {"note", "judgment"}, u \in Texts, at \in 1..MaxTime :
            L!Said(v, u, at) \in written' => L!Said(v, u, at) \in written
    BY <1>5, <2>1, <2>2
  <2>6. OnFile'
    BY <1>1, <1>2, <2>2, <2>5 DEF NoteInv, OnFile
  <2> QED
    BY <2>4, <2>6
<1>10. ASSUME L!Tick \/ L!Tidy PROVE L!TypeOK' /\ OnFile'
  <2>1. /\ now' \in 1..MaxTime /\ left' \in SUBSET Proc
        /\ UNCHANGED <<judgments, events, written, writes>>
    BY <1>1, <1>7, <1>10 DEF L!Tick, L!Tidy, L!files, L!ghosts, L!bounds, L!TypeOK
  <2> QED
    BY <1>1, <1>2, <2>1 DEF L!TypeOK, NoteInv, OnFile
<1>11. L!TypeOK' /\ OnFile'
  BY <1>8, <1>9, <1>10 DEF L!AddAttempt, L!AddQuestion
<1> QED
  BY <1>3, <1>4, <1>11 DEF LogsInv, NoteInv

\* Every step of Logs keeps the invariant.
LEMMA LogsNext ==
    ASSUME L!LogsAssumption, LogsInv, L!Next \/ UNCHANGED L!vars
    PROVE  LogsInv'
<1>1. CASE UNCHANGED L!vars
  <2>1. UNCHANGED <<recall, notes, left, judgments, events, written, logged, kills,
                    searches, writes, now, holder, pc, job>>
    BY <1>1 DEF L!vars, L!files, L!ghosts, L!bounds
  <2>2. L!TypeOK' /\ NoteInv'
    BY <2>1 DEF LogsInv, L!TypeOK, NoteInv, Writer, OnFile
  <2>3. LogInv'
    BY <2>1, LogStays DEF LogsInv
  <2> QED
    BY <2>2, <2>3 DEF LogsInv
<1> QED
  BY <1>1, FindKeeps, EnterAppendKeeps, AppendPartKeeps, KilledKeeps, NoteStepKeeps, EventStepKeeps
  DEF L!Next

\* What is read back is an end of the log that begins with a line, unless
\* nothing is.
LEMMA TailIsAnEnd ==
    ASSUME L!LogsAssumption, L!TypeOK
    PROVE  L!LogTail(recall) = <<>> \/
           \E k \in 0..Len(recall) :
               /\ Len(L!LogTail(recall)) = Len(recall) - k
               /\ \A i \in 1..(Len(recall) - k) : L!LogTail(recall)[i] = recall[k + i]
               /\ k = 0 \/ recall[k][2] = 3
               /\ DOMAIN L!LogTail(recall) = 1..(Len(recall) - k)
<1> DEFINE Piece == (1..MaxSearches) \X L!Part
<1>1. PICK n \in Nat : n = Len(recall)
  BY LenProperties DEF L!TypeOK
<1>2. MaxTail \in Nat /\ recall \in Seq(Piece) /\ \A i \in 1..n : recall[i] \in Piece
  BY <1>1, ElementOfSeq DEF L!TypeOK, L!LogsAssumption
<1> HIDE DEF Piece
<1>3. CASE n <= MaxTail
  <2>1. L!LogTail(recall) = recall
    BY <1>1, <1>3 DEF L!LogTail
  <2>2. PICK k \in 0..Len(recall) : k = 0
    BY <1>1
  <2>3. Len(recall) = Len(recall) - k
        /\ \A i \in 1..(Len(recall) - k) : recall[i] = recall[k + i]
    BY <1>1, <2>2
  <2>4. DOMAIN recall = 1..(Len(recall) - k)
    BY <1>1, <1>2, <2>3, LenProperties
  <2> QED
    BY <2>1, <2>2, <2>3, <2>4
<1>4. CASE n > MaxTail
  <2> DEFINE m == n - MaxTail
             end == SubSeq(recall, Len(recall) - MaxTail + 1, Len(recall))
             first == {i \in L!LineBreaks(end) : \A j \in L!LineBreaks(end) : i <= j}
  <2>1. m \in Nat /\ m + 1 \in 1..(n + 1) /\ m + MaxTail = n
    BY <1>2, <1>4
  <2>2. L!LogTail(recall) = IF first = {} THEN <<>>
                            ELSE SubSeq(end, (CHOOSE i \in first : TRUE) + 1, Len(end))
    <3>1. ~(Len(recall) <= MaxTail)
      BY <1>1, <1>2, <1>4
    <3> QED
      BY <3>1 DEF L!LogTail
  <2>3. \A i \in (m + 1)..n : recall[i] \in Piece
    BY <1>2, <2>1
  <2>4. /\ end \in Seq(Piece) /\ Len(end) = MaxTail
        /\ \A i \in 1..MaxTail : end[i] = recall[m + i]
    <3>0. end = SubSeq(recall, m + 1, n)
      BY <1>1
    <3> HIDE DEF end
    <3>1. PICK a \in Int : a = m + 1
      BY <2>1
    <3>2. n \in Int /\ \A i \in a..n : recall[i] \in Piece
      BY <2>3, <3>1
    <3>3. /\ SubSeq(recall, a, n) \in Seq(Piece)
          /\ Len(SubSeq(recall, a, n)) = IF a <= n THEN n - a + 1 ELSE 0
          /\ \A i \in 1..(n - a + 1) : SubSeq(recall, a, n)[i] = recall[a + i - 1]
      BY <3>2, SubSeqProperties
    <3>4. /\ (IF a <= n THEN n - a + 1 ELSE 0) = MaxTail /\ n - a + 1 = MaxTail
          /\ \A i \in 1..MaxTail : a + i - 1 = m + i
      BY <1>2, <2>1, <3>1
    <3>5. end = SubSeq(recall, a, n)
      BY <3>0, <3>1
    <3> QED
      BY <3>3, <3>4, <3>5
  <2> HIDE DEF end, first
  <2>5. CASE first = {}
    BY <2>2, <2>5
  <2>6. CASE first # {}
    <3>1. PICK f : f = (CHOOSE i \in first : TRUE)
      OBVIOUS
    <3>2. f \in first
      BY <2>6, <3>1
    <3>3. f \in 1..MaxTail /\ end[f][2] = 3
      BY <2>4, <3>2, LenProperties DEF first, L!LineBreaks
    <3>4. L!LogTail(recall) = SubSeq(end, f + 1, MaxTail)
      BY <2>2, <2>4, <2>6, <3>1
    <3>5. \A i \in (f + 1)..MaxTail : end[i] \in Piece
      BY <2>3, <2>4, <3>3
    <3>6. /\ Len(SubSeq(end, f + 1, MaxTail)) = MaxTail - f
          /\ \A i \in 1..(MaxTail - f) : SubSeq(end, f + 1, MaxTail)[i] = end[f + i]
          /\ DOMAIN SubSeq(end, f + 1, MaxTail) = 1..(MaxTail - f)
      <4>0. SubSeq(end, f + 1, MaxTail) \in Seq(Piece)
        BY <1>2, <3>3, <3>5, SubSeqProperties
      <4>1. /\ Len(SubSeq(end, f + 1, MaxTail))
                    = IF f + 1 <= MaxTail THEN MaxTail - (f + 1) + 1 ELSE 0
            /\ \A i \in 1..(MaxTail - (f + 1) + 1) :
                   SubSeq(end, f + 1, MaxTail)[i] = end[f + 1 + i - 1]
        BY <1>2, <3>3, <3>5, SubSeqProperties
      <4>2. MaxTail - (f + 1) + 1 = MaxTail - f /\ \A i \in 1..(MaxTail - f) : f + 1 + i - 1 = f + i
        BY <1>2, <3>3
      <4> QED
        BY <1>2, <3>3, <4>0, <4>1, <4>2, LenProperties
    <3>7. m + f \in 0..n /\ n - (m + f) = MaxTail - f
      BY <1>2, <2>1, <3>3
    <3>8. \A i \in 1..(MaxTail - f) : end[f + i] = recall[(m + f) + i]
      <4>1. \A i \in 1..(MaxTail - f) : f + i \in 1..MaxTail /\ m + (f + i) = (m + f) + i
        BY <1>2, <2>1, <3>3
      <4> QED
        BY <2>4, <4>1
    <3>9. recall[m + f][2] = 3
      BY <2>4, <3>3
    <3> QED
      BY <1>1, <3>4, <3>6, <3>7, <3>8, <3>9
  <2> QED
    BY <2>5, <2>6
<1>5. n <= MaxTail \/ n > MaxTail
  BY <1>2
<1> QED
  BY <1>3, <1>4, <1>5, Zenon

\* Of the searches of whole lines in what is read back, those that are not
\* counted follow a line that breaks off.
LEMMA LossIsTorn ==
    ASSUME L!LogsAssumption, LogsInv
    PROVE  LET log == L!LogTail(recall)
           IN  Cardinality((logged \cap L!Begun(log)) \ L!Counted(log)) <= kills
<1> DEFINE log == L!LogTail(recall)
           Lost == (logged \cap L!Begun(log)) \ L!Counted(log)
<1>1. L!TypeOK /\ LogInv /\ Lines /\ kills \in Nat /\ IsFiniteSet(Torn(recall))
  <2>1. L!TypeOK /\ LogInv /\ Lines
    BY DEF LogsInv, LogInv
  <2>2. kills \in Nat
    BY <2>1 DEF L!TypeOK, L!LogsAssumption
  <2> QED
    BY <2>1, <2>2, TornIsFinite
<1>2. IsFiniteSet(Abandoned)
  BY <1>1, FS_Subset DEF Abandoned
<1>3. Cardinality(Abandoned) \in Nat /\ Cardinality(Abandoned) <= kills
  BY <1>1, <1>2, FS_CardinalityType DEF LogInv
<1>4. CASE log = <<>>
  <2>1. L!Begun(log) = {}
    BY <1>4 DEF L!Begun
  <2>2. Lost = {}
    BY <2>1
  <2> HIDE DEF Lost, log
  <2>3. Cardinality(Lost) = 0
    BY <2>2, FS_EmptySet
  <2> QED
    BY <1>1, <2>3 DEF Lost, log
<1>5. CASE log # <<>>
  <2>1. PICK n \in Nat : n = Len(recall)
    BY <1>1, LenProperties DEF L!TypeOK
  <2>2. PICK k \in 0..n :
            /\ Len(log) = n - k
            /\ \A i \in 1..(n - k) : log[i] = recall[k + i]
            /\ k = 0 \/ recall[k][2] = 3
            /\ DOMAIN log = 1..(n - k)
    BY <1>1, <1>5, <2>1, TailIsAnEnd
  <2>3. DOMAIN log = 1..(n - k)
    BY <2>2
  <2> HIDE DEF log
  <2>4. ASSUME NEW s \in Lost
        PROVE  \E i \in 1..n : i + 1 <= n /\ recall[i + 1] = <<s, 1>> /\ i \in Abandoned
    <3>1. PICK j \in 1..(n - k) : log[j][2] = 1 /\ log[j][1] = s
      BY <2>3 DEF L!Begun
    <3>2. PICK i \in 1..n : /\ i + 2 <= n
                            /\ recall[i] = <<s, 1>> /\ recall[i + 1] = <<s, 2>> /\ recall[i + 2] = <<s, 3>>
      BY <1>1, <2>1 DEF LogInv, Whole
    <3>3. k + j \in 1..n /\ recall[k + j] = <<s, 1>>
      <4>0. k + j \in 1..n
        OBVIOUS
      <4>1. recall[k + j] = log[j]
        BY <2>2
      <4>2. recall[k + j] \in (1..MaxSearches) \X L!Part
        BY <1>1, <2>1, <4>0, ElementOfSeq DEF L!TypeOK
      <4> QED
        BY <3>1, <4>0, <4>1, <4>2
    <3>4. i = k + j
      <4>1. PICK m \in 1..n : m = k + j
        BY <3>3
      <4>2. recall[m] = recall[i] /\ recall[m][2] = 1
        BY <3>2, <3>3, <4>1
      <4> QED
        BY <1>1, <2>1, <4>1, <4>2 DEF Lines
    <3>5. /\ j + 2 <= n - k /\ j + 1 \in 1..(n - k) /\ j + 2 \in 1..(n - k)
          /\ k + (j + 1) = i + 1 /\ k + (j + 2) = i + 2
      BY <3>2, <3>4
    <3>6. log[j] = <<s, 1>> /\ log[j + 1] = <<s, 2>> /\ log[j + 2] = <<s, 3>>
      BY <2>2, <3>2, <3>3, <3>5
    <3>7. s \notin L!Counted(log) /\ s \in 1..MaxSearches
      BY <1>1 DEF L!TypeOK
    <3>8. j \in 1..(Len(log) - 1)
      <4>1. j \in 1..((n - k) - 1)
        BY <3>5
      <4> QED
        BY <2>2, <4>1
    <3>9. j + 2 \in L!LineBreaks(log)
      BY <2>3, <3>5, <3>6 DEF L!LineBreaks
    <3>10. j # 1 /\ j - 1 \notin L!LineBreaks(log)
      BY <3>6, <3>7, <3>8, <3>9 DEF L!Counted
    <3>11. /\ j - 1 \in 1..(n - k) /\ k + (j - 1) = i - 1 /\ i - 1 \in 1..n
           /\ (i - 1) + 1 = i /\ i - 1 # n
      BY <3>2, <3>4, <3>10
    <3>12. log[j - 1][2] # 3 /\ log[j - 1] = recall[i - 1]
      BY <2>2, <2>3, <3>10, <3>11 DEF L!LineBreaks
    <3>13. recall[i - 1] \in (1..MaxSearches) \X L!Part
      BY <1>1, <2>1, <3>11, ElementOfSeq DEF L!TypeOK
    <3>14. recall[i - 1][2] < 3
      BY <3>12, <3>13 DEF L!Part
    <3>15. i - 1 \in Abandoned
      <4>1. PICK b \in 1..n : b = i - 1
        BY <3>11
      <4>2. recall[b][2] < 3 /\ recall[b + 1][2] = 1 /\ b # n
        BY <3>2, <3>11, <3>14, <4>1
      <4>3. b \in Torn(recall)
        BY <2>1, <4>2 DEF Torn
      <4> QED
        BY <2>1, <4>1, <4>2, <4>3 DEF Abandoned
    <3> QED
      BY <3>2, <3>11, <3>15
  <2> DEFINE torn == [s \in Lost |-> CHOOSE i \in 1..n :
                                       i + 1 <= n /\ recall[i + 1] = <<s, 1>> /\ i \in Abandoned]
  <2>5. \A s \in Lost : torn[s] \in Abandoned /\ recall[torn[s] + 1] = <<s, 1>>
    BY <2>4
  <2>6. torn \in Injection(Lost, Abandoned)
    <3>1. torn \in [Lost -> Abandoned]
      BY <2>5
    <3>2. ASSUME NEW s \in Lost, NEW t \in Lost, torn[s] = torn[t] PROVE s = t
      <4> HIDE DEF torn
      <4>1. <<s, 1>> = <<t, 1>>
        BY <2>5, <3>2
      <4> QED
        BY <4>1
    <3> HIDE DEF torn
    <3> QED
      BY <3>1, <3>2 DEF Injection, IsInjective
  <2> HIDE DEF torn, Lost
  <2>7. IsFiniteSet(Lost) /\ Cardinality(Lost) <= Cardinality(Abandoned)
    BY <1>2, <2>6, FS_Injection
  <2>8. Cardinality(Lost) \in Nat
    BY <2>7, FS_CardinalityType
  <2> QED
    BY <1>1, <1>3, <2>7, <2>8 DEF Lost, log
<1> QED
  BY <1>4, <1>5

\* The list of questions has all of them.
LEMMA QuestionsListed ==
    ASSUME L!LogsAssumption, LogsInv, NEW t \in Texts, NEW e \in L!About("question", t)
    PROVE  e \in L!Range(L!QuestionsFor(t))
<1> DEFINE asked == L!About("question", t)
           Earlier == {x \in asked \X asked : x[1].at < x[2].at}
<1>1. PICK n \in Nat : n = MaxTime
  BY DEF L!LogsAssumption
<1>2. \A x \in asked : x.at \in 1..n /\ x = L!Said("question", t, x.at)
  <2>1. \A x \in asked : x \in L!Item /\ x.what = "question" /\ x.text = t
    BY DEF L!About, LogsInv, L!TypeOK
  <2> QED
    BY <1>1, <2>1 DEF L!Item, L!Said
<1>3. IsFiniteSet(asked)
  <2> DEFINE at == [x \in asked |-> x.at]
  <2>1. at \in Injection(asked, 1..n)
    BY <1>2 DEF Injection, IsInjective
  <2> QED
    BY <2>1, FS_Interval, FS_Injection
<1> HIDE DEF asked
<1>4. /\ \A x \in asked : <<x, x>> \notin Earlier
      /\ \A x, y, z \in asked : <<x, y>> \in Earlier /\ <<y, z>> \in Earlier => <<x, z>> \in Earlier
      /\ \A x, y \in asked : x # y => <<x, y>> \in Earlier \/ <<y, x>> \in Earlier
  <2>1. \A x, y \in asked : <<x, y>> \in Earlier <=> x.at < y.at
    OBVIOUS
  <2>2. \A x, y \in asked : x # y => x.at # y.at
    BY <1>2
  <2> HIDE DEF Earlier
  <2> QED
    BY <1>2, <2>1, <2>2
<1>5. \A x, y \in asked : <<x, y>> \in Earlier <=> x.at < y.at
  OBVIOUS
<1> HIDE DEF Earlier
<1>6. \E list \in [1..Cardinality(asked) -> asked] :
          \A i, j \in 1..Cardinality(asked) : i < j => <<list[i], list[j]>> \in Earlier
  BY <1>3, <1>4, CanBeSorted
<1>7. PICK c : c = Cardinality(asked)
  OBVIOUS
<1>8. PICK list : list = L!QuestionsFor(t)
  OBVIOUS
<1>9. list = CHOOSE l \in [1..c -> asked] : \A i, j \in DOMAIN l : i < j => l[i].at < l[j].at
  BY <1>7, <1>8, LogsCount DEF L!QuestionsFor, asked
<1>10. \E l \in [1..c -> asked] : \A i, j \in DOMAIN l : i < j => l[i].at < l[j].at
  BY <1>5, <1>6, <1>7
<1>11. list \in [1..c -> asked] /\ \A i, j \in DOMAIN list : i < j => list[i].at < list[j].at
  BY <1>9, <1>10
<1>12. \A i, j \in 1..c : i < j => <<list[i], list[j]>> \in Earlier
  BY <1>5, <1>11
<1>13. PICK i \in 1..c : list[i] = e
  <2>1. \A x \in asked : \E i \in 1..Cardinality(asked) : list[i] = x
    <3>1. list \in [1..Cardinality(asked) -> asked]
      BY <1>7, <1>11
    <3>2. \A i, j \in 1..Cardinality(asked) : i < j => list[i] # list[j]
      BY <1>4, <1>7, <1>11, <1>12
    <3> QED
      BY <1>3, <3>1, <3>2, SortedHasAll
  <2> QED
    BY <1>7, <2>1 DEF asked
<1> QED
  BY <1>8, <1>11, <1>13 DEF L!Range

\* What is on file is found, and each loss is a line that was torn.
LEMMA LogsKept ==
    ASSUME L!LogsAssumption, LogsInv
    PROVE  L!WrittenStays
<1>1. OnFile
  BY DEF LogsInv, NoteInv
<1>2. ASSUME NEW t \in Texts, NEW at \in 1..MaxTime, L!Said("attempt", t, at) \in written
      PROVE  /\ L!Said("attempt", t, at) \in events
             /\ \A e \in L!LatestAttempts(t) : at <= e.at
  <2>1. L!Said("attempt", t, at) \in events
    BY <1>1, <1>2 DEF OnFile
  <2>2. L!Said("attempt", t, at) \in L!About("attempt", t)
    BY <2>1 DEF L!About, L!Said
  <2>3. L!Said("attempt", t, at).at = at
    BY DEF L!Said
  <2> QED
    BY <2>1, <2>2, <2>3 DEF L!LatestAttempts
<1>3. ASSUME NEW t \in Texts, NEW at \in 1..MaxTime, L!Said("question", t, at) \in written
      PROVE  L!Said("question", t, at) \in L!Range(L!QuestionsFor(t))
  <2>1. L!Said("question", t, at) \in events
    BY <1>1, <1>3 DEF OnFile
  <2>2. L!Said("question", t, at) \in L!About("question", t)
    BY <2>1 DEF L!About, L!Said
  <2> QED
    BY <2>2, QuestionsListed
<1> QED
  <2>1. L!Cardinality((logged \cap L!Begun(L!LogTail(recall))) \ L!Counted(L!LogTail(recall)))
            <= kills
    BY LossIsTorn, LogsCount
  <2> QED
    BY <1>1, <1>2, <1>3, <2>1 DEF OnFile, L!WrittenStays

\* What a command has said is written stays as it was written, whoever writes it
\* again and whoever is killed; and of the searches that end within what is read
\* back of the recall log, no more are lost than processes were killed at a line.
THEOREM WrittenStaysWritten ==
    ASSUME L!LogsAssumption
    PROVE  L!Spec => []L!WrittenStays
<1>1. L!Init => LogsInv
  BY LogsInit
<1>2. LogsInv /\ [L!Next]_L!vars => LogsInv'
  BY LogsNext
<1>3. LogsInv => L!WrittenStays
  BY LogsKept
<1> QED
  BY <1>1, <1>2, <1>3, PTL DEF L!Spec

-----------------------------------------------------------------------------
(* Resurfacing *)

\* The revisions that were ever opened.
Opened == {x \in Notes \X V!Revision : opened[x] # 0}

\* A revision has one decision.
OneDecision == \A d, e \in decided : d.note = e.note /\ d.rev = e.rev => d = e

\* Who is at an item has it; who records an opening holds the lock, and what it
\* read of the history is still there.
Reader(p) ==
    /\ pc[p] # "idle" => job[p].note \in Notes /\ job[p].rev \in V!Revision
    /\ pc[p] = "opening" => holder = p /\ job[p].seen = history

\* The history is about the last opening of a revision, and of all of them until
\* there were more than it has room for.
Remembered ==
    /\ IsFiniteSet(history) /\ IsFiniteSet(Opened)
    /\ \A e \in history : opened[<<e.note, e.rev>>] = e.at
    /\ Cardinality(Opened) <= MaxEntries =>
           \A x \in Opened : \E e \in history : e.note = x[1] /\ e.rev = x[2]

ResurfacingInv ==
    V!TypeOK /\ OneDecision /\ (\A p \in Proc : Reader(p)) /\ Remembered

\* Counting in Resurfacing is counting here,
LEMMA SameCounts == \A S : V!Cardinality(S) = Cardinality(S)
  BY DEF V!Cardinality, Cardinality

\* and so is being finite.
LEMMA SameFiniteness == \A S : V!IsFiniteSet(S) <=> IsFiniteSet(S)
  BY DEF V!IsFiniteSet, IsFiniteSet

\* What is decided once is counted once.
LEMMA CountedOnce ==
    ASSUME NEW S, \A x, y \in S : x = y
    PROVE  Cardinality(S) <= 1
<1>1. CASE S = {}
  BY <1>1, FS_EmptySet
<1>2. CASE S # {}
  <2>1. PICK x \in S : S = {x}
    BY <1>2
  <2> QED
    BY <2>1, FS_Singleton
<1> QED
  BY <1>1, <1>2

\* Nothing at hand is a job.
LEMMA NothingAtHand == V!NoJob \in V!Job
  BY DEF V!NoJob, V!Job

\* The job of who chose an item.
LEMMA ChosenJob ==
    ASSUME NEW k, NEW r
    PROVE  [V!NoJob EXCEPT !.note = k, !.rev = r] = [note |-> k, rev |-> r, seen |-> {}, want |-> {}]
<1>1. PICK m : m = [V!NoJob EXCEPT !.note = k]
  OBVIOUS
<1>2. m = [note |-> k, rev |-> None, seen |-> {}, want |-> {}]
  BY <1>1 DEF V!NoJob
<1>3. [m EXCEPT !.rev = r] = [note |-> k, rev |-> r, seen |-> {}, want |-> {}]
  BY <1>2
<1> QED
  BY <1>1, <1>3

\* The job of who read the history.
LEMMA SeenJob ==
    ASSUME NEW j \in V!Job, NEW seen \in SUBSET V!Entry
    PROVE  /\ [j EXCEPT !.seen = seen] \in V!Job
           /\ [j EXCEPT !.seen = seen].note = j.note
           /\ [j EXCEPT !.seen = seen].rev = j.rev
           /\ [j EXCEPT !.seen = seen].seen = seen
  BY DEF V!Job

\* Who is done has nothing at hand.
LEMMA Quitting ==
    ASSUME job \in [Proc -> V!Job], pc \in [Proc -> V!Pc], NEW p \in Proc, V!Quit(p)
    PROVE  /\ job' \in [Proc -> V!Job] /\ pc' \in [Proc -> V!Pc]
           /\ pc'[p] = "idle"
           /\ \A q \in Proc \ {p} : job'[q] = job[q] /\ pc'[q] = pc[q]
<1>1. pc' = [pc EXCEPT ![p] = "idle"] /\ job' = [job EXCEPT ![p] = V!NoJob]
  BY DEF V!Quit, V!Goto, V!Set
<1> QED
  BY <1>1, NothingAtHand DEF V!Pc

\* The invariant of Resurfacing holds at first.
LEMMA ResurfacingInit == ASSUME V!ResurfacingAssumption PROVE V!Init => ResurfacingInv
<1> SUFFICES ASSUME V!Init PROVE ResurfacingInv
  OBVIOUS
<1>1. opened = [x \in Notes \X V!Revision |-> 0] /\ history = {} /\ decided = {}
  BY DEF V!Init
<1>2. Opened = {}
  BY <1>1 DEF Opened
<1>3. Remembered
  BY <1>1, <1>2, FS_EmptySet DEF Remembered
<1>4. OneDecision /\ \A p \in Proc : Reader(p)
  BY <1>1 DEF OneDecision, Reader, V!Init
<1>5. \A k \in Notes : V!Cardinality(V!Decisions(k)) <= 1
  <2> SUFFICES ASSUME NEW k \in Notes PROVE V!Cardinality(V!Decisions(k)) <= 1
    OBVIOUS
  <2>1. V!Decisions(k) = {}
    BY <1>1 DEF V!Decisions
  <2> QED
    BY <2>1, CountedOnce, SameCounts
<1>6. V!Cardinality(history) <= MaxEntries
  BY <1>1, SameCounts, FS_EmptySet DEF V!ResurfacingAssumption
<1>7. current \in [Notes -> V!Revision]
  BY DEF V!Init, V!Revision
<1>8. V!TypeOK
  <2>1. opened \in [Notes \X V!Revision -> 0..MaxTime] /\ now \in 1..MaxTime /\ calls \in 0..MaxCalls
    BY <1>1 DEF V!Init, V!ResurfacingAssumption
  <2>2. holder \in Proc \cup {None} /\ pc \in [Proc -> V!Pc] /\ job \in [Proc -> V!Job]
    BY NothingAtHand DEF V!Init, V!Pc
  <2> QED
    BY <1>1, <1>5, <1>6, <1>7, <2>1, <2>2 DEF V!TypeOK
<1> QED
  BY <1>3, <1>4, <1>8 DEF ResurfacingInv

\* A standing and a time are numbers.
LEMMA RanksAreNumbers ==
    ASSUME V!TypeOK, Remembered, V!ResurfacingAssumption
    PROVE  \A k \in Notes : /\ V!Rank(k) \in 0..2
                            /\ V!OpenedAt(k) \in Nat
                            /\ V!OpenedAt(k) # 0 => V!OpenedAt(k) = opened[<<k, current[k]>>]
                            /\ (\E e \in history : e.note = k /\ e.rev = current[k]) =>
                                   V!OpenedAt(k) = opened[<<k, current[k]>>]
<1> SUFFICES ASSUME NEW k \in Notes
             PROVE  /\ V!Rank(k) \in 0..2
                    /\ V!OpenedAt(k) \in Nat
                    /\ V!OpenedAt(k) # 0 => V!OpenedAt(k) = opened[<<k, current[k]>>]
                    /\ (\E e \in history : e.note = k /\ e.rev = current[k]) =>
                           V!OpenedAt(k) = opened[<<k, current[k]>>]
  OBVIOUS
<1>1. V!Rank(k) \in 0..2
  BY DEF V!Rank
<1> DEFINE found == {e \in history : e.note = k /\ e.rev = current[k]}
<1>2. CASE found = {}
  BY <1>1, <1>2 DEF V!OpenedAt
<1>3. CASE found # {}
  <2>1. PICK e : e = CHOOSE x \in found : TRUE
    OBVIOUS
  <2>2. e \in found
    BY <1>3, <2>1
  <2>3. V!OpenedAt(k) = e.at
    BY <1>3, <2>1 DEF V!OpenedAt
  <2>4. e.at \in Nat /\ e.at = opened[<<k, current[k]>>]
    BY <2>2 DEF V!TypeOK, V!Entry, V!ResurfacingAssumption, Remembered
  <2> QED
    BY <1>1, <2>3, <2>4
<1> QED
  BY <1>2, <1>3

\* The list: some of the notes, each before the ones after it.
LEMMA ListIsOrdered ==
    ASSUME V!ResurfacingAssumption, V!TypeOK, Remembered, NEW filter
    PROVE  \E m \in Nat : /\ V!Listed(filter) \in [1..m -> Notes]
                          /\ \A i, j \in 1..m :
                                 i < j => V!Before(V!Listed(filter)[i], V!Listed(filter)[j])
<1> DEFINE pool == {k \in Notes : /\ filter \subseteq current[k].perspectives
                                  /\ V!State(k) # "changes_requested"}
           Prior == {x \in pool \X pool : V!Before(x[1], x[2])}
<1>1. IsFiniteSet(pool) /\ pool \subseteq Notes
  BY SameFiniteness, FS_Subset DEF V!ResurfacingAssumption
<1>2. \A x \in Notes : x \in Nat /\ V!Rank(x) \in 0..2 /\ V!OpenedAt(x) \in Nat
  BY RanksAreNumbers DEF V!ResurfacingAssumption
<1> HIDE DEF pool
<1>3. \A x, y \in pool : <<x, y>> \in Prior <=> V!Before(x, y)
  OBVIOUS
<1> HIDE DEF Prior
<1>4. \A x, y, z \in pool : <<x, y>> \in Prior /\ <<y, z>> \in Prior => <<x, z>> \in Prior
  BY <1>1, <1>2, <1>3 DEF V!Before
<1>5. \A x, y \in pool : x # y => <<x, y>> \in Prior \/ <<y, x>> \in Prior
  BY <1>1, <1>2, <1>3 DEF V!Before
<1>6. \E list \in [1..Cardinality(pool) -> pool] :
          \A i, j \in 1..Cardinality(pool) : i < j => <<list[i], list[j]>> \in Prior
  BY <1>1, <1>4, <1>5, CanBeSorted
<1>7. PICK n \in Nat : n = Cardinality(pool)
  BY <1>1, FS_CardinalityType
<1>8. PICK ordered : ordered = CHOOSE list \in [1..n -> pool] :
                           \A i, j \in DOMAIN list : i < j => V!Before(list[i], list[j])
  OBVIOUS
<1>9. \E list \in [1..n -> pool] : \A i, j \in DOMAIN list : i < j => V!Before(list[i], list[j])
  BY <1>3, <1>6, <1>7
<1>10. ordered \in [1..n -> pool] /\ \A i, j \in DOMAIN ordered : i < j => V!Before(ordered[i], ordered[j])
  BY <1>8, <1>9
<1>11. V!Listed(filter) = SubSeq(ordered, 1, IF Len(ordered) < Offers THEN Len(ordered) ELSE Offers)
  <2>1. V!Cardinality(pool) = n
    BY <1>7, SameCounts
  <2> QED
    <3> DEFINE first == CHOOSE list \in [1..V!Cardinality(pool) -> pool] :
                            \A i, j \in DOMAIN list : i < j => V!Before(list[i], list[j])
    <3>1. V!Listed(filter) = SubSeq(first, 1, IF Len(first) < Offers THEN Len(first) ELSE Offers)
      BY DEF V!Listed, pool
    <3>2. first = ordered
      BY <1>8, <2>1
    <3> HIDE DEF first
    <3> QED
      BY <3>1, <3>2
<1>12. ordered \in Seq(Notes) /\ Len(ordered) = n
  BY <1>1, <1>10
<1>13. PICK m \in Nat : m = IF Len(ordered) < Offers THEN Len(ordered) ELSE Offers
  BY <1>12 DEF V!ResurfacingAssumption
<1>14. m <= n /\ V!Listed(filter) = SubSeq(ordered, 1, m)
  BY <1>11, <1>12, <1>13 DEF V!ResurfacingAssumption
<1>15. /\ SubSeq(ordered, 1, m) \in [1..m -> Notes]
       /\ \A i \in 1..m : SubSeq(ordered, 1, m)[i] = ordered[i]
  <2>1. SubSeq(ordered, 1, m) \in Seq(Notes) /\ Len(SubSeq(ordered, 1, m)) = m
    BY <1>12, <1>14
  <2>2. \A i \in 1..m : SubSeq(ordered, 1, m)[i] = ordered[i]
    BY <1>12, <1>14
  <2>3. PICK cut : cut = SubSeq(ordered, 1, m)
    OBVIOUS
  <2>4. cut \in Seq(Notes) /\ Len(cut) = m
    BY <2>1, <2>3
  <2>5. cut \in [1..m -> Notes]
    BY <2>4
  <2> QED
    BY <2>2, <2>3, <2>5
<1> QED
  BY <1>10, <1>13, <1>14, <1>15

\* What is decided of the present revisions, when decisions are of one revision each.
LEMMA DecidedOnce ==
    ASSUME OneDecision
    PROVE  \A k \in Notes : V!Cardinality(V!Decisions(k)) <= 1
<1> SUFFICES ASSUME NEW k \in Notes PROVE Cardinality(V!Decisions(k)) <= 1
  BY SameCounts
<1>1. \A d, e \in V!Decisions(k) : d = e
  BY DEF OneDecision, V!Decisions
<1> QED
  BY <1>1, CountedOnce

\* The readers' commands that leave the records, the decisions and the openings alone.
LEMMA ReadersKeep ==
    ASSUME V!ResurfacingAssumption, ResurfacingInv, NEW p \in Proc,
           V!Resurface(p) \/ V!EnterOpen(p) \/ V!Card(p) \/ V!Close(p) \/ V!Confirm(p) \/ V!Crash(p)
    PROVE  ResurfacingInv'
<1>0. V!TypeOK /\ job \in [Proc -> V!Job] /\ pc \in [Proc -> V!Pc] /\ None \notin Proc
      /\ current \in [Notes -> V!Revision] /\ history \in SUBSET V!Entry /\ holder \in Proc \cup {None}
      /\ calls \in 0..MaxCalls /\ MaxCalls \in Nat
      /\ \A q \in Proc : Reader(q)
  BY DEF ResurfacingInv, V!TypeOK, V!ResurfacingAssumption
<1>1. UNCHANGED <<current, decided, history, opened, now>>
  BY DEF V!Resurface, V!EnterOpen, V!Card, V!Close, V!Confirm, V!Crash, V!files
<1>2. calls' \in 0..MaxCalls
  <2>1. calls' = calls \/ (calls < MaxCalls /\ calls' = calls + 1)
    BY DEF V!Resurface, V!EnterOpen, V!Card, V!Close, V!Confirm, V!Crash, V!Call
  <2> QED
    BY <1>0, <2>1
<1>3. /\ job' \in [Proc -> V!Job] /\ pc' \in [Proc -> V!Pc]
      /\ \A q \in Proc \ {p} : job'[q] = job[q] /\ pc'[q] = pc[q]
      /\ pc'[p] # "idle" => job'[p].note \in Notes /\ job'[p].rev \in V!Revision
      /\ pc'[p] = "opening" => holder = None /\ holder' = p /\ job'[p].seen = history
      /\ holder' \in {holder, p, None}
      /\ holder' # holder => holder = None \/ pc[p] = "opening"
  <2>1. CASE V!Resurface(p)
    <3>0. PICK filter \in V!Filters : \E i \in DOMAIN V!Listed(filter) :
             job' = [job EXCEPT ![p] = [V!NoJob EXCEPT !.note = V!Listed(filter)[i],
                                                       !.rev = current[V!Listed(filter)[i]]]]
      BY <2>1 DEF V!Resurface, V!Set
    <3>1. PICK i \in DOMAIN V!Listed(filter) :
             job' = [job EXCEPT ![p] = [V!NoJob EXCEPT !.note = V!Listed(filter)[i],
                                                       !.rev = current[V!Listed(filter)[i]]]]
      BY <3>0
    <3>2. PICK k \in Notes : k = V!Listed(filter)[i]
      <4>1. Remembered
        BY DEF ResurfacingInv
      <4> QED
        BY <1>0, <4>1, ListIsOrdered
    <3>3. current[k] \in V!Revision
      BY <1>0
    <3> DEFINE j == [V!NoJob EXCEPT !.note = k, !.rev = current[k]]
    <3>4. j \in V!Job /\ j.note = k /\ j.rev = current[k]
      BY <3>3, ChosenJob DEF V!Job
    <3>5. job' = [job EXCEPT ![p] = j]
      BY <3>1, <3>2
    <3>6. pc' = [pc EXCEPT ![p] = "chosen"] /\ UNCHANGED holder
      BY <2>1 DEF V!Resurface, V!Goto
    <3> HIDE DEF j
    <3>7. job'[p] = j /\ job' \in [Proc -> V!Job] /\ \A q \in Proc \ {p} : job'[q] = job[q]
      BY <1>0, <3>4, <3>5
    <3> QED
      BY <1>0, <3>3, <3>4, <3>6, <3>7 DEF V!Pc
  <2>2. CASE V!EnterOpen(p)
    <3>1. CASE current[job[p].note] = job[p].rev
      <4>1. /\ pc[p] = "chosen" /\ holder = None /\ holder' = p
            /\ pc' = [pc EXCEPT ![p] = "opening"]
            /\ job' = [job EXCEPT ![p] = [job[p] EXCEPT !.seen = history]]
        BY <2>2, <3>1 DEF V!EnterOpen, V!Set, V!Goto
      <4> DEFINE j == [job[p] EXCEPT !.seen = history]
      <4>2. j \in V!Job /\ j.note = job[p].note /\ j.rev = job[p].rev /\ j.seen = history
        BY <1>0, SeenJob
      <4> HIDE DEF j
      <4>3. job'[p] = j /\ job' \in [Proc -> V!Job] /\ \A q \in Proc \ {p} : job'[q] = job[q]
        BY <1>0, <4>1, <4>2 DEF j
      <4>4. job[p].note \in Notes /\ job[p].rev \in V!Revision
        BY <1>0, <4>1 DEF Reader
      <4> QED
        BY <1>0, <4>1, <4>2, <4>3, <4>4 DEF V!Pc
    <3>2. CASE current[job[p].note] # job[p].rev
      <4>1. V!Quit(p) /\ UNCHANGED holder
        BY <2>2, <3>2 DEF V!EnterOpen
      <4> QED
        BY <1>0, <4>1, Quitting
    <3> QED
      BY <3>1, <3>2
  <2>3. CASE V!Card(p)
    <3>1. pc[p] = "read" /\ pc' = [pc EXCEPT ![p] = "card"] /\ UNCHANGED holder
      BY <2>3 DEF V!Card, V!Goto
    <3>2. PICK want \in Labels :
             job' = [job EXCEPT ![p] = [job[p] EXCEPT !.rev = current[job[p].note], !.want = want]]
      BY <2>3 DEF V!Card, V!Set
    <3>3. job[p].note \in Notes /\ current[job[p].note] \in V!Revision
      BY <1>0, <3>1 DEF Reader
    <3> DEFINE j == [job[p] EXCEPT !.rev = current[job[p].note], !.want = want]
    <3>4. j \in V!Job /\ j.note = job[p].note /\ j.rev = current[job[p].note]
      <4>1. PICK r \in V!Revision : r = current[job[p].note]
        BY <3>3
      <4>2. PICK o \in V!Job : o = job[p]
        BY <1>0
      <4>3. PICK m : m = [o EXCEPT !.rev = r]
        OBVIOUS
      <4>4. m \in V!Job /\ m.note = o.note /\ m.rev = r
        BY <4>3 DEF V!Job
      <4>5. PICK shown : shown = [m EXCEPT !.want = want]
        OBVIOUS
      <4>6. shown \in V!Job /\ shown.note = o.note /\ shown.rev = r
        BY <4>4, <4>5 DEF V!Job
      <4>7. shown = j
        BY <4>1, <4>2, <4>3, <4>5
      <4> HIDE DEF j
      <4> QED
        BY <4>1, <4>2, <4>6, <4>7
    <3> HIDE DEF j
    <3>5. job'[p] = j /\ job' \in [Proc -> V!Job] /\ \A q \in Proc \ {p} : job'[q] = job[q]
      BY <1>0, <3>2, <3>4 DEF j
    <3> QED
      BY <1>0, <3>1, <3>3, <3>4, <3>5 DEF V!Pc
  <2>4. CASE V!Close(p) \/ V!Crash(p)
    <3>1. V!Quit(p) /\ holder' \in {holder, None} /\ (holder' # holder => pc[p] = "opening")
      BY <2>4 DEF V!Close, V!Crash
    <3> QED
      BY <1>0, <3>1, Quitting
  <2>5. CASE V!Confirm(p)
    <3>1. CASE current[job[p].note] = job[p].rev
      BY <1>0, <2>5, <3>1 DEF V!Confirm, V!Goto, V!Pc, Reader
    <3>2. CASE current[job[p].note] # job[p].rev
      <4>1. V!Quit(p) /\ UNCHANGED holder
        BY <2>5, <3>2 DEF V!Confirm
      <4> QED
        BY <1>0, <4>1, Quitting
    <3> QED
      BY <3>1, <3>2
  <2> QED
    BY <2>1, <2>2, <2>3, <2>4, <2>5
<1>4. \A q \in Proc : Reader(q)'
  BY <1>0, <1>1, <1>3 DEF Reader
<1>5. OneDecision' /\ Remembered'
  BY <1>1 DEF ResurfacingInv, OneDecision, Remembered, Opened
<1>6. V!TypeOK'
  BY <1>0, <1>1, <1>2, <1>3 DEF V!TypeOK, V!Decisions
<1> QED
  BY <1>4, <1>5, <1>6 DEF ResurfacingInv

\* An opening is remembered, what it replaces and what there is no room for is not.
LEMMA RecordOpenKeeps ==
    ASSUME V!ResurfacingAssumption, ResurfacingInv, NEW p \in Proc, V!RecordOpen(p)
    PROVE  ResurfacingInv'
<1>0. /\ V!TypeOK /\ OneDecision /\ Remembered /\ \A q \in Proc : Reader(q)
      /\ job \in [Proc -> V!Job] /\ pc \in [Proc -> V!Pc] /\ None \notin Proc
      /\ history \in SUBSET V!Entry /\ opened \in [Notes \X V!Revision -> 0..MaxTime]
      /\ \A e, f \in history : e.note = f.note /\ e.rev = f.rev => e = f
      /\ now \in 1..MaxTime /\ MaxTime \in Nat /\ MaxEntries \in Nat
  BY DEF ResurfacingInv, V!TypeOK, V!ResurfacingAssumption
<1>1. PICK k \in Notes : k = job[p].note
  BY <1>0 DEF V!RecordOpen, Reader
<1>2. PICK r \in V!Revision : r = job[p].rev
  BY <1>0 DEF V!RecordOpen, Reader
<1>3. holder = p /\ job[p].seen = history /\ pc[p] = "opening"
  BY <1>0 DEF V!RecordOpen, Reader
<1>4. PICK new : new = [note |-> k, rev |-> r, at |-> now]
  OBVIOUS
<1>5. new \in V!Entry /\ new.note = k /\ new.rev = r /\ new.at = now
  BY <1>0, <1>4 DEF V!Entry
<1>6. PICK entries : entries = {e \in history : e.note # k \/ e.rev # r} \cup {new}
  OBVIOUS
<1>7. /\ history' \in V!Truncations(entries)
      /\ opened' = [opened EXCEPT ![<<k, r>>] = now]
      /\ holder' = None /\ pc' = [pc EXCEPT ![p] = "read"]
      /\ job' = [job EXCEPT ![p] = [job[p] EXCEPT !.seen = {}]]
      /\ UNCHANGED <<current, decided, now, calls>>
  BY <1>1, <1>2, <1>3, <1>4, <1>6 DEF V!RecordOpen, V!Others, V!Set, V!Goto
<1>8. IsFiniteSet(entries) /\ entries \subseteq V!Entry
  <2>1. IsFiniteSet({e \in history : e.note # k \/ e.rev # r})
    BY <1>0, FS_Subset DEF Remembered
  <2> QED
    BY <1>0, <1>5, <1>6, <2>1, FS_AddElement
<1>9. /\ history' \subseteq entries
      /\ Cardinality(history') = IF Cardinality(entries) < MaxEntries THEN Cardinality(entries)
                                 ELSE MaxEntries
  BY <1>7, SameCounts DEF V!Truncations
<1>10. \A e, f \in entries : e.note = f.note /\ e.rev = f.rev => e = f
  BY <1>0, <1>5, <1>6
<1>11. PICK there : there = opened'
  OBVIOUS
<1>12. /\ there \in [Notes \X V!Revision -> 0..MaxTime]
       /\ there[<<k, r>>] = now
       /\ \A y \in Notes \X V!Revision : y # <<k, r>> => there[y] = opened[y]
  BY <1>0, <1>7, <1>11
<1>13. \A e \in entries : there[<<e.note, e.rev>>] = e.at
  <2> SUFFICES ASSUME NEW e \in entries PROVE there[<<e.note, e.rev>>] = e.at
    OBVIOUS
  <2>1. CASE e = new
    BY <1>5, <1>12, <2>1
  <2>2. CASE e # new
    <3>1. e \in history /\ <<e.note, e.rev>> # <<k, r>> /\ e \in V!Entry
      BY <1>0, <1>6, <2>2
    <3>2. <<e.note, e.rev>> \in Notes \X V!Revision
      BY <3>1 DEF V!Entry
    <3> QED
      BY <1>0, <1>12, <3>1, <3>2 DEF Remembered
  <2> QED
    BY <2>1, <2>2
<1>14. Opened' = {y \in Notes \X V!Revision : there[y] # 0}
  BY <1>11 DEF Opened, V!Revision
<1>15. Opened' = Opened \cup {<<k, r>>}
  BY <1>0, <1>12, <1>14 DEF Opened
<1>16. IsFiniteSet(Opened') /\ Cardinality(Opened) <= Cardinality(Opened')
       /\ Cardinality(Opened') \in Nat /\ Cardinality(Opened) \in Nat
  <2>1. IsFiniteSet(Opened)
    BY <1>0 DEF Remembered
  <2>2. IsFiniteSet(Opened \cup {<<k, r>>})
    BY <2>1, FS_AddElement
  <2>3. Cardinality(Opened) <= Cardinality(Opened \cup {<<k, r>>})
    BY <2>2, FS_Subset
  <2> QED
    BY <1>15, <2>1, <2>2, <2>3, FS_CardinalityType
<1>17. Cardinality(entries) \in Nat /\ Cardinality(history') <= MaxEntries /\ IsFiniteSet(history')
  <2>1. Cardinality(entries) \in Nat /\ IsFiniteSet(history')
    BY <1>8, <1>9, FS_CardinalityType, FS_Subset
  <2> QED
    BY <1>0, <1>9, <2>1
<1>18. ASSUME Cardinality(Opened') <= MaxEntries
       PROVE  \A y \in Opened' : \E e \in history' : e.note = y[1] /\ e.rev = y[2]
  <2>1. \A y \in Opened' : \E e \in entries : e.note = y[1] /\ e.rev = y[2]
    <3> SUFFICES ASSUME NEW y \in Opened' PROVE \E e \in entries : e.note = y[1] /\ e.rev = y[2]
      OBVIOUS
    <3>1. CASE y = <<k, r>>
      BY <1>5, <1>6, <3>1
    <3>2. CASE y # <<k, r>>
      <4>1. y \in Opened /\ Cardinality(Opened) <= MaxEntries
        BY <1>0, <1>15, <1>16, <1>18, <3>2
      <4>2. PICK e \in history : e.note = y[1] /\ e.rev = y[2]
        BY <1>0, <4>1 DEF Remembered
      <4>3. y = <<y[1], y[2]>>
        BY <4>1 DEF Opened
      <4>4. e.note # k \/ e.rev # r
        BY <3>2, <4>2, <4>3
      <4> QED
        BY <1>6, <4>2, <4>4
    <3> QED
      BY <3>1, <3>2
  <2> DEFINE of == [e \in entries |-> <<e.note, e.rev>>]
  <2>2. of \in Injection(entries, Opened')
    <3>1. \A e \in entries : <<e.note, e.rev>> \in Opened'
      <4> SUFFICES ASSUME NEW e \in entries PROVE <<e.note, e.rev>> \in Opened'
        OBVIOUS
      <4>1. <<e.note, e.rev>> \in Notes \X V!Revision /\ e.at # 0
        BY <1>8 DEF V!Entry
      <4> QED
        BY <1>13, <1>14, <4>1
    <3>2. of \in [entries -> Opened']
      BY <3>1
    <3>3. \A e, f \in entries : of[e] = of[f] => e = f
      BY <1>10
    <3> HIDE DEF of
    <3> QED
      BY <3>2, <3>3 DEF Injection, IsInjective
  <2>3. Cardinality(entries) <= Cardinality(Opened')
    BY <1>16, <2>2, FS_Injection
  <2>4. Cardinality(history') = Cardinality(entries)
    BY <1>0, <1>9, <1>16, <1>17, <1>18, <2>3
  <2>5. history' = entries
    BY <1>8, <1>9, <2>4, FS_Subset
  <2> QED
    BY <2>1, <2>5
<1>19. Remembered'
  <2>1. \A e \in history' : opened'[<<e.note, e.rev>>] = e.at
    BY <1>9, <1>11, <1>13
  <2> QED
    BY <1>16, <1>17, <1>18, <2>1 DEF Remembered
<1>20. /\ job' \in [Proc -> V!Job] /\ pc' \in [Proc -> V!Pc]
       /\ \A q \in Proc \ {p} : job'[q] = job[q] /\ pc'[q] = pc[q]
       /\ pc'[p] = "read" /\ job'[p].note = k /\ job'[p].rev = r
  <2> DEFINE j == [job[p] EXCEPT !.seen = {}]
  <2>1. j \in V!Job /\ j.note = k /\ j.rev = r
    BY <1>0, <1>1, <1>2, SeenJob
  <2>2. job' = [job EXCEPT ![p] = j]
    BY <1>7
  <2> HIDE DEF j
  <2> QED
    BY <1>0, <1>7, <2>1, <2>2 DEF V!Pc
<1>21. \A q \in Proc : Reader(q)'
  <2> SUFFICES ASSUME NEW q \in Proc PROVE Reader(q)'
    OBVIOUS
  <2>1. CASE q = p
    <3>1. pc'[p] = "read" /\ job'[p].note \in Notes /\ job'[p].rev \in V!Revision
      <4>1. k \in Notes /\ r \in V!Revision
        OBVIOUS
      <4>2. pc'[p] = "read" /\ job'[p].note = k /\ job'[p].rev = r
        BY <1>20
      <4> QED
        BY <4>1, <4>2
    <3>2. Reader(p)'
      BY <3>1 DEF Reader, V!Revision
    <3> QED
      BY <2>1, <3>2
  <2>2. CASE q # p
    <3>1. Reader(q) /\ pc'[q] = pc[q] /\ job'[q] = job[q] /\ pc[q] # "opening"
      BY <1>0, <1>3, <1>20, <2>2 DEF Reader
    <3> QED
      BY <3>1 DEF Reader, V!Revision
  <2> QED
    BY <2>1, <2>2
<1>22. V!TypeOK'
  <2>1. V!Cardinality(history') <= MaxEntries
    BY <1>17, SameCounts
  <2>2. \A e, f \in history' : e.note = f.note /\ e.rev = f.rev => e = f
    BY <1>9, <1>10
  <2>3. history' \in SUBSET V!Entry
    BY <1>8, <1>9
  <2>4. opened' \in [Notes \X V!Revision -> 0..MaxTime]
    BY <1>11, <1>12
  <2> QED
    BY <1>0, <1>7, <1>20, <2>1, <2>2, <2>3, <2>4 DEF V!TypeOK, V!Decisions
<1> QED
  BY <1>0, <1>7, <1>19, <1>21, <1>22 DEF ResurfacingInv, OneDecision

\* The revisions of a record, the decisions and the clock go on.
LEMMA RecordsKeep ==
    ASSUME V!ResurfacingAssumption, ResurfacingInv,
           UNCHANGED <<history, opened>>,
           now' \in 1..MaxTime, calls' \in 0..MaxCalls,
           current' \in [Notes -> V!Revision], decided' \in SUBSET V!Decision, OneDecision',
           holder' \in Proc \cup {None}, pc' \in [Proc -> V!Pc], job' \in [Proc -> V!Job],
           \A q \in Proc : Reader(q)'
    PROVE  ResurfacingInv'
<1>1. Remembered'
  BY DEF ResurfacingInv, Remembered, Opened
<1>2. (\A k \in Notes : V!Cardinality(V!Decisions(k)) <= 1)'
  <2> SUFFICES ASSUME NEW k \in Notes PROVE V!Cardinality(V!Decisions(k)') <= 1
    OBVIOUS
  <2> DEFINE ofIt == {d \in decided' : d.note = k /\ d.rev = current'[k]}
  <2>1. \A d, e \in ofIt : d = e
    BY DEF OneDecision
  <2>2. Cardinality(ofIt) <= 1
    BY <2>1, CountedOnce
  <2>3. V!Decisions(k)' = ofIt
    BY DEF V!Decisions
  <2> QED
    BY <2>2, <2>3, SameCounts
<1>3. V!TypeOK'
  BY <1>2 DEF ResurfacingInv, V!TypeOK
<1> QED
  BY <1>1, <1>3 DEF ResurfacingInv

\* The perspectives are replaced and nothing else of the revision.
LEMMA ReplaceKeeps ==
    ASSUME V!ResurfacingAssumption, ResurfacingInv, NEW p \in Proc, V!Replace(p)
    PROVE  ResurfacingInv' /\ \A k \in Notes : current'[k].units = current[k].units
<1>0. /\ V!TypeOK /\ OneDecision /\ \A q \in Proc : Reader(q)
      /\ job \in [Proc -> V!Job] /\ pc \in [Proc -> V!Pc]
      /\ current \in [Notes -> V!Revision]
      /\ now \in 1..MaxTime /\ calls \in 0..MaxCalls /\ decided \in SUBSET V!Decision
      /\ holder \in Proc \cup {None}
  BY DEF ResurfacingInv, V!TypeOK
<1>1. PICK k \in Notes : k = job[p].note
  BY <1>0 DEF V!Replace, Reader
<1>2. PICK r \in V!Revision : r = job[p].rev
  BY <1>0 DEF V!Replace, Reader
<1>3. PICK want \in Labels \cup {{}} : want = job[p].want
  BY <1>0 DEF V!Job
<1>4. PICK new : new = [r EXCEPT !.perspectives = want]
  OBVIOUS
<1>5. new \in V!Revision /\ new.units = r.units
  BY <1>4 DEF V!Revision
<1>6. current' = [current EXCEPT ![k] = IF current[k] = r THEN new ELSE current[k]]
  BY <1>0, <1>1, <1>2, <1>3, <1>4 DEF V!Replace
<1>7. UNCHANGED <<decided, history, opened, now, calls, holder>> /\ V!Quit(p)
  BY DEF V!Replace
<1>8. /\ job' \in [Proc -> V!Job] /\ pc' \in [Proc -> V!Pc] /\ pc'[p] = "idle"
      /\ \A q \in Proc \ {p} : job'[q] = job[q] /\ pc'[q] = pc[q]
  BY <1>0, <1>7, Quitting
<1>9. current' \in [Notes -> V!Revision] /\ \A j \in Notes : current'[j].units = current[j].units
  BY <1>0, <1>5, <1>6
<1>10. \A q \in Proc : Reader(q)'
  BY <1>0, <1>7, <1>8 DEF Reader, V!Revision
<1>11. ResurfacingInv'
  BY <1>0, <1>7, <1>8, <1>9, <1>10, RecordsKeep DEF OneDecision
<1> QED
  BY <1>9, <1>11

\* New drafts, reviews and time.
LEMMA OthersOfRecords ==
    ASSUME V!ResurfacingAssumption, ResurfacingInv,
           (\E k \in Notes : V!Draft(k) \/ V!Review(k)) \/ V!Tick \/ UNCHANGED V!vars
    PROVE  ResurfacingInv' /\ UNCHANGED pc
<1>0. /\ V!TypeOK /\ OneDecision /\ \A q \in Proc : Reader(q)
      /\ job \in [Proc -> V!Job] /\ pc \in [Proc -> V!Pc]
      /\ current \in [Notes -> V!Revision] /\ MaxCalls \in Nat /\ MaxTime \in Nat
      /\ now \in 1..MaxTime /\ calls \in 0..MaxCalls /\ decided \in SUBSET V!Decision
      /\ holder \in Proc \cup {None}
  BY DEF ResurfacingInv, V!TypeOK, V!ResurfacingAssumption
<1>1. UNCHANGED <<history, opened, holder, pc, job>>
  BY DEF V!Draft, V!Review, V!Tick, V!vars, V!files
<1>2. \A q \in Proc : Reader(q)'
  BY <1>0, <1>1 DEF Reader, V!Revision
<1>3. calls' \in 0..MaxCalls /\ now' \in 1..MaxTime
  <2>1. calls' = calls \/ (calls < MaxCalls /\ calls' = calls + 1)
    BY DEF V!Draft, V!Review, V!Tick, V!vars, V!Call
  <2>2. now' = now \/ (now < MaxTime /\ now' = now + 1)
    BY DEF V!Draft, V!Review, V!Tick, V!vars
  <2> QED
    BY <1>0, <2>1, <2>2
<1>4. current' \in [Notes -> V!Revision]
  <2>1. ASSUME NEW k \in Notes, V!Draft(k) PROVE current' \in [Notes -> V!Revision]
    <3>1. PICK u \in Units : current' = [current EXCEPT ![k] = [units |-> u, perspectives |-> {}]]
      BY <2>1 DEF V!Draft
    <3>2. [units |-> u, perspectives |-> {}] \in V!Revision
      BY DEF V!Revision
    <3> QED
      BY <1>0, <3>1, <3>2
  <2>2. ASSUME NEW k \in Notes, V!Review(k) PROVE UNCHANGED current
    BY <2>2 DEF V!Review
  <2>3. ASSUME V!Tick \/ UNCHANGED V!vars PROVE UNCHANGED current
    BY <2>3 DEF V!Tick, V!vars, V!files
  <2> QED
    BY <1>0, <2>1, <2>2, <2>3
<1>5. decided' \in SUBSET V!Decision /\ OneDecision'
  <2>1. ASSUME NEW k \in Notes, V!Review(k) PROVE decided' \in SUBSET V!Decision /\ OneDecision'
    <3>1. PICK d \in V!Decision : /\ d.note = k /\ d.rev = current[k]
                                  /\ decided' = (decided \ V!Decisions(k)) \cup {d}
      BY <2>1 DEF V!Review
    <3>2. \A e \in decided \ V!Decisions(k) : ~(e.note = d.note /\ e.rev = d.rev)
      BY <3>1 DEF V!Decisions
    <3> QED
      BY <1>0, <3>1, <3>2 DEF OneDecision
  <2>2. ASSUME NEW k \in Notes, V!Draft(k) PROVE UNCHANGED decided
    BY <2>2 DEF V!Draft
  <2>3. ASSUME V!Tick \/ UNCHANGED V!vars PROVE UNCHANGED decided
    BY <2>3 DEF V!Tick, V!vars, V!files
  <2> QED
    BY <1>0, <2>1, <2>2, <2>3 DEF OneDecision
<1> QED
  BY <1>0, <1>1, <1>2, <1>3, <1>4, <1>5, RecordsKeep

\* Every step of Resurfacing keeps the invariant.
LEMMA ResurfacingNext ==
    ASSUME V!ResurfacingAssumption, ResurfacingInv, V!Next \/ UNCHANGED V!vars
    PROVE  ResurfacingInv'
<1>1. CASE \E p \in Proc : V!Resurface(p) \/ V!EnterOpen(p) \/ V!Card(p) \/ V!Close(p)
                           \/ V!Confirm(p) \/ V!Crash(p)
  BY <1>1, ReadersKeep
<1>2. CASE \E p \in Proc : V!RecordOpen(p)
  BY <1>2, RecordOpenKeeps
<1>3. CASE \E p \in Proc : V!Replace(p)
  BY <1>3, ReplaceKeeps
<1>4. CASE (\E k \in Notes : V!Draft(k) \/ V!Review(k)) \/ V!Tick \/ UNCHANGED V!vars
  BY <1>4, OthersOfRecords
<1> QED
  BY <1>1, <1>2, <1>3, <1>4 DEF V!Next

\* While there is room for all openings, the order of a list is that of the last
\* openings of what it shows.
LEMMA ListedByOpening ==
    ASSUME V!ResurfacingAssumption, ResurfacingInv
    PROVE  V!LongestUnseenFirst
<1>0. V!TypeOK /\ Remembered /\ opened \in [Notes \X V!Revision -> 0..MaxTime] /\ MaxTime \in Nat
      /\ current \in [Notes -> V!Revision]
  BY DEF ResurfacingInv, V!TypeOK, V!ResurfacingAssumption
<1>1. {x \in DOMAIN opened : opened[x] # 0} = Opened
  BY <1>0 DEF Opened
<1> SUFFICES ASSUME Cardinality(Opened) <= MaxEntries, NEW f \in V!Filters,
                    NEW i \in DOMAIN V!Listed(f), NEW j \in DOMAIN V!Listed(f),
                    i < j, V!Rank(V!Listed(f)[i]) = V!Rank(V!Listed(f)[j])
             PROVE  opened[<<V!Listed(f)[i], current[V!Listed(f)[i]]>>]
                        <= opened[<<V!Listed(f)[j], current[V!Listed(f)[j]]>>]
  BY <1>1, SameCounts DEF V!LongestUnseenFirst
<1>2. PICK m \in Nat : /\ V!Listed(f) \in [1..m -> Notes]
                       /\ \A g, h \in 1..m : g < h => V!Before(V!Listed(f)[g], V!Listed(f)[h])
  BY <1>0, ListIsOrdered
<1>3. PICK x \in Notes : x = V!Listed(f)[i]
  BY <1>2
<1>4. PICK y \in Notes : y = V!Listed(f)[j]
  BY <1>2
<1>5. V!Before(x, y) /\ V!Rank(x) = V!Rank(y)
  BY <1>2, <1>3, <1>4
<1>6. \A k \in Notes : V!OpenedAt(k) = opened[<<k, current[k]>>]
  <2> SUFFICES ASSUME NEW k \in Notes PROVE V!OpenedAt(k) = opened[<<k, current[k]>>]
    OBVIOUS
  <2>1. CASE \E e \in history : e.note = k /\ e.rev = current[k]
    BY <1>0, <2>1, RanksAreNumbers
  <2>2. CASE ~\E e \in history : e.note = k /\ e.rev = current[k]
    <3>1. V!OpenedAt(k) = 0
      <4>1. {e \in history : e.note = k /\ e.rev = current[k]} = {}
        BY <2>2
      <4> QED
        BY <4>1 DEF V!OpenedAt
    <3>2. <<k, current[k]>> \in Notes \X V!Revision
      BY <1>0
    <3>3. <<k, current[k]>> \notin Opened
      BY <1>0, <2>2 DEF Remembered
    <3> QED
      BY <3>1, <3>2, <3>3 DEF Opened
  <2> QED
    BY <2>1, <2>2
<1>7. V!OpenedAt(x) <= V!OpenedAt(y)
  <2>1. V!Rank(x) \in 0..2 /\ V!OpenedAt(x) \in Nat /\ V!OpenedAt(y) \in Nat
    BY <1>0, RanksAreNumbers
  <2> QED
    BY <1>5, <2>1 DEF V!Before
<1> QED
  BY <1>3, <1>4, <1>6, <1>7

\* Among notes of one standing, a list shows first what has not been opened for
\* longest, until more revisions were opened than the history has room for.
THEOREM LongestUnseenComesFirst ==
    ASSUME V!ResurfacingAssumption
    PROVE  V!Spec => []V!LongestUnseenFirst
<1>1. V!Init => ResurfacingInv
  BY ResurfacingInit
<1>2. ResurfacingInv /\ [V!Next]_V!vars => ResurfacingInv'
  BY ResurfacingNext
<1>3. ResurfacingInv => V!LongestUnseenFirst
  BY ListedByOpening
<1> QED
  BY <1>1, <1>2, <1>3, PTL DEF V!Spec

\* A card is replaced by the step that holds the lock.
LEMMA PerspectivesReplace ==
    ASSUME V!ResurfacingAssumption, ResurfacingInv, V!Next \/ UNCHANGED V!vars
    PROVE  V!OnlyPerspectives
<1> SUFFICES ASSUME ResurfacingInv, V!Next \/ UNCHANGED V!vars, V!Replacing
             PROVE  \A k \in Notes : current'[k].units = current[k].units
  BY DEF V!OnlyPerspectives
<1>0. pc \in [Proc -> V!Pc]
  BY DEF ResurfacingInv, V!TypeOK
<1>1. PICK p \in Proc : pc[p] = "replace" /\ pc'[p] = "idle"
  BY DEF V!Replacing
<1>2. CASE \E q \in Proc : V!Replace(q)
  BY <1>2, ReplaceKeeps
<1>3. CASE \E q \in Proc : V!Resurface(q) \/ V!EnterOpen(q) \/ V!RecordOpen(q) \/ V!Card(q)
                           \/ V!Close(q) \/ V!Confirm(q) \/ V!Crash(q)
  BY <1>3 DEF V!Resurface, V!EnterOpen, V!RecordOpen, V!Card, V!Close, V!Confirm, V!Crash, V!files
<1>4. CASE (\E k \in Notes : V!Draft(k) \/ V!Review(k)) \/ V!Tick \/ UNCHANGED V!vars
  BY <1>1, <1>4, OthersOfRecords
<1> QED
  BY <1>2, <1>3, <1>4 DEF V!Next

\* Choosing perspectives changes nothing else of any record.
THEOREM PerspectivesAloneReplaced ==
    ASSUME V!ResurfacingAssumption
    PROVE  V!Spec => [][V!OnlyPerspectives]_V!vars
<1>1. V!Init => ResurfacingInv
  BY ResurfacingInit
<1>2. ResurfacingInv /\ [V!Next]_V!vars => ResurfacingInv'
  BY ResurfacingNext
<1>3. ResurfacingInv /\ [V!Next]_V!vars => [V!OnlyPerspectives]_V!vars
  BY PerspectivesReplace
<1> QED
  BY <1>1, <1>2, <1>3, PTL DEF V!Spec

-----------------------------------------------------------------------------
(* Doctor *)

\* The least of some numbers, as Doctor has it.
LEMMA LeastListed ==
    ASSUME NEW S \in SUBSET Nat, S # {}
    PROVE  D!Min(S) \in S /\ \A m \in S : D!Min(S) <= m
<1>1. D!Min(S) = X!Min(S)
  BY DEF D!Min, X!Min
<1> QED
  BY <1>1, LeastOf

\* What doctor has said is what it found on this machine.
DoctorInv == machine \in Machines /\ report \in {None, D!Issues(machine)}

LEMMA DoctorInit == D!Init => DoctorInv
BY DEF D!Init, DoctorInv

LEMMA DoctorNext == DoctorInv /\ [D!Next]_D!vars => DoctorInv'
BY DEF DoctorInv, D!Next, D!Diagnose, D!vars, D!Issues

\* A profiles file that can be read names a profile by default.
LEMMA DefaultIsThere ==
    ASSUME D!DoctorAssumption, NEW m \in Machines, D!Profiled(m)
    PROVE  D!Default(m) \in D!Profile
<1>1. m.profiles.named \in Seq(D!Profile \cup {None}) /\ m \in D!Machine
  BY DEF D!DoctorAssumption, D!Machine, D!Profiles
<1>2. /\ m.profiles.default \in DOMAIN m.profiles.named
      /\ m.profiles.named[m.profiles.default] # None
  BY DEF D!DoctorAssumption, D!Profiled
<1>3. m.profiles.named[m.profiles.default] \in D!Profile \cup {None}
  BY <1>1, <1>2
<1> QED
  BY <1>2, <1>3 DEF D!Default

\* What is selected, and with what.
LEMMA Selections ==
    ASSUME D!DoctorAssumption, NEW m \in Machines
    PROVE  LET s == D!Selected(m) IN
           \/ s.is = "error" /\ s.at = None /\ s.provider = None
           \/ /\ s.is = "unconfigured" /\ s.at = None /\ s.provider = None
              /\ m.profiles.state \in {"absent", "unreadable"}
           \/ s.is = "repository" /\ s.at \in Bases /\ s.provider = None
           \/ /\ s.is = "profile" /\ D!Profiled(m)
              /\ s.at = D!Default(m).repository /\ s.provider = D!Default(m).provider
              /\ s.at \in Bases /\ s.provider \in Inboxes
<1>1. /\ m.asked \in Bases \cup {None} /\ m.inside \in Bases \cup {None}
      /\ m.profiles.state \in {"absent", "unreadable", "malformed", "valid"}
  BY DEF D!DoctorAssumption, D!Machine, D!Profiles
<1>2. D!Ancestor(m) \in Bases \cup {None}
  BY <1>1 DEF D!Ancestor
<1>3. CASE m.asked # None
  BY <1>1, <1>3 DEF D!Selected, D!Repository, D!Selection
<1>4. CASE m.asked = None /\ D!Ancestor(m) # None
  BY <1>2, <1>4 DEF D!Selected, D!Repository, D!Selection
<1>5. CASE m.asked = None /\ D!Ancestor(m) = None /\ m.profiles.state = "malformed"
  BY <1>5 DEF D!Selected, D!Selection
<1>6. CASE m.asked = None /\ D!Ancestor(m) = None /\ m.profiles.state # "malformed" /\ ~D!Profiled(m)
  BY <1>1, <1>6 DEF D!Selected, D!Selection, D!Profiled
<1>7. CASE m.asked = None /\ D!Ancestor(m) = None /\ m.profiles.state # "malformed" /\ D!Profiled(m)
  <2>1. D!Default(m) \in D!Profile
    BY <1>7, DefaultIsThere
  <2>2. D!Selected(m) = D!Selection("profile", D!Default(m).repository, D!Default(m).provider)
    BY <1>7 DEF D!Selected
  <2> QED
    BY <1>7, <2>1, <2>2 DEF D!Selection, D!Profile
<1> QED
  BY <1>3, <1>4, <1>5, <1>6, <1>7

\* The profile that answers for a knowledge base, the default one if it does.
LEMMA FirstToAnswer ==
    ASSUME D!DoctorAssumption, NEW m \in Machines, D!Profiled(m), NEW r
    PROVE  /\ D!ProfileOf(m, r) \in D!Profile \cup {None}
           /\ D!Default(m).repository = r /\ m.config[r] # "gone" =>
                  D!ProfileOf(m, r) = D!Default(m)
<1>1. PICK d \in D!Profile : d = D!Default(m)
  BY DefaultIsThere
<1>2. PICK named \in Seq(D!Profile \cup {None}) : named = m.profiles.named
  BY DEF D!DoctorAssumption, D!Machine, D!Profiles
<1>3. PICK list : list = <<d>> \o named
  OBVIOUS
<1>4. list = D!Ordered(m)
  BY <1>1, <1>2, <1>3 DEF D!Ordered
<1>5. /\ list \in Seq(D!Profile \cup {None}) /\ list[1] = d
      /\ 1 \in DOMAIN list /\ DOMAIN list \subseteq Nat
      /\ \A k \in DOMAIN list : list[k] \in D!Profile \cup {None} /\ 1 <= k
  BY <1>2, <1>3
<1>6. PICK found : found = {k \in DOMAIN list : /\ list[k] # None /\ list[k].repository = r
                                                /\ m.config[r] # "gone"}
  OBVIOUS
<1>7. D!ProfileOf(m, r) = IF found = {} THEN None ELSE list[D!Min(found)]
  BY <1>4, <1>6 DEF D!ProfileOf
<1>8. found \subseteq DOMAIN list /\ found \subseteq Nat
  BY <1>5, <1>6
<1>9. found # {} => D!Min(found) \in found /\ \A k \in found : D!Min(found) <= k
  BY <1>8, LeastListed
<1>10. D!ProfileOf(m, r) \in D!Profile \cup {None}
  BY <1>5, <1>7, <1>8, <1>9
<1>11. ASSUME D!Default(m).repository = r, m.config[r] # "gone"
       PROVE  D!ProfileOf(m, r) = D!Default(m)
  <2>1. d # None
    BY DEF D!DoctorAssumption
  <2>2. 1 \in found
    BY <1>1, <1>5, <1>6, <1>11, <2>1
  <2>3. D!Min(found) = 1
    BY <1>5, <1>8, <1>9, <2>2
  <2> QED
    BY <1>1, <1>5, <1>7, <2>2, <2>3
<1> QED
  BY <1>10, <1>11

\* An Inbox that the profiles give is a directory.
LEMMA InboxOfProfiles ==
    ASSUME D!DoctorAssumption, NEW m \in Machines, NEW r
    PROVE  \/ D!ProfiledInbox(m, r) \in {None, "error"}
           \/ /\ D!ProfiledInbox(m, r) \in Inboxes /\ D!Directory(m, D!ProfiledInbox(m, r))
              /\ D!Profiled(m)
<1>1. m.profiles.state \in {"absent", "unreadable", "malformed", "valid"}
  BY DEF D!DoctorAssumption, D!Machine, D!Profiles
<1>2. CASE m.profiles.state # "valid"
  BY <1>1, <1>2 DEF D!ProfiledInbox, D!Profiled
<1>3. CASE m.profiles.state = "valid"
  <2>1. D!Profiled(m)
    BY <1>3 DEF D!Profiled
  <2>2. PICK found : found = D!ProfileOf(m, r)
    OBVIOUS
  <2>3. D!ProfiledInbox(m, r) = IF found = None THEN None
                                ELSE IF D!Directory(m, found.provider) THEN found.provider
                                ELSE "error"
    BY <1>3, <2>1, <2>2 DEF D!ProfiledInbox
  <2>4. found \in D!Profile \cup {None}
    BY <2>1, <2>2, FirstToAnswer
  <2>5. found # None => found.provider \in Inboxes
    BY <2>4 DEF D!Profile
  <2> QED
    BY <2>1, <2>3, <2>5
<1> QED
  BY <1>2, <1>3

\* A command has a knowledge base and an Inbox exactly when both are there, and
\* then doctor examines that Inbox.
LEMMA ResolvedIsExamined ==
    ASSUME D!DoctorAssumption, NEW m \in Machines
    PROVE  LET s == D!Selected(m)  i == D!Examined(m) IN
           /\ D!Resolved(m) # None =>
                  /\ s.at \in Bases /\ D!Compatible(m, s.at)
                  /\ i \in Inboxes /\ D!Directory(m, i)
                  /\ D!Resolved(m) = [at |-> s.at, provider |-> i]
           /\ D!Resolved(m) = None =>
                  \/ s.at = None
                  \/ ~D!Compatible(m, s.at)
                  \/ s.is = "repository" /\ i = None
                  \/ i \in Inboxes /\ ~D!Directory(m, i)
<1> DEFINE s == D!Selected(m)
           i == D!Examined(m)
           provider == CASE s.is = "repository" -> D!InboxOf(m, s.at)
                         [] s.is = "profile" -> D!InboxOfProfile(m, s)
                         [] OTHER -> "error"
<1>1. D!Resolved(m) = IF s.at # None /\ D!Compatible(m, s.at) /\ provider \notin {None, "error"}
                      THEN [at |-> s.at, provider |-> provider] ELSE None
  BY DEF D!Resolved
<1>2. m.env \in Inboxes \cup {None} /\ None \notin Inboxes /\ "error" \notin Inboxes /\ None \notin Bases
  BY DEF D!DoctorAssumption, D!Machine
<1>3. i = CASE s.is = "repository" ->
                   IF ~D!Compatible(m, s.at) THEN None
                   ELSE IF m.env # None THEN m.env
                   ELSE IF D!ProfiledInbox(m, s.at) = "error" THEN None
                   ELSE D!ProfiledInbox(m, s.at)
            [] s.is = "profile" -> s.provider
            [] OTHER -> None
  BY DEF D!Examined
<1>4. s.at \in Bases /\ i \in Inboxes => [at |-> s.at, provider |-> i] # None
  BY DEF D!DoctorAssumption
<1> HIDE DEF s, i, provider
<1>5. CASE s.is = "error" \/ s.is = "unconfigured"
  <2>1. s.at = None
    BY <1>5, Selections DEF s
  <2> QED
    BY <1>1, <2>1 DEF s, i
<1>6. CASE s.is = "repository"
  <2>1. s.at \in Bases /\ s.at # None
    BY <1>2, <1>6, Selections DEF s
  <2>2. provider = D!InboxOf(m, s.at)
    BY <1>6 DEF provider
  <2>3. CASE ~D!Compatible(m, s.at)
    BY <1>1, <2>3 DEF s, i
  <2>4. CASE D!Compatible(m, s.at) /\ m.env # None
    <3>1. i = m.env /\ i \in Inboxes /\ provider = IF D!Directory(m, i) THEN i ELSE "error"
      BY <1>2, <1>3, <1>6, <2>2, <2>4 DEF D!InboxOf
    <3> QED
      BY <1>1, <1>2, <1>4, <2>1, <2>4, <3>1 DEF s, i
  <2>5. CASE D!Compatible(m, s.at) /\ m.env = None
    <3>1. provider = D!ProfiledInbox(m, s.at)
      BY <2>2, <2>5 DEF D!InboxOf
    <3>2. i = IF provider = "error" THEN None ELSE provider
      BY <1>3, <1>6, <2>5, <3>1
    <3>3. provider \in {None, "error"} \/ (provider \in Inboxes /\ D!Directory(m, provider))
      BY <3>1, InboxOfProfiles
    <3> QED
      BY <1>1, <1>2, <1>4, <1>6, <2>1, <2>5, <3>2, <3>3 DEF s, i
  <2> QED
    BY <2>3, <2>4, <2>5
<1>7. CASE s.is = "profile"
  <2>1. s.at \in Bases /\ s.at # None /\ s.provider \in Inboxes
    BY <1>2, <1>7, Selections DEF s
  <2>2. i = s.provider /\ provider = IF D!Directory(m, i) THEN i ELSE "error"
    BY <1>3, <1>7 DEF provider, D!InboxOfProfile
  <2> QED
    BY <1>1, <1>2, <1>4, <2>1, <2>2 DEF s, i
<1> QED
  BY <1>5, <1>6, <1>7, Selections DEF s

\* Nothing that is looked at in a directory, around Git or among the locks says
\* that something is not configured.
LEMMA OtherIssues ==
    ASSUME D!DoctorAssumption, NEW m \in Machines, NEW r, NEW p
    PROVE  LET configured == {"profile_missing", "profile_unreadable",
                              "repository_incompatible", "provider_missing"} IN
           /\ configured \cap D!RunningIssues(m, r) = {}
           /\ configured \cap D!BackupIssues(m, r) = {}
           /\ D!Directory(m, p) => configured \cap D!ProviderIssues(m, p) = {}
           /\ ~D!Directory(m, p) => "provider_missing" \in D!ProviderIssues(m, p)
<1> DEFINE configured == {"profile_missing", "profile_unreadable",
                          "repository_incompatible", "provider_missing"}
<1>1. configured \cap D!RunningIssues(m, r) = {}
  <2>1. D!HookIssues(m, r) \subseteq {"hook_incompatible", "hook_missing", "hook_conflict", "hook_unreadable"}
    BY DEF D!HookIssues
  <2>2. \A state : D!LockIssue(state) \in {"stale_lock", "lock_active", "lock_unreadable"}
    BY DEF D!LockIssue
  <2> QED
    BY <2>1, <2>2 DEF D!RunningIssues
<1>2. configured \cap D!BackupIssues(m, r) = {}
  BY DEF D!BackupIssues
<1>3. ASSUME D!Directory(m, p) PROVE configured \cap D!ProviderIssues(m, p) = {}
  <2>1. \A kind : D!EntryIssue(kind) \in {"provider_hydration_failed", "provider_pdf_corrupt",
                                          "provider_pdf_unreadable", "provider_inspection_failed"}
    BY DEF D!EntryIssue
  <2>2. \A access, x, y : D!AccessIssues(access, x, y) \subseteq {x, y}
    BY DEF D!AccessIssues
  <2>3. D!IdentityIssues(m, p) \in {{}, {"provider_root_invalid"}}
    BY <1>3 DEF D!IdentityIssues, D!Directory
  <2>4. \A c \in D!ProviderIssues(m, p) :
            c \in {"provider_root_invalid", "provider_unreadable", "provider_read_inspection_failed",
                   "provider_unwritable", "provider_write_inspection_failed",
                   "provider_hydration_failed", "provider_pdf_corrupt",
                   "provider_pdf_unreadable", "provider_inspection_failed"}
    BY <2>1, <2>2, <2>3 DEF D!ProviderIssues
  <2> QED
    BY <2>4
<1>4. ASSUME ~D!Directory(m, p) PROVE "provider_missing" \in D!ProviderIssues(m, p)
  <2>1. D!IdentityIssues(m, p) = {"provider_missing"}
    BY <1>4 DEF D!IdentityIssues, D!Directory
  <2> QED
    BY <2>1 DEF D!ProviderIssues
<1> QED
  BY <1>1, <1>2, <1>3, <1>4

\* What is among the first five kinds of issues comes before all others, and is
\* a matter of configuration.
LEMMA ConfigureFirst ==
    ASSUME NEW issues,
           issues \cap {"profile_missing", "profile_unreadable",
                        "repository_incompatible", "provider_missing"} # {}
    PROVE  D!NextAction(issues) = "configure"
<1>1. /\ D!Priority[1] = "profile_missing" /\ D!Priority[2] = "profile_unreadable"
      /\ D!Priority[3] = "repository_incompatible" /\ D!Priority[4] = "provider_root_invalid"
      /\ D!Priority[5] = "provider_missing" /\ DOMAIN D!Priority = 1..22
  BY DEF D!Priority
<1> DEFINE among == {i \in DOMAIN D!Priority : D!Priority[i] \in issues}
<1>2. \E k \in 1..5 : k \in among
  BY <1>1
<1>3. among \in SUBSET Nat /\ among \subseteq 1..22
  BY <1>1
<1> HIDE DEF among
<1>4. D!Min(among) \in among /\ \A k \in among : D!Min(among) <= k
  BY <1>2, <1>3, LeastListed
<1>5. D!Min(among) \in 1..5
  <2>1. PICK k \in 1..5 : k \in among
    BY <1>2
  <2>2. PICK least \in 1..22 : least = D!Min(among)
    BY <1>3, <1>4
  <2>3. least <= k
    BY <1>4, <2>1, <2>2
  <2> QED
    BY <2>2, <2>3
<1>6. D!Primary(issues) = D!Priority[D!Min(among)]
  BY DEF D!Primary, among
<1>7. D!Primary(issues) \in {"profile_missing", "profile_unreadable", "repository_incompatible",
                             "provider_root_invalid", "provider_missing"}
  BY <1>1, <1>5, <1>6
<1>8. D!Action(D!Primary(issues)) = "configure"
  BY <1>7 DEF D!Action
<1> QED
  BY <1>8 DEF D!NextAction

\* What the diagnosis says of the four ways in which something is not configured.
LEMMA ConfiguredIssues ==
    ASSUME D!DoctorAssumption, NEW m \in Machines
    PROVE  LET s == D!Selected(m)
               i == D!Examined(m)
               configured == {"profile_missing", "profile_unreadable",
                              "repository_incompatible", "provider_missing"}
           IN
           /\ D!Resolved(m) = None => configured \cap D!Issues(m) # {}
           /\ D!Resolved(m) # None =>
                  D!Issues(m) \cap {"repository_incompatible", "provider_missing"} = {}
<1> DEFINE s == D!Selected(m)
           i == D!Examined(m)
<1>1. D!Issues(m) =
          D!ProfileIssues(m) \cup D!RepositoryIssues(m)
          \cup (IF i = None THEN {} ELSE D!ProviderIssues(m, i))
          \cup (IF s.at = None \/ ~D!Compatible(m, s.at) THEN {}
                ELSE D!BackupIssues(m, s.at) \cup D!RunningIssues(m, s.at))
  BY DEF D!Issues
<1>2. None \notin Inboxes /\ None \notin Bases
  BY DEF D!DoctorAssumption
<1>3. D!RepositoryIssues(m) =
          CASE s.is = "unconfigured" -> {}
            [] s.is = "error" -> {"repository_incompatible"}
            [] s.is = "repository" /\ D!Compatible(m, s.at) ->
                   IF i = None THEN {"provider_missing"} ELSE {}
            [] s.is = "profile" /\ D!Compatible(m, s.at) -> {}
            [] OTHER -> {"repository_incompatible"}
  BY DEF D!RepositoryIssues
<1>4. D!ProfileIssues(m) \subseteq {"profile_missing", "profile_unreadable"}
  <2>1. m.profiles.state \in {"absent", "unreadable", "malformed", "valid"}
    BY DEF D!DoctorAssumption, D!Machine, D!Profiles
  <2> QED
    BY <2>1 DEF D!ProfileIssues, D!Profiled
<1>5. ASSUME D!Resolved(m) = None
      PROVE  \E c \in {"profile_missing", "profile_unreadable",
                       "repository_incompatible", "provider_missing"} : c \in D!Issues(m)
  <2>1. \/ s.at = None
        \/ ~D!Compatible(m, s.at)
        \/ s.is = "repository" /\ i = None
        \/ i \in Inboxes /\ ~D!Directory(m, i)
    BY <1>5, ResolvedIsExamined
  <2>2. \/ s.is = "error" /\ s.at = None
        \/ s.is = "unconfigured" /\ s.at = None /\ m.profiles.state \in {"absent", "unreadable"}
        \/ s.is \in {"repository", "profile"} /\ s.at \in Bases
    BY Selections DEF s
  <2> HIDE DEF s, i
  <2>3. CASE s.is = "error"
    BY <1>1, <1>3, <2>3
  <2>4. CASE s.is = "unconfigured"
    <3>1. D!ProfileIssues(m) \in {{"profile_missing"}, {"profile_unreadable"}}
      <4>1. m.profiles.state \in {"absent", "unreadable"}
        BY <2>2, <2>4
      <4> QED
        BY <4>1 DEF D!ProfileIssues, D!Profiled
    <3> QED
      BY <1>1, <3>1
  <2>5. CASE s.is \in {"repository", "profile"} /\ ~D!Compatible(m, s.at)
    BY <1>1, <1>3, <2>5
  <2>6. CASE s.is = "repository" /\ i = None /\ D!Compatible(m, s.at)
    BY <1>1, <1>3, <2>6
  <2>7. CASE i \in Inboxes /\ ~D!Directory(m, i)
    <3>1. "provider_missing" \in D!ProviderIssues(m, i)
      BY <2>7, OtherIssues
    <3> QED
      BY <1>1, <1>2, <2>7, <3>1
  <2> QED
    BY <1>2, <2>1, <2>2, <2>3, <2>4, <2>5, <2>6, <2>7
<1>6. ASSUME D!Resolved(m) # None, NEW c \in {"repository_incompatible", "provider_missing"}
      PROVE  c \notin D!Issues(m)
  <2>1. /\ s.at \in Bases /\ D!Compatible(m, s.at)
        /\ i \in Inboxes /\ D!Directory(m, i)
    BY <1>6, ResolvedIsExamined
  <2>2. s.is \in {"repository", "profile"}
    BY <1>2, <2>1, Selections DEF s
  <2> HIDE DEF s, i
  <2>3. c \notin D!RunningIssues(m, s.at) /\ c \notin D!BackupIssues(m, s.at)
        /\ c \notin D!ProviderIssues(m, i)
    BY <2>1, OtherIssues
  <2>4. D!RepositoryIssues(m) = {}
    BY <1>2, <1>3, <2>1, <2>2
  <2> QED
    BY <1>1, <1>4, <2>3, <2>4
<1> QED
  BY <1>5, <1>6

\* After setup the default profile is what is selected, in the one way or the
\* other, and nothing is wrong with it.
LEMMA SetupLasts ==
    ASSUME D!DoctorAssumption, NEW m \in Machines, D!JustSetUp(m)
    PROVE  /\ D!Issues(m) = {}
           /\ D!Resolved(m) = [at |-> D!Default(m).repository, provider |-> D!Default(m).provider]
<1> DEFINE s == D!Selected(m)
           i == D!Examined(m)
<1>1. PICK r \in Bases, p \in Inboxes : r = D!Default(m).repository /\ p = D!Default(m).provider
  BY DefaultIsThere DEF D!JustSetUp, D!Profile
<1>2. /\ D!Profiled(m) /\ m.config[r] = "v1"
      /\ D!ProviderIssues(m, p) = {} /\ D!RunningIssues(m, r) = {}
      /\ m.asked \in {None, r} /\ D!Ancestor(m) \in {None, r} /\ m.env \in {None, p}
  BY <1>1 DEF D!JustSetUp, D!SetupIssues
<1>3. D!Compatible(m, r) /\ None \notin Bases \cup Inboxes
  BY <1>2 DEF D!Compatible, D!DoctorAssumption
<1>4. D!Directory(m, p)
  BY <1>2, OtherIssues
<1>5. D!ProfiledInbox(m, r) = p
  <2>1. D!Default(m) \in D!Profile /\ None \notin D!Profile
    BY <1>2, DefaultIsThere DEF D!DoctorAssumption
  <2>2. D!ProfileOf(m, r) = D!Default(m)
    BY <1>1, <1>2, FirstToAnswer
  <2>3. m.profiles.state = "valid"
    BY <1>2 DEF D!Profiled
  <2> QED
    BY <1>1, <1>2, <1>4, <2>1, <2>2, <2>3 DEF D!ProfiledInbox
<1>6. s = D!Selection("repository", r, None) \/ s = D!Selection("profile", r, p)
  <2>1. m.profiles.state = "valid"
    BY <1>2 DEF D!Profiled
  <2> QED
    BY <1>1, <1>2, <1>3, <2>1 DEF D!Selected, D!Repository
<1>7. s.at = r /\ (s.is = "repository" \/ (s.is = "profile" /\ s.provider = p))
  <2> HIDE DEF s
  <2> QED
    BY <1>6 DEF D!Selection
<1>8. i = p
  <2>1. "error" \notin Inboxes
    BY DEF D!DoctorAssumption
  <2> QED
    BY <1>2, <1>3, <1>5, <1>7, <2>1 DEF D!Examined
<1>9. D!Issues(m) = {}
  <2>1. D!ProfileIssues(m) = {}
    <3>1. m.profiles.state = "valid"
      BY <1>2 DEF D!Profiled
    <3> QED
      BY <1>2, <3>1 DEF D!ProfileIssues
  <2>2. D!RepositoryIssues(m) = {}
    BY <1>3, <1>7, <1>8 DEF D!RepositoryIssues
  <2>3. D!BackupIssues(m, r) = {}
    BY <1>2 DEF D!BackupIssues
  <2> QED
    BY <1>2, <1>3, <1>7, <1>8, <2>1, <2>2, <2>3 DEF D!Issues
<1>10. D!Resolved(m) # None
  <2> SUFFICES ASSUME D!Resolved(m) = None PROVE FALSE
    OBVIOUS
  <2>1. \/ s.at = None
        \/ ~D!Compatible(m, s.at)
        \/ s.is = "repository" /\ i = None
        \/ i \in Inboxes /\ ~D!Directory(m, i)
    BY ResolvedIsExamined
  <2> HIDE DEF s, i
  <2> QED
    BY <1>3, <1>4, <1>7, <1>8, <2>1
<1>11. D!Resolved(m) = [at |-> s.at, provider |-> i]
  BY <1>10, ResolvedIsExamined
<1> HIDE DEF s, i
<1> QED
  BY <1>1, <1>7, <1>8, <1>9, <1>11

\* A report that is there is of the machine as it is.
LEMMA DoctorReports ==
    ASSUME D!DoctorAssumption, DoctorInv
    PROVE  D!DoctorIsTrue
<1> SUFFICES ASSUME DoctorInv, report # None PROVE D!DoctorIsTrue
  BY DEF D!DoctorIsTrue
<1>1. machine \in Machines /\ report = D!Issues(machine)
  BY DEF DoctorInv
<1>2. ASSUME D!Resolved(machine) = None PROVE report # {} /\ D!NextAction(report) = "configure"
  BY <1>1, <1>2, ConfiguredIssues, ConfigureFirst
<1>3. ASSUME D!Resolved(machine) # None
      PROVE  /\ D!Resolved(machine).provider = D!Examined(machine)
             /\ report \cap {"repository_incompatible", "provider_missing"} = {}
  BY <1>1, <1>3, ConfiguredIssues, ResolvedIsExamined
<1>4. ASSUME D!JustSetUp(machine)
      PROVE  /\ report = {}
             /\ D!Resolved(machine) = [at |-> D!Default(machine).repository,
                                       provider |-> D!Default(machine).provider]
  BY <1>1, <1>4, SetupLasts
<1> QED
  BY <1>2, <1>3, <1>4 DEF D!DoctorIsTrue

\* On every machine: a machine that doctor calls healthy gives every command the
\* knowledge base and the Inbox that were examined, one that gives none is said
\* to need configuration before anything else, what a command can work on is
\* never called missing, and what setup left in order doctor finds in order.
THEOREM DoctorSaysWhatCommandsDo ==
    ASSUME D!DoctorAssumption
    PROVE  D!Spec => []D!DoctorIsTrue
<1>1. D!Init => DoctorInv
  BY DoctorInit
<1>2. DoctorInv /\ [D!Next]_D!vars => DoctorInv'
  BY DoctorNext
<1>3. DoctorInv => D!DoctorIsTrue
  BY DoctorReports
<1> QED
  BY <1>1, <1>2, <1>3, PTL DEF D!Spec

-----------------------------------------------------------------------------
(* Grounding *)

\* A span that is accepted names at least one byte, and only bytes of the text.
LEMMA SpanNames ==
    ASSUME NEW t \in G!TextBlock, NEW s \in G!Span, G!SpanInside(t, s)
    PROVE G!Has(t, s)
<1>1. /\ s.start \in Nat /\ s.end \in Nat /\ t.length \in Nat
      /\ s.start < s.end /\ s.end <= t.length
  BY DEF G!SpanInside, G!Span, G!TextBlock
<1>2. s.start \in G!Bytes(s)
  BY <1>1 DEF G!Bytes
<1>3. ASSUME NEW k \in G!Bytes(s) PROVE k < t.length
  BY <1>1, <1>3 DEF G!Bytes
<1> QED
  BY <1>2, <1>3 DEF G!Has

\* A range that is accepted names at least one cell, and only cells of the table,
\* also when its rows differ in length.
LEMMA RangeNames ==
    ASSUME NEW t \in G!Table, NEW r \in G!Range, G!RangeInside(t, r)
    PROVE G!HasCells(t, r)
<1>1. /\ r.row \in Nat /\ r.toRow \in Nat /\ r.column \in Nat /\ r.toColumn \in Nat
      /\ t.rows \in Seq(Nat) /\ Len(t.rows) \in Nat
  BY DEF G!Range, G!Table
<1>2. /\ r.row < r.toRow /\ r.toRow <= Len(t.rows) /\ r.column < r.toColumn
      /\ \A i \in (r.row + 1) .. r.toRow : r.toColumn <= t.rows[i]
  BY DEF G!RangeInside
<1>3. <<r.row, r.column>> \in G!Cells(r)
  BY <1>1, <1>2 DEF G!Cells
<1>4. ASSUME NEW x \in G!Cells(r)
      PROVE  x[1] < Len(t.rows) /\ x[2] < t.rows[x[1] + 1]
  <2> DEFINE i == x[1]
             j == x[2]
  <2>1. i \in r.row .. (r.toRow - 1) /\ j \in r.column .. (r.toColumn - 1)
    BY <1>4 DEF G!Cells
  <2> HIDE DEF i, j
  <2>2. /\ i \in Nat /\ r.row <= i /\ i < r.toRow
        /\ j \in Nat /\ j < r.toColumn
    BY <1>1, <2>1
  <2>3. i + 1 \in (r.row + 1) .. r.toRow /\ i + 1 \in 1 .. Len(t.rows)
    BY <1>1, <1>2, <2>2
  <2>4. t.rows[i + 1] \in Nat
    BY <1>1, <2>3
  <2>5. r.toColumn <= t.rows[i + 1]
    BY <1>2, <2>3
  <2>6. i < Len(t.rows)
    BY <1>1, <1>2, <2>2
  <2>7. j < t.rows[i + 1]
    BY <1>1, <2>2, <2>4, <2>5
  <2> QED
    BY <2>6, <2>7 DEF i, j
<1> QED
  BY <1>3, <1>4 DEF G!HasCells

\* A reference that resolves in a prepared text names something of it.
LEMMA ResolvingNames ==
    ASSUME NEW b \in Bundles, NEW ref \in G!Ref, G!Resolves(b, ref)
    PROVE G!Names(b, ref)
<1>1. ref.block \in DOMAIN b /\ b[ref.block] \in G!Blocks
  BY GroundingAssumed DEF G!GroundingAssumption, G!Resolves
<1>2. ASSUME ref.span # None PROVE G!Has(b[ref.block], ref.span)
  <2>1. b[ref.block].is = "text" /\ G!SpanInside(b[ref.block], ref.span) /\ ref.span \in G!Span
    BY <1>2 DEF G!Resolves, G!Ref
  <2>2. b[ref.block] \in G!TextBlock
    BY <1>1, <2>1 DEF G!Blocks, G!TextBlock, G!Table, G!Image
  <2> QED
    BY <2>1, <2>2, SpanNames
<1>3. ASSUME ref.range # None PROVE G!HasCells(b[ref.block], ref.range)
  <2>1. b[ref.block].is = "table" /\ G!RangeInside(b[ref.block], ref.range) /\ ref.range \in G!Range
    BY <1>3 DEF G!Resolves, G!Ref
  <2>2. b[ref.block] \in G!Table
    BY <1>1, <2>1 DEF G!Blocks, G!TextBlock, G!Table, G!Image
  <2> QED
    BY <2>1, <2>2, RangeNames
<1> QED
  BY <1>1, <1>2, <1>3 DEF G!Names

\* The invariant of a step that files a revision: what it is, and that it meets
\* the policy it is filed under.
Cites(units, bundle) ==
    \A u \in units :
        /\ u.kind \in G!Kind /\ G!Layer(u.kind) = "grounded_evidence" =>
               u.refs # {} /\ u.basis # "model"
        /\ u.kind = "claim" => u.refs # {}
        /\ \A ref \in u.refs : G!Names(bundle, ref)

LEMMA KnowledgeCites ==
    ASSUME NEW b \in Bundles, NEW units \in Responses, NEW policy,
           G!Acceptable(b, units, policy)
    PROVE  Cites(units, b)
<1> SUFFICES ASSUME NEW u \in units
             PROVE  /\ u.kind \in G!Kind /\ G!Layer(u.kind) = "grounded_evidence" =>
                           u.refs # {} /\ u.basis # "model"
                    /\ u.kind = "claim" => u.refs # {}
                    /\ \A ref \in u.refs : G!Names(b, ref)
  BY DEF Cites
<1>1. u \in G!Unit /\ G!Grounded(u) /\ \A ref \in u.refs : G!Resolves(b, ref)
  BY GroundingAssumed DEF G!GroundingAssumption, G!Acceptable
<1>2. G!Layer(u.kind) = "grounded_evidence" => u.kind \in G!OwnWords
  BY <1>1 DEF G!Layer, G!Unit, G!Kind, G!OwnWords, G!Open
<1>3. u.kind # "claim"
  BY <1>1 DEF G!Unit, G!Kind, G!OwnWords, G!Open
<1>4. \A ref \in u.refs : G!Names(b, ref)
  BY <1>1, ResolvingNames DEF G!Unit
<1> QED
  BY <1>1, <1>2, <1>3, <1>4 DEF G!Grounded

LEMMA SourceCites ==
    ASSUME NEW b \in Bundles, NEW claims \in Answers,
           G!AcceptableSource(b, claims)
    PROVE  Cites(claims, b)
<1> SUFFICES ASSUME NEW u \in claims
             PROVE  /\ u.kind \notin G!Kind
                    /\ u.kind = "claim" => u.refs # {}
                    /\ \A ref \in u.refs : G!Names(b, ref)
  BY DEF Cites
<1>1. u \in G!Claim
  BY GroundingAssumed DEF G!GroundingAssumption
<1>2. u.kind \notin G!Kind
  BY <1>1 DEF G!Claim, G!Kind, G!OwnWords, G!Open
<1>3. /\ u.kind = "claim" => u.refs # {}
      /\ \A ref \in u.refs : G!Resolves(b, ref)
  BY DEF G!AcceptableSource
<1> QED
  BY <1>1, <1>2, <1>3, ResolvingNames DEF G!Claim

LEMMA GroundingInit == G!Init => G!TypeOK /\ G!GroundedInText
BY DEF G!Init, G!TypeOK, G!Policy, G!GroundedInText

LEMMA GroundedStep ==
    ASSUME G!GroundedInText, G!Next \/ UNCHANGED G!vars PROVE G!GroundedInText'
<1>1. G!GroundedInText' <=>
          (filed' # None => Cites(filed'.units, filed'.basis) /\ G!Meets(filed'.units, filed'.policy))
  BY DEF G!GroundedInText, Cites
<1>2. ASSUME NEW b \in Bundles, NEW units \in Responses, G!WriteKnowledge(b, units)
      PROVE G!GroundedInText'
  <2>1. Cites(units, b) /\ G!Meets(units, default)
    BY <1>2, KnowledgeCites DEF G!WriteKnowledge, G!Acceptable
  <2>2. filed'.units = units /\ filed'.basis = b /\ filed'.policy = default
    BY <1>2 DEF G!WriteKnowledge, G!File
  <2> QED
    BY <1>1, <2>1, <2>2
<1>3. ASSUME NEW b \in Bundles, NEW claims \in Answers, G!WriteSource(b, claims)
      PROVE G!GroundedInText'
  <2>1. Cites(claims, b)
    BY <1>3, SourceCites DEF G!WriteSource
  <2>2. filed'.units = claims /\ filed'.basis = b /\ filed'.policy = "standard"
    BY <1>3 DEF G!WriteSource, G!File
  <2> QED
    BY <1>1, <2>1, <2>2 DEF G!Meets
<1>4. ASSUME NEW perspectives \in SUBSET G!Perspective, G!Confirm(perspectives)
      PROVE G!GroundedInText'
  <2>1. /\ filed # None
        /\ filed'.units = filed.units /\ filed'.basis = filed.basis
        /\ filed'.policy = G!PolicyFor(perspectives)
        /\ G!Meets(filed.units, G!PolicyFor(perspectives))
    BY <1>4 DEF G!Confirm, G!File
  <2>2. Cites(filed.units, filed.basis)
    BY <2>1 DEF G!GroundedInText, Cites
  <2> QED
    BY <1>1, <2>1, <2>2
<1>5. CASE G!EditDefault
  BY <1>5 DEF G!EditDefault, G!GroundedInText
<1>6. CASE UNCHANGED G!vars
  BY <1>6 DEF G!vars, G!GroundedInText
<1> QED
  BY <1>2, <1>3, <1>4, <1>5, <1>6 DEF G!Next

LEMMA FiledStep ==
    ASSUME G!TypeOK, G!Next \/ UNCHANGED G!vars PROVE G!TypeOK'
<1> USE DEF G!TypeOK, G!Revision, G!File
<1>1. ASSUME NEW b \in Bundles, NEW units \in Responses, G!WriteKnowledge(b, units)
      PROVE G!TypeOK'
  BY <1>1 DEF G!WriteKnowledge
<1>2. ASSUME NEW b \in Bundles, NEW claims \in Answers, G!WriteSource(b, claims)
      PROVE G!TypeOK'
  BY <1>2 DEF G!WriteSource, G!Policy
<1>3. ASSUME NEW perspectives \in SUBSET G!Perspective, G!Confirm(perspectives)
      PROVE G!TypeOK'
  <2>1. G!PolicyFor(perspectives) \in G!Policy
    BY DEF G!PolicyFor, G!Policy
  <2> QED
    BY <1>3, <2>1 DEF G!Confirm
<1>4. CASE G!EditDefault
  BY <1>4 DEF G!EditDefault, G!Policy
<1>5. CASE UNCHANGED G!vars
  BY <1>5 DEF G!vars
<1> QED
  BY <1>1, <1>2, <1>3, <1>4, <1>5 DEF G!Next

LEMMA GroundingNext ==
    G!TypeOK /\ G!GroundedInText /\ [G!Next]_G!vars => G!TypeOK' /\ G!GroundedInText'
BY GroundedStep, FiledStep

\* write_knowledge_record_v2, write_source_record_v2 and the choice of
\* perspectives: whatever agents answer, what is shown as grounded evidence
\* cites the text it was made from, and a high-risk revision is complete.
THEOREM CitationsResolve == G!Spec => []G!GroundedInText
BY GroundingInit, GroundingNext, PTL DEF G!Spec

-----------------------------------------------------------------------------
(* Types: what is in each file is of the kind its reader expects. *)

\* ReviewSessions: what a session holds is a revision and what was shown of it.
THEOREM SessionsTypes == ASSUME R!SessionsAssumption PROVE R!Spec => []R!TypeOK
<1>1. SessionsInv => R!TypeOK
  BY DEF SessionsInv
<1> QED
  BY <1>1, SessionsInit, SessionsNext, PTL DEF R!Spec

\* Migration: the tree and what is committed are trees of either contract.
THEOREM MigrationTypes == ASSUME M!MigrationAssumption PROVE M!Spec => []M!TypeOK
<1>1. MigrationInv => M!TypeOK
  BY DEF MigrationInv
<1> QED
  BY <1>1, MigrationInit, MigrationNext, PTL DEF M!Spec

\* KnowledgeNotes: what is moved aside and moved back is a note.
THEOREM NotesTypes == ASSUME K!NotesAssumption PROVE K!Spec => []K!TypeOK
<1>1. NotesInv => K!TypeOK
  BY DEF NotesInv
<1> QED
  BY <1>1, NotesInit, NotesNext, PTL DEF K!Spec

\* Setup: what a plan holds is a world that was seen.
THEOREM SetupTypes == ASSUME U!SetupAssumption PROVE U!Spec => []U!TypeOK
<1>1. SetupInv => U!TypeOK
  BY DEF SetupInv
<1> QED
  BY <1>1, SetupInit, SetupNext, PTL DEF U!Spec

\* Imports: a name of the folder has one content, complete.
THEOREM ImportsTypes == ASSUME A!ImportsAssumption PROVE A!Spec => []A!TypeOK
<1>1. ImportsInv => A!TypeOK
  BY DEF ImportsInv
<1> QED
  BY <1>1, ImportsInit, ImportsNext, PTL DEF A!Spec

\* Inbox: what a scan and a batch make of the folder.
THEOREM InboxTypes == ASSUME X!InboxAssumption PROVE X!Spec => []X!TypeOK
<1>1. InboxInv => X!TypeOK
  BY DEF InboxInv
<1> QED
  BY <1>1, InboxInit, InboxNext, PTL DEF X!Spec

\* Logs: the log is a sequence of parts of lines, and what is named by its text
\* exists once.
THEOREM LogsTypes == ASSUME L!LogsAssumption PROVE L!Spec => []L!TypeOK
<1>1. LogsInv => L!TypeOK
  BY DEF LogsInv
<1> QED
  BY <1>1, LogsInit, LogsNext, PTL DEF L!Spec

\* Resurfacing: a note has one decision at most and a revision one entry in the
\* history, which never holds more than it may (validate_history).
THEOREM ResurfacingTypes == ASSUME V!ResurfacingAssumption PROVE V!Spec => []V!TypeOK
<1>1. ResurfacingInv => V!TypeOK
  BY DEF ResurfacingInv
<1> QED
  BY <1>1, ResurfacingInit, ResurfacingNext, PTL DEF V!Spec

\* Whatever doctor finds has a place in the order in which it advises.
LEMMA IssuesHaveCodes ==
    ASSUME D!DoctorAssumption, NEW m \in Machines
    PROVE  D!Issues(m) \subseteq D!Codes
<1> DEFINE All == {"profile_missing", "profile_unreadable", "repository_incompatible",
                   "provider_missing", "provider_root_invalid", "provider_unreadable",
                   "provider_read_inspection_failed", "provider_unwritable",
                   "provider_write_inspection_failed", "provider_hydration_failed",
                   "provider_pdf_corrupt", "provider_pdf_unreadable",
                   "provider_inspection_failed", "git_backup_missing", "git_remote_missing",
                   "hook_incompatible", "hook_missing", "hook_conflict", "hook_unreadable",
                   "stale_lock", "lock_active", "lock_unreadable"}
<1>1. All \subseteq D!Codes
  <2>1. DOMAIN D!Priority = 1..22
    BY DEF D!Priority
  <2>2. /\ D!Priority[1] = "profile_missing" /\ D!Priority[2] = "profile_unreadable"
       /\ D!Priority[3] = "repository_incompatible" /\ D!Priority[4] = "provider_root_invalid"
       /\ D!Priority[5] = "provider_missing" /\ D!Priority[6] = "provider_unreadable"
       /\ D!Priority[7] = "provider_read_inspection_failed" /\ D!Priority[8] = "provider_unwritable"
       /\ D!Priority[9] = "provider_write_inspection_failed" /\ D!Priority[10] = "provider_pdf_unreadable"
       /\ D!Priority[11] = "provider_pdf_corrupt" /\ D!Priority[12] = "provider_inspection_failed"
       /\ D!Priority[13] = "provider_hydration_failed" /\ D!Priority[14] = "hook_conflict"
       /\ D!Priority[15] = "hook_incompatible" /\ D!Priority[16] = "hook_missing"
       /\ D!Priority[17] = "hook_unreadable" /\ D!Priority[18] = "stale_lock"
       /\ D!Priority[19] = "lock_unreadable" /\ D!Priority[20] = "lock_active"
       /\ D!Priority[21] = "git_remote_missing" /\ D!Priority[22] = "git_backup_missing"
    BY DEF D!Priority
  <2>3. \A i \in 1..22 : D!Priority[i] \in D!Codes
    BY <2>1 DEF D!Codes
  <2> QED
    BY <2>2, <2>3
<1>2. D!ProfileIssues(m) \subseteq All
  <2>1. m.profiles.state \in {"absent", "unreadable", "malformed", "valid"}
    BY DEF D!DoctorAssumption, D!Machine, D!Profiles
  <2> QED
    BY <2>1 DEF D!ProfileIssues, D!Profiled
<1>3. D!RepositoryIssues(m) \subseteq All
  BY DEF D!RepositoryIssues
<1>4. ASSUME NEW p PROVE D!ProviderIssues(m, p) \subseteq All
  <2>1. D!IdentityIssues(m, p) \subseteq All
    BY DEF D!IdentityIssues
  <2>2. \A kind : D!EntryIssue(kind) \in All
    BY DEF D!EntryIssue
  <2>3. \A denied, unclear \in All : \A access : D!AccessIssues(access, denied, unclear) \subseteq All
    BY DEF D!AccessIssues
  <2>4. \A code \in {"provider_unreadable", "provider_read_inspection_failed",
                     "provider_unwritable", "provider_write_inspection_failed"} : code \in All
    OBVIOUS
  <2> HIDE DEF All
  <2> QED
    BY <2>1, <2>2, <2>3, <2>4 DEF D!ProviderIssues
<1>5. ASSUME NEW r PROVE D!BackupIssues(m, r) \subseteq All
  BY DEF D!BackupIssues
<1>6. ASSUME NEW r PROVE D!RunningIssues(m, r) \subseteq All
  <2>1. D!HookIssues(m, r) \subseteq All
    BY DEF D!HookIssues
  <2>2. \A state : D!LockIssue(state) \in All
    BY DEF D!LockIssue
  <2> HIDE DEF All
  <2> QED
    BY <2>1, <2>2 DEF D!RunningIssues
<1> HIDE DEF All
<1> QED
  BY <1>1, <1>2, <1>3, <1>4, <1>5, <1>6 DEF D!Issues

\* Grounding: what is filed is one answer, under one policy.
THEOREM GroundingTypes == G!Spec => []G!TypeOK
BY GroundingInit, GroundingNext, PTL DEF G!Spec

LEMMA DoctorReportTypes == ASSUME D!DoctorAssumption, DoctorInv PROVE D!TypeOK
BY IssuesHaveCodes DEF DoctorInv, D!TypeOK

\* Doctor: a report consists of codes that have a priority.
THEOREM DoctorTypes == ASSUME D!DoctorAssumption PROVE D!Spec => []D!TypeOK
BY DoctorInit, DoctorNext, DoctorReportTypes, PTL DEF D!Spec

-----------------------------------------------------------------------------
(* Commands: a behaviour is one of a single model, whichever it is *)

GroundingInv == G!TypeOK /\ G!GroundedInText

Models == {"reviewing", "migration", "knowledge", "setup", "imports", "inbox", "logs",
           "resurfacing", "doctor", "grounding"}

CommandsInv ==
    /\ focus \in Models
    /\ focus = "reviewing" => SessionsInv
    /\ focus = "migration" => MigrationInv
    /\ focus = "knowledge" => NotesInv
    /\ focus = "setup" => SetupInv
    /\ focus = "imports" => ImportsInv
    /\ focus = "inbox" => InboxInv
    /\ focus = "logs" => LogsInv
    /\ focus = "resurfacing" => ResurfacingInv
    /\ focus = "doctor" => DoctorInv
    /\ focus = "grounding" => GroundingInv

LEMMA CommandsInit == InitAll => CommandsInv
<1> SUFFICES ASSUME InitAll PROVE CommandsInv
  OBVIOUS
<1>1. /\ focus \in Models
      /\ focus = "reviewing" => R!Init
      /\ focus = "migration" => M!Init
      /\ focus = "knowledge" => K!Init
      /\ focus = "setup" => U!Init
      /\ focus = "imports" => A!Init
      /\ focus = "inbox" => X!Init
      /\ focus = "logs" => L!Init
      /\ focus = "resurfacing" => V!Init
      /\ focus = "doctor" => D!Init
      /\ focus = "grounding" => G!Init
  BY DEF InitAll, Models
<1>2. /\ focus = "reviewing" => SessionsInv
      /\ focus = "migration" => MigrationInv
      /\ focus = "knowledge" => NotesInv
      /\ focus = "setup" => SetupInv
  BY <1>1, SessionsInit, MigrationInit, NotesInit, SetupInit,
     SessionsAssumed, MigrationAssumed, NotesAssumed, SetupAssumed
<1>3. /\ focus = "imports" => ImportsInv
      /\ focus = "inbox" => InboxInv
      /\ focus = "logs" => LogsInv
      /\ focus = "resurfacing" => ResurfacingInv
  BY <1>1, ImportsInit, InboxInit, LogsInit, ResurfacingInit,
     ImportsAssumed, InboxAssumed, LogsAssumed, ResurfacingAssumed
<1>4. focus = "doctor" => DoctorInv
  BY <1>1, DoctorInit
<1>5. focus = "grounding" => GroundingInv
  BY <1>1, GroundingInit DEF GroundingInv
<1> QED
  BY <1>1, <1>2, <1>3, <1>4, <1>5 DEF CommandsInv

\* A step of the composition is one of the model at work, or changes nothing of it.
LEMMA StepOfOne ==
    ASSUME [Step]_all
    PROVE  /\ UNCHANGED focus
           /\ focus = "reviewing" => R!Next \/ UNCHANGED R!vars
           /\ focus = "migration" => M!Next \/ UNCHANGED M!vars
           /\ focus = "knowledge" => K!Next \/ UNCHANGED K!vars
           /\ focus = "setup" => U!Next \/ UNCHANGED U!vars
           /\ focus = "imports" => A!Next \/ UNCHANGED A!vars
           /\ focus = "inbox" => X!Next \/ UNCHANGED X!vars
           /\ focus = "logs" => L!Next \/ UNCHANGED L!vars
           /\ focus = "resurfacing" => V!Next \/ UNCHANGED V!vars
           /\ focus = "doctor" => D!Next \/ UNCHANGED D!vars
           /\ focus = "grounding" => G!Next \/ UNCHANGED G!vars
<1>1. CASE Step
  BY <1>1 DEF Step, OthersStay, Locking, Stepping, Employing
<1>2. CASE UNCHANGED all
  BY <1>2 DEF all, logVars, R!vars, M!vars, K!vars, U!vars, A!vars, X!vars, D!vars, G!vars,
     L!vars, L!files, L!bounds, L!ghosts, V!vars, V!files
<1> QED
  BY <1>1, <1>2

LEMMA CommandsNext == CommandsInv /\ [Step]_all => CommandsInv'
<1> SUFFICES ASSUME CommandsInv, [Step]_all PROVE CommandsInv'
  OBVIOUS
<1>1. focus' = focus /\ focus \in Models
  BY StepOfOne DEF CommandsInv
<1>2. CASE focus = "reviewing"
  <2>1. SessionsInv'
    BY <1>2, StepOfOne, SessionsNext, SessionsAssumed DEF CommandsInv
  <2> QED
    BY <1>1, <1>2, <2>1 DEF CommandsInv
<1>3. CASE focus = "migration"
  <2>1. MigrationInv'
    BY <1>3, StepOfOne, MigrationNext, MigrationAssumed DEF CommandsInv
  <2> QED
    BY <1>1, <1>3, <2>1 DEF CommandsInv
<1>4. CASE focus = "knowledge"
  <2>1. NotesInv'
    BY <1>4, StepOfOne, NotesNext, NotesAssumed DEF CommandsInv
  <2> QED
    BY <1>1, <1>4, <2>1 DEF CommandsInv
<1>5. CASE focus = "setup"
  <2>1. SetupInv'
    BY <1>5, StepOfOne, SetupNext, SetupAssumed DEF CommandsInv
  <2> QED
    BY <1>1, <1>5, <2>1 DEF CommandsInv
<1>6. CASE focus = "imports"
  <2>1. ImportsInv'
    BY <1>6, StepOfOne, ImportsNext, ImportsAssumed DEF CommandsInv
  <2> QED
    BY <1>1, <1>6, <2>1 DEF CommandsInv
<1>7. CASE focus = "inbox"
  <2>1. InboxInv'
    BY <1>7, StepOfOne, InboxNext, InboxAssumed DEF CommandsInv
  <2> QED
    BY <1>1, <1>7, <2>1 DEF CommandsInv
<1>8. CASE focus = "logs"
  <2>1. LogsInv'
    BY <1>8, StepOfOne, LogsNext, LogsAssumed DEF CommandsInv
  <2> QED
    BY <1>1, <1>8, <2>1 DEF CommandsInv
<1>9. CASE focus = "resurfacing"
  <2>1. ResurfacingInv'
    BY <1>9, StepOfOne, ResurfacingNext, ResurfacingAssumed DEF CommandsInv
  <2> QED
    BY <1>1, <1>9, <2>1 DEF CommandsInv
<1>10. CASE focus = "doctor"
  <2>1. DoctorInv'
    BY <1>10, StepOfOne, DoctorNext DEF CommandsInv
  <2> QED
    BY <1>1, <1>10, <2>1 DEF CommandsInv
<1>11. CASE focus = "grounding"
  <2>1. GroundingInv'
    BY <1>11, StepOfOne, GroundingNext DEF CommandsInv, GroundingInv
  <2> QED
    BY <1>1, <1>11, <2>1 DEF CommandsInv
<1> QED
  BY <1>1, <1>2, <1>3, <1>4, <1>5, <1>6, <1>7, <1>8, <1>9, <1>10, <1>11 DEF Models

LEMMA CommandsHold == SideBySide => []CommandsInv
BY CommandsInit, CommandsNext, PTL DEF SideBySide

\* Whatever a command reads, it was written by one that keeps its kind.
THEOREM CommandTypes == SideBySide => []TypesOK
<1>1. CommandsInv => TypesOK
  BY DoctorReportTypes, DoctorAssumed
     DEF CommandsInv, Models, TypesOK, SessionsInv, MigrationInv, NotesInv, SetupInv, ImportsInv,
         InboxInv, LogsInv, ResurfacingInv, GroundingInv
<1> QED
  BY <1>1, CommandsHold, PTL

\* Status, home, a batch and doctor never report better than it is.
THEOREM CommandReportsAreTrue == SideBySide => []ReportsAreTrue
<1>1. CommandsInv => ReportsAreTrue
  BY InboxReports, DoctorReports, InboxAssumed, DoctorAssumed DEF CommandsInv, ReportsAreTrue
<1> QED
  BY <1>1, CommandsHold, PTL

\* A recorded attempt, question or search is found again, but for the lines that
\* kills have torn.
THEOREM CommandsKeepWhatIsWritten == SideBySide => []WrittenStays
<1>1. CommandsInv => WrittenStays
  BY LogsKept, LogsAssumed DEF CommandsInv, WrittenStays
<1> QED
  BY <1>1, CommandsHold, PTL

\* As long as the history has room, no note is listed behind one that was
\* opened after it.
THEOREM CommandsListByOpening == SideBySide => []LongestUnseenFirst
<1>1. CommandsInv => LongestUnseenFirst
  BY ListedByOpening, ResurfacingAssumed DEF CommandsInv, LongestUnseenFirst
<1> QED
  BY <1>1, CommandsHold, PTL

\* What is filed cites what is in the text it was made from.
THEOREM CommandsCite == SideBySide => []GroundedInText
<1>1. CommandsInv => GroundedInText
  BY DEF CommandsInv, GroundingInv, GroundedInText
<1> QED
  BY <1>1, CommandsHold, PTL

\* A session decides once, about the head it showed.
THEOREM CommandsDecideOnce == SideBySide => DecidesOnce
<1>1. CommandsInv /\ [Step]_all => [focus = "reviewing" => R!FirstDecision]_all
  BY SessionsDecision, SessionsAssumed DEF CommandsInv, Step
<1> QED
  BY <1>1, CommandsHold, PTL DEF SideBySide, DecidesOnce

\* What a migration left behind never keeps it from being finished.
THEOREM CommandsMigrate == SideBySide => MigrationCompletes
<1>1. CommandsInv /\ [Step]_all => [focus = "migration" => M!OwnersChanges /\ M!Success]_all
  BY MigrationFinish, MigrationAssumed DEF CommandsInv, Step
<1> QED
  BY <1>1, CommandsHold, PTL DEF SideBySide, MigrationCompletes

\* What the owner has changed since it was shown is not replaced, but for an edit
\* of the profile that comes between its comparison and its replacement.
THEOREM CommandsReplaceAsApproved == SideBySide => ReplacedAsApproved
<1>1. CommandsInv /\ [Step]_all =>
          [/\ focus = "knowledge" => K!ApprovedAsShown
           /\ focus = "setup" => U!ReplacedAsApproved]_all
  BY NotesApproval, SetupReplacement, NotesAssumed, SetupAssumed DEF CommandsInv, Step
<1> QED
  BY <1>1, CommandsHold, PTL DEF SideBySide, ReplacedAsApproved

\* An import overwrites nothing and captures what it read there.
THEOREM CommandsAddAsRead == SideBySide => AddedAsRead
<1>1. CommandsInv /\ [Step]_all => [focus = "imports" => A!PutDownAndCaptured]_all
  BY ImportsAdd, ImportsAssumed DEF CommandsInv, Step
<1> QED
  BY <1>1, CommandsHold, PTL DEF SideBySide, AddedAsRead

\* Choosing perspectives undoes nobody's draft.
THEOREM CommandsReplacePerspectives == SideBySide => OnlyPerspectives
<1>1. CommandsInv /\ [Step]_all => [focus = "resurfacing" => V!OnlyPerspectives]_all
  BY PerspectivesReplace, ResurfacingAssumed DEF CommandsInv, Step
<1> QED
  BY <1>1, CommandsHold, PTL DEF SideBySide, OnlyPerspectives
=============================================================================

-------------------------- MODULE ReviewGraphProofs --------------------------
(***************************************************************************)
(* For all clones, processes, records, revisions and review ids: what the  *)
(* references of a repository name, that decisions never both count, that  *)
(* what is shown of a record is so, and what a scan of the queue may       *)
(* conclude.                                                               *)
(***************************************************************************)
EXTENDS Queue, TLAPS

-----------------------------------------------------------------------------
(* What a process has in hand, and that review ids are used once *)

Holding == {"lockfile", "rename", "revision", "pointer", "view"}
HasLock(p) == pc[p] \in Holding => holder[Home[p]] = p

Deciding(p) == pc[p] \in {"shown", "lockfile", "rename", "view"} /\ task[p] = NoTask

InHand(p) ==
    /\ pc[p] = "idle" => new[p] = None /\ task[p] = NoTask
    /\ pc[p] = "shown" => task[p] = NoTask
    /\ pc[p] \in {"draft", "revision", "pointer"} => task[p] \in Draft
    /\ pc[p] \in {"lockfile", "rename"} => task[p] = NoTask \/ task[p] \notin Draft
    /\ pc[p] = "view" => task[p] = NoTask \/ task[p] \in Draft
    /\ Deciding(p) => new[p] # None /\ plan[p] # NoCard
    /\ \A r \in Planned(p) : card[p][r] # None
    /\ \A r \in Record : card[p][r] # None /\ card[p][r].head = Conflict => card[p][r].blocked = TRUE
    /\ Deciding(p) /\ pc[p] # "shown" => \A r \in Planned(p) : card[p][r].blocked = FALSE

IdsOnce ==
    /\ \A c \in Clone : \A e \in reviews[c] : event[e] # NoCard
    /\ \A p \in Proc : Deciding(p) /\ pc[p] # "view" => event[new[p]] = NoCard
    /\ \A p, q \in Proc : p # q /\ new[p] # None => new[p] # new[q]

Inv == /\ TypeOK
       /\ \A p \in Proc : HasLock(p) /\ InHand(p)
       /\ IdsOnce

-----------------------------------------------------------------------------
(* What is referred to is there *)

Refers(p) ==
    LET c == Home[p] IN
    /\ pc[p] = "pointer" => <<task[p].record, task[p].rev>> \in revs[c]
    /\ Deciding(p) /\ pc[p] \in {"lockfile", "rename"} =>
           \A r \in Planned(p) :
               card[p][r].head # None => card[p][r].head \in On(c, r, card[p][r].rev)
    /\ pc[p] \in {"lockfile", "rename"} /\ task[p] # NoTask =>
           LET n == task[p].resolution IN
           /\ n.review \in On(c, n.record, n.from)
           /\ event[n.review][n.record].decision = "changes"

Sound == PointerResolves /\ EdgesClosed /\ \A p \in Proc : Refers(p)

-----------------------------------------------------------------------------
(* As long as git merges nothing *)

Unmoved(p) ==
    LET c == Home[p] IN
    /\ Deciding(p) /\ pc[p] \in {"lockfile", "rename"} =>
           \A r \in Planned(p) :
               /\ current[c][r] = card[p][r].rev
               /\ HeadOf(c, r, card[p][r].rev) = card[p][r].head
    /\ Deciding(p) /\ pc[p] = "view" =>
           \A r \in Planned(p) :
               /\ current[c][r] = card[p][r].rev
               /\ Heads(c, r, card[p][r].rev) = {new[p]}
               /\ event[new[p]][r].decision = plan[p][r]
    /\ pc[p] \in {"revision", "pointer", "view"} /\ task[p] # NoTask =>
           task[p].shows = Expected(c, task[p].record, task[p].rev)
    /\ pc[p] = "view" /\ task[p] # NoTask => current[c][task[p].record] = task[p].rev

Still == OneHead /\ \A p \in Proc : Unmoved(p)

\* A draft that is written was read.
Reads == \A p \in Proc : pc[p] \in {"revision", "pointer"} => task[p].read = task[p].expected

-----------------------------------------------------------------------------
(* What the graph of a clone's reviews says *)

LEMMA HeadTyped ==
    ASSUME TypeOK, NEW c \in Clone, NEW r \in Record, NEW v
    PROVE  /\ On(c, r, v) \subseteq reviews[c]
           /\ Heads(c, r, v) \subseteq On(c, r, v)
           /\ On(c, r, v) \subseteq Id
           /\ HeadOf(c, r, v) \in Id \cup {None, Conflict}
           /\ HeadOf(c, r, v) \notin {None, Conflict} => HeadOf(c, r, v) \in Heads(c, r, v)
<1>1. On(c, r, v) \subseteq reviews[c] /\ reviews[c] \subseteq Id
  BY DEF On, TypeOK
<1>2. Heads(c, r, v) \subseteq On(c, r, v)
  BY DEF Heads
<1>3. HeadOf(c, r, v) \in Heads(c, r, v) \cup {None, Conflict}
  BY DEF HeadOf
<1> QED
  BY <1>1, <1>2, <1>3

LEMMA StateTyped ==
    ASSUME TypeOK, NEW c \in Clone, NEW r \in Record, NEW v \in Rev
    PROVE  StateOf(c, r, v) \in State /\ Expected(c, r, v) \in Heading
<1> DEFINE head == HeadOf(c, r, v)
<1>1. ASSUME head \notin {None, Conflict}
      PROVE  Outcome(event[head][r].decision) \in State
  <2>1. head \in On(c, r, v) /\ head \in Id
    BY HeadTyped, <1>1
  <2>2. event[head][r] \in Target
    BY <2>1 DEF On, TypeOK
  <2> HIDE DEF head
  <2>3. event[head][r].decision \in Decision
    BY <2>2 DEF Target
  <2> QED
    BY <2>3 DEF Outcome, Decision, State
<1>2. StateOf(c, r, v) \in State
  BY <1>1 DEF StateOf, State
<1>3. Expected(c, r, v) = [rev |-> v, head |-> head, state |-> StateOf(c, r, v)]
  BY DEF Expected
<1>4. head \in Id \cup {None, Conflict}
  BY HeadTyped
<1> HIDE DEF head
<1> QED
  BY <1>2, <1>3, <1>4 DEF Heading

LEMMA CardShows ==
    ASSUME TypeOK, NEW c \in Clone
    PROVE  /\ Card(c) \in [Record -> Line \cup {None}]
           /\ \A r \in Record : Card(c)[r] # None =>
                  /\ current[c][r] \in Rev
                  /\ Card(c)[r].rev = current[c][r]
                  /\ Card(c)[r].head = HeadOf(c, r, current[c][r])
                  /\ Card(c)[r].head = Conflict => Card(c)[r].blocked = TRUE
           /\ \A r \in Present(c) : Card(c)[r] # None
<1>1. ASSUME NEW r \in Record
      PROVE  /\ r \notin Present(c) => Card(c)[r] = None
             /\ r \in Present(c) =>
                  /\ Card(c)[r] \in Line
                  /\ current[c][r] \in Rev
                  /\ Card(c)[r].rev = current[c][r]
                  /\ Card(c)[r].head = HeadOf(c, r, current[c][r])
                  /\ Card(c)[r].head = Conflict => Card(c)[r].blocked = TRUE
  <2>1. CASE r \notin Present(c)
    BY <2>1 DEF Card
  <2>2. CASE r \in Present(c)
    <3>1. current[c][r] \in Rev
      BY <2>2 DEF Present, TypeOK
    <3>2. PICK h, s : Canonical(c, r) = [rev |-> current[c][r], head |-> h, state |-> s]
                        /\ h = HeadOf(c, r, current[c][r])
      BY DEF Canonical, Expected
    <3>3. h \in Id \cup {None, Conflict}
      BY <3>2, <3>1, HeadTyped
    <3>4. h = Conflict => Blocked(c, r)
      BY <3>2 DEF Blocked
    <3>5. Blocked(c, r) \in BOOLEAN
      BY DEF Blocked
    <3>6. PICK b \in BOOLEAN : b = Blocked(c, r) /\ (h = Conflict => b = TRUE)
      <4>1. CASE Blocked(c, r)
        <5>1. Blocked(c, r) = TRUE
          BY <4>1, <3>5
        <5> QED
          BY <5>1
      <4>2. CASE ~Blocked(c, r)
        <5>1. h # Conflict
          BY <4>2, <3>4
        <5> QED
          BY <3>5, <5>1
      <4> QED
        BY <4>1, <4>2
    <3>7. Card(c)[r] = [rev |-> current[c][r], head |-> h, blocked |-> b]
      BY <2>2, <3>2, <3>6 DEF Card
    <3> QED
      BY <2>2, <3>1, <3>2, <3>3, <3>6, <3>7 DEF Line
  <2> QED
    BY <2>1, <2>2
<1>2. Card(c) = [r \in Record |-> Card(c)[r]]
  BY DEF Card
<1>3. \A r \in Present(c) : r \in Record
  BY DEF Present
<1>4. \A r \in Record : Card(c)[r] \in Line \cup {None}
  BY <1>1
<1>5. Card(c) \in [Record -> Line \cup {None}]
  BY <1>2, <1>4
<1>6. None \notin Line
  BY NoneAssumption
<1>7. ASSUME NEW r \in Present(c) PROVE Card(c)[r] # None
  BY <1>1, <1>3, <1>6
<1>8. ASSUME NEW r \in Record, Card(c)[r] # None
      PROVE  /\ current[c][r] \in Rev
             /\ Card(c)[r].rev = current[c][r]
             /\ Card(c)[r].head = HeadOf(c, r, current[c][r])
             /\ Card(c)[r].head = Conflict => Card(c)[r].blocked = TRUE
  BY <1>1, <1>8
<1> QED
  BY <1>5, <1>7, <1>8

LEMMA ChoiceTyped ==
    ASSUME NEW c \in Clone, NEW f \in Choice(c)
    PROVE  /\ f \in [Record -> Decision \cup {None}]
           /\ \A r \in Record : f[r] # None => r \in Present(c)
<1>1. Offered \subseteq Decision
  BY DEF Offered
<1>2. CASE f \in [Record -> (Offered \ {"approve"}) \cup {None}]
           /\ \A r \in Record : f[r] # None => r \in Present(c)
  BY <1>1, <1>2
<1>3. ASSUME NEW d \in Offered, NEW S \in {Present(c)} \cup {{r} : r \in Present(c)},
             f = [r \in Record |-> IF r \in S /\ ~Confirmed(c, r) THEN d ELSE None]
      PROVE  /\ f \in [Record -> Decision \cup {None}]
             /\ \A r \in Record : f[r] # None => r \in Present(c)
  <2>1. S \subseteq Present(c)
    OBVIOUS
  <2> QED
    BY <1>1, <1>3, <2>1
<1> QED
  BY <1>2, <1>3 DEF Choice

-----------------------------------------------------------------------------
(* Steps of one process, seen by the others *)

Others(p) ==
    \A q \in Proc \ {p} :
        /\ pc'[q] = pc[q] /\ card'[q] = card[q] /\ plan'[q] = plan[q]
        /\ task'[q] = task[q] /\ new'[q] = new[q]
        /\ holder[Home[q]] = q => holder'[Home[q]] = q

LEMMA Bystanders ==
    ASSUME Inv, NEW p \in Proc, Others(p), NEW q \in Proc \ {p}
    PROVE  HasLock(q)' /\ InHand(q)'
<1>1. HasLock(q)'
  BY DEF Inv, Others, HasLock
<1>2. InHand(q) /\ Deciding(q)' = Deciding(q) /\ Planned(q)' = Planned(q)
  BY DEF Inv, Others, Deciding, Planned
<1>3. InHand(q)'
  BY <1>2 DEF Others, InHand
<1> QED
  BY <1>1, <1>3

\* Ids are used once as long as nothing is published and nobody takes an id.
LEMMA IdsStay ==
    ASSUME Inv, NEW p \in Proc, Others(p), UNCHANGED <<reviews, event>>,
           new'[p] \in {new[p], None},
           Deciding(p)' /\ pc'[p] # "view" =>
               new'[p] = new[p] /\ Deciding(p) /\ pc[p] # "view"
    PROVE  IdsOnce'
<1>1. \A c \in Clone : \A e \in reviews'[c] : event'[e] # NoCard
  BY DEF Inv, IdsOnce
<1>2. ASSUME NEW q \in Proc, Deciding(q)', pc'[q] # "view"
      PROVE  event'[new'[q]] = NoCard
  <2>1. CASE q = p
    BY <1>2, <2>1 DEF Inv, IdsOnce
  <2>2. CASE q # p
    <3>1. Deciding(q) /\ pc[q] # "view" /\ new'[q] = new[q]
      BY <1>2, <2>2 DEF Others, Deciding
    <3> QED
      BY <3>1 DEF Inv, IdsOnce
  <2> QED
    BY <2>1, <2>2
<1>3. ASSUME NEW q \in Proc, NEW r \in Proc, q # r, new'[q] # None
      PROVE  new'[q] # new'[r]
  <2>1. new'[q] = new[q] /\ new'[r] \in {new[r], None}
    BY <1>3 DEF Others
  <2> QED
    BY <1>3, <2>1 DEF Inv, IdsOnce
<1>4. NoCard' = NoCard
  BY DEF NoCard
<1> QED
  BY <1>1, <1>2, <1>3, <1>4 DEF IdsOnce

\* What is left of a process when it stops.
Released(p) ==
    holder' \in {[c \in Clone |-> IF holder[c] = p THEN None ELSE holder[c]],
                 [c \in Clone |-> IF holder[c] = p THEN Dead ELSE holder[c]],
                 holder}
LEMMA Stopped ==
    ASSUME Inv, NEW p \in Proc, Goto(p, "idle"), Forget(p), Released(p)
    PROVE  /\ Others(p)
           /\ pc' \in [Proc -> Pc] /\ holder' \in [Clone -> Proc \cup {None, Dead}]
           /\ card' \in [Proc -> [Record -> Line \cup {None}]]
           /\ plan' \in [Proc -> [Record -> Decision \cup {None}]]
           /\ task' \in [Proc -> Task] /\ new' \in [Proc -> Id \cup {None}]
           /\ HasLock(p)' /\ InHand(p)'
           /\ UNCHANGED <<reviews, event>> => IdsOnce'
<1> USE ConstantsAssumption
<1>1. TypeOK
  BY DEF Inv
<1>2. /\ pc'[p] = "idle" /\ card'[p] = NoCard /\ plan'[p] = NoCard
      /\ task'[p] = NoTask /\ new'[p] = None
  BY <1>1 DEF Goto, Forget, TypeOK
<1>3. holder' \in [Clone -> Proc \cup {None, Dead}]
  BY <1>1 DEF Released, TypeOK
<1>4. Others(p)
  <2> SUFFICES ASSUME NEW q \in Proc \ {p}
               PROVE  /\ pc'[q] = pc[q] /\ card'[q] = card[q] /\ plan'[q] = plan[q]
                      /\ task'[q] = task[q] /\ new'[q] = new[q]
                      /\ holder[Home[q]] = q => holder'[Home[q]] = q
    BY DEF Others
  <2>1. Home[q] \in Clone
    OBVIOUS
  <2>2. holder[Home[q]] = q => holder'[Home[q]] = q
    BY <2>1 DEF Released
  <2> QED
    BY <1>1, <2>2 DEF Goto, Forget, TypeOK
<1>5. NoCard \in [Record -> Line \cup {None}] /\ NoCard \in [Record -> Decision \cup {None}]
  BY DEF NoCard
<1>6. /\ card' \in [Proc -> [Record -> Line \cup {None}]]
      /\ plan' \in [Proc -> [Record -> Decision \cup {None}]]
  BY <1>1, <1>5 DEF Forget, TypeOK
<1>7. pc' \in [Proc -> Pc] /\ task' \in [Proc -> Task] /\ new' \in [Proc -> Id \cup {None}]
  BY <1>1 DEF Goto, Forget, TypeOK, Pc, Task
<1>8. HasLock(p)'
  BY <1>2 DEF HasLock, Holding
<1>9. ~Deciding(p)' /\ Planned(p)' = {}
  BY <1>2 DEF Deciding, Planned, NoCard
<1>10. \A r \in Record : card'[p][r] = None
  BY <1>2 DEF NoCard
<1>11. InHand(p)'
  BY <1>2, <1>9, <1>10 DEF InHand
<1>12. UNCHANGED <<reviews, event>> => IdsOnce'
  BY <1>2, <1>4, <1>9, IdsStay
<1> QED
  BY <1>3, <1>4, <1>6, <1>7, <1>8, <1>11, <1>12

LEMMA Locks ==
    ASSUME Inv, NEW p \in Proc, Lock(p)
    PROVE  /\ holder' \in [Clone -> Proc \cup {None, Dead}]
           /\ holder'[Home[p]] = p
           /\ \A q \in Proc : holder[Home[q]] = q => holder'[Home[q]] = q
<1> USE ConstantsAssumption
<1>1. Home[p] \in Clone /\ \A q \in Proc : Home[q] \in Clone
  OBVIOUS
<1> QED
  BY <1>1 DEF Inv, TypeOK, Lock

LEMMA OneStep ==
    ASSUME Inv, NEW p \in Proc, Others(p), TypeOK', HasLock(p)', InHand(p)', IdsOnce'
    PROVE  Inv'
<1>1. ASSUME NEW q \in Proc PROVE HasLock(q)' /\ InHand(q)'
  BY Bystanders
<1> QED
  BY <1>1 DEF Inv

LEMMA NoProcess ==
    ASSUME Inv, TypeOK', UNCHANGED <<procVars, event, pc>>,
           \A q \in Proc : holder[Home[q]] = q => holder'[Home[q]] = q,
           \A c \in Clone : \A e \in reviews'[c] : event[e] # NoCard
    PROVE  Inv'
<1>1. ASSUME NEW q \in Proc PROVE HasLock(q)' /\ InHand(q)'
  <2>1. HasLock(q)'
    BY DEF Inv, HasLock, procVars
  <2>2. InHand(q) /\ Deciding(q)' = Deciding(q) /\ Planned(q)' = Planned(q)
    BY DEF Inv, Deciding, Planned, procVars
  <2>3. InHand(q)'
    BY <2>2 DEF InHand, procVars
  <2> QED
    BY <2>1, <2>3
<1>2. \A q \in Proc : Deciding(q)' = Deciding(q)
  BY DEF Deciding, procVars
<1>3. IdsOnce'
  BY <1>2 DEF Inv, IdsOnce, procVars, NoCard
<1> QED
  BY <1>1, <1>3 DEF Inv

-----------------------------------------------------------------------------
(* Every step keeps the types, the locks and the ids *)

LEMMA ShowKeeps == ASSUME Inv, NEW p \in Proc, Show(p) PROVE Inv' /\ Others(p)
<1> USE ConstantsAssumption, NoneAssumption
<1> DEFINE c == Home[p]
<1>1. TypeOK /\ c \in Clone /\ task[p] = NoTask
  BY DEF Inv, InHand, Show, At
<1> PICK f \in Choice(c) \ {NoCard} : plan' = [plan EXCEPT ![p] = f]
  BY DEF Show
<1> PICK e \in Id : event[e] = NoCard /\ (\A q \in Proc : new[q] # e) /\ new' = [new EXCEPT ![p] = e]
  BY DEF Show
<1>2. f \in [Record -> Decision \cup {None}] /\ \A r \in Record : f[r] # None => r \in Present(c)
  BY <1>1, ChoiceTyped
<1>3. Card(c) \in [Record -> Line \cup {None}]
  BY <1>1, CardShows
<1>4. /\ pc' = [pc EXCEPT ![p] = "shown"]
      /\ card' = [card EXCEPT ![p] = Card(c)]
      /\ UNCHANGED <<repoVars, views, holder, task>>
  BY DEF Show, Goto
<1>5. /\ pc'[p] = "shown" /\ plan'[p] = f /\ new'[p] = e /\ card'[p] = Card(c)
      /\ task'[p] = NoTask
  BY <1>1, <1>4 DEF TypeOK
<1>6. Others(p)
  BY <1>1, <1>4 DEF TypeOK, Others
<1>7. TypeOK'
  <2>1. card' \in [Proc -> [Record -> Line \cup {None}]]
    BY <1>1, <1>3, <1>4 DEF TypeOK
  <2>2. plan' \in [Proc -> [Record -> Decision \cup {None}]]
    BY <1>1, <1>2 DEF TypeOK
  <2>3. pc' \in [Proc -> Pc] /\ new' \in [Proc -> Id \cup {None}]
    BY <1>1, <1>4 DEF TypeOK, Pc
  <2> QED
    BY <1>1, <1>4, <2>1, <2>2, <2>3 DEF TypeOK, repoVars
<1>8. HasLock(p)'
  BY <1>5 DEF HasLock, Holding
<1>9. InHand(p)'
  <2>1. /\ \A r \in Present(c) : Card(c)[r] # None
        /\ \A r \in Record : Card(c)[r] # None =>
              (Card(c)[r].head = Conflict => Card(c)[r].blocked = TRUE)
    BY <1>1, CardShows
  <2> DEFINE shown == Card(c)
  <2>2. /\ card'[p] = shown /\ \A r \in Present(c) : shown[r] # None
        /\ \A r \in Record : shown[r] # None =>
              (shown[r].head = Conflict => shown[r].blocked = TRUE)
    BY <2>1, <1>5
  <2> HIDE DEF shown
  <2>3. \A r \in Planned(p)' : card'[p][r] # None
    BY <1>2, <1>5, <2>2 DEF Planned
  <2>4. \A r \in Record : card'[p][r] # None /\ card'[p][r].head = Conflict => card'[p][r].blocked = TRUE
    BY <2>2
  <2>5. NoCard' = NoCard /\ e # None
    BY DEF NoCard
  <2> QED
    BY <1>5, <2>3, <2>4, <2>5 DEF InHand
<1>10. IdsOnce'
  <2>1. \A d \in Clone : \A g \in reviews'[d] : event'[g] # NoCard
    BY <1>4 DEF Inv, IdsOnce, repoVars
  <2>2. ASSUME NEW q \in Proc, Deciding(q)', pc'[q] # "view" PROVE event'[new'[q]] = NoCard
    <3>1. CASE q = p
      BY <1>4, <1>5, <3>1 DEF repoVars
    <3>2. CASE q # p
      <4>1. Deciding(q) /\ pc[q] # "view" /\ new'[q] = new[q]
        BY <1>6, <2>2, <3>2 DEF Others, Deciding
      <4> QED
        BY <1>4, <4>1 DEF Inv, IdsOnce, repoVars
    <3> QED
      BY <3>1, <3>2
  <2>3. ASSUME NEW q \in Proc, NEW o \in Proc, q # o, new'[q] # None PROVE new'[q] # new'[o]
    <3>1. (q # p => new'[q] = new[q]) /\ (o # p => new'[o] = new[o])
      BY <1>6 DEF Others
    <3> QED
      BY <1>5, <2>3, <3>1 DEF Inv, IdsOnce
  <2> QED
    BY <2>1, <2>2, <2>3 DEF IdsOnce, NoCard
<1> QED
  BY <1>6, <1>7, <1>8, <1>9, <1>10, OneStep

LEMMA GiveUpKeeps == ASSUME Inv, NEW p \in Proc, GiveUp(p) PROVE Inv' /\ Others(p)
<1>1. Goto(p, "idle") /\ Forget(p) /\ UNCHANGED <<repoVars, views, holder>>
  BY DEF GiveUp
<1>2. Released(p)
  BY <1>1 DEF Released
<1>3. TypeOK'
  BY <1>1, <1>2, Stopped DEF Inv, TypeOK, repoVars
<1> QED
  BY <1>1, <1>2, <1>3, Stopped, OneStep DEF repoVars

LEMMA CrashKeeps == ASSUME Inv, NEW p \in Proc, Crash(p) PROVE Inv' /\ Others(p)
<1>1. Goto(p, "idle") /\ Forget(p) /\ UNCHANGED <<repoVars, views>>
  BY DEF Crash
<1>2. Released(p)
  BY DEF Crash, Released
<1>3. TypeOK'
  BY <1>1, <1>2, Stopped DEF Inv, TypeOK, repoVars
<1> QED
  BY <1>1, <1>2, <1>3, Stopped, OneStep DEF repoVars

LEMMA EnterReviewKeeps == ASSUME Inv, NEW p \in Proc, EnterReview(p) PROVE Inv' /\ Others(p)
<1> USE ConstantsAssumption, NoneAssumption
<1>1. /\ TypeOK /\ InHand(p) /\ pc[p] = "shown"
      /\ pc' = [pc EXCEPT ![p] = "lockfile"]
      /\ UNCHANGED <<repoVars, views, procVars>>
  BY DEF Inv, EnterReview, At, Goto
<1>2. Lock(p)
  BY DEF EnterReview
<1>3. pc'[p] = "lockfile" /\ task[p] = NoTask
  BY <1>1 DEF TypeOK, InHand
<1>4. Others(p)
  BY <1>1, <1>2, Locks DEF TypeOK, Others, procVars
<1>5. TypeOK'
  <2>1. pc' \in [Proc -> Pc]
    BY <1>1 DEF TypeOK, Pc
  <2> QED
    BY <1>1, <1>2, <2>1, Locks DEF TypeOK, repoVars, procVars
<1>6. HasLock(p)'
  BY <1>2, Locks DEF HasLock
<1>7. Deciding(p)
  BY <1>1, <1>3 DEF Deciding
<1>8. InHand(p)'
  <2>1. ASSUME NEW r \in Planned(p) PROVE card[p][r].blocked = FALSE
    <3>1. card[p][r] \in Line
      BY <1>1 DEF InHand, TypeOK, Planned
    <3>2. card[p][r].blocked \in BOOLEAN /\ ~card[p][r].blocked
      BY <3>1 DEF Line, EnterReview
    <3> QED
      BY <3>2
  <2>2. Planned(p)' = Planned(p) /\ NoCard' = NoCard
    BY <1>1 DEF Planned, procVars, NoCard
  <2> QED
    BY <1>1, <1>3, <1>7, <2>1, <2>2 DEF InHand, procVars
<1>9. IdsOnce'
  BY <1>1, <1>3, <1>4, <1>7, IdsStay DEF repoVars, procVars
<1> QED
  BY <1>4, <1>5, <1>6, <1>8, <1>9, OneStep

LEMMA LockFileKeeps == ASSUME Inv, NEW p \in Proc, LockFile(p) PROVE Inv' /\ Others(p)
<1> USE ConstantsAssumption
<1>1. /\ TypeOK /\ InHand(p) /\ HasLock(p) /\ pc[p] = "lockfile"
      /\ pc' = [pc EXCEPT ![p] = "rename"]
      /\ litter' = [litter EXCEPT ![Home[p]] = @ \cup {p}]
      /\ UNCHANGED <<current, bare, revs, reviews, resolved, event, views, holder, procVars>>
  BY DEF Inv, LockFile, At, Goto
<1>2. pc'[p] = "rename"
  BY <1>1 DEF TypeOK
<1>3. Others(p)
  BY <1>1 DEF TypeOK, Others, procVars
<1>4. TypeOK'
  BY <1>1 DEF TypeOK, Pc, procVars
<1>5. HasLock(p)'
  BY <1>1 DEF HasLock, Holding
<1>6. Deciding(p)' = Deciding(p) /\ Planned(p)' = Planned(p) /\ NoCard' = NoCard
  BY <1>1, <1>2 DEF Deciding, Planned, procVars, NoCard
<1>7. InHand(p)'
  BY <1>1, <1>2, <1>6 DEF InHand, procVars
<1>8. IdsOnce'
  BY <1>1, <1>3, <1>6, IdsStay DEF procVars
<1> QED
  BY <1>3, <1>4, <1>5, <1>7, <1>8, OneStep

LEMMA EnterResolveKeeps == ASSUME Inv, NEW p \in Proc, EnterResolve(p) PROVE Inv' /\ Others(p)
<1> USE ConstantsAssumption
<1> PICK n \in Resolution : task' = [task EXCEPT ![p] = [kind |-> "resolve", resolution |-> n]]
  BY DEF EnterResolve
<1>1. /\ TypeOK /\ InHand(p) /\ pc[p] = "idle"
      /\ pc' = [pc EXCEPT ![p] = "lockfile"]
      /\ UNCHANGED <<repoVars, views, card, plan, new>>
  BY DEF Inv, EnterResolve, At, Goto
<1>2. Lock(p)
  BY DEF EnterResolve
<1>3. pc'[p] = "lockfile" /\ task'[p] = [kind |-> "resolve", resolution |-> n]
  BY <1>1 DEF TypeOK
<1>4. Others(p)
  BY <1>1, <1>2, Locks DEF TypeOK, Others
<1>5. TypeOK'
  <2>1. pc' \in [Proc -> Pc] /\ task' \in [Proc -> Task]
    BY <1>1 DEF TypeOK, Pc, Task
  <2> QED
    BY <1>1, <1>2, <2>1, Locks DEF TypeOK, repoVars
<1>6. HasLock(p)'
  BY <1>2, Locks DEF HasLock
<1>7. ~Deciding(p)' /\ task'[p] \notin Draft
  BY <1>3 DEF Deciding, NoTask, Draft
<1>8. InHand(p)'
  <2>1. Planned(p)' = Planned(p)
    BY <1>1 DEF Planned
  <2> QED
    BY <1>1, <1>3, <1>7, <2>1 DEF InHand
<1>9. IdsOnce'
  BY <1>1, <1>4, <1>7, IdsStay DEF repoVars
<1> QED
  BY <1>4, <1>5, <1>6, <1>8, <1>9, OneStep

\* What p publishes.
Content(p) ==
    [r \in Record |->
        IF plan[p][r] = None THEN None
        ELSE [rev |-> card[p][r].rev, decision |-> plan[p][r], sup |-> Supersedes(p, r)]]

LEMMA ContentTyped ==
    ASSUME Inv, NEW p \in Proc, pc[p] = "rename", task[p] = NoTask
    PROVE  /\ Deciding(p) /\ new[p] \in Id /\ event[new[p]] = NoCard
           /\ Content(p) \in [Record -> Target \cup {None}] /\ Content(p) # NoCard
           /\ \A r \in Record :
                 IF r \in Planned(p)
                 THEN /\ card[p][r] \in Line /\ card[p][r].head \in Id \cup {None}
                      /\ Content(p)[r] # None
                      /\ Content(p)[r].rev = card[p][r].rev
                      /\ Content(p)[r].decision = plan[p][r]
                      /\ Content(p)[r].sup = card[p][r].head
                 ELSE Content(p)[r] = None
<1> USE ConstantsAssumption
<1>1. /\ TypeOK /\ InHand(p) /\ Deciding(p)
      /\ card[p] \in [Record -> Line \cup {None}]
      /\ plan[p] \in [Record -> Decision \cup {None}]
  BY DEF Inv, Deciding, TypeOK
<1>2. new[p] \in Id /\ event[new[p]] = NoCard
  BY <1>1 DEF Inv, InHand, TypeOK, IdsOnce
<1>3. ASSUME NEW r \in Planned(p)
      PROVE  /\ card[p][r] \in Line /\ card[p][r].head \in Id \cup {None}
             /\ Content(p)[r] \in Target
             /\ Content(p)[r].rev = card[p][r].rev
             /\ Content(p)[r].decision = plan[p][r]
             /\ Content(p)[r].sup = card[p][r].head
  <2>1. card[p][r] \in Line
    BY <1>1 DEF Planned, InHand
  <2>2. card[p][r].blocked = FALSE /\ (card[p][r].head = Conflict => card[p][r].blocked = TRUE)
    BY <1>1, <2>1 DEF Planned, InHand
  <2>3. card[p][r].head \in Id \cup {None}
    BY <2>1, <2>2 DEF Line
  <2>4. plan[p][r] \in Decision /\ plan[p][r] # None
    BY <1>1 DEF Planned
  <2>5. Content(p)[r] = [rev |-> card[p][r].rev, decision |-> plan[p][r], sup |-> card[p][r].head]
    BY <2>4 DEF Content, Supersedes, Planned
  <2> QED
    BY <2>1, <2>3, <2>4, <2>5 DEF Target, Line
<1>4. \A r \in Record : r \notin Planned(p) => Content(p)[r] = None
  BY DEF Content, Planned
<1>5. None \notin Target
  BY NoneAssumption
<1>6. Content(p) \in [Record -> Target \cup {None}]
  <2>1. \A r \in Record : Content(p)[r] \in Target \cup {None}
    BY <1>3, <1>4
  <2>2. Content(p) = [r \in Record |-> Content(p)[r]]
    BY DEF Content
  <2> QED
    BY <2>1, <2>2
<1>7. Content(p) # NoCard
  <2>1. plan[p] # NoCard
    BY <1>1 DEF InHand
  <2>2. PICK r \in Record : plan[p][r] # None
    BY <1>1, <2>1 DEF NoCard
  <2>3. Content(p)[r] \in Target
    BY <1>3, <2>2 DEF Planned
  <2> QED
    BY <1>5, <2>3 DEF NoCard
<1> QED
  BY <1>1, <1>2, <1>3, <1>4, <1>5, <1>6, <1>7

\* The two things Rename can publish.
Publishes(p) ==
    /\ task[p] = NoTask /\ pc[p] = "rename"
    /\ event' = [event EXCEPT ![new[p]] = Content(p)]
    /\ reviews' = [reviews EXCEPT ![Home[p]] = @ \cup {new[p]}]
    /\ litter' = [litter EXCEPT ![Home[p]] = @ \ {p}]
    /\ pc' = [pc EXCEPT ![p] = "view"]
    /\ UNCHANGED <<resolved, holder, procVars, current, bare, revs, views>>
Resolves(p) ==
    /\ task[p].kind = "resolve" /\ pc[p] = "rename"
    /\ resolved' = [resolved EXCEPT ![Home[p]] = @ \cup {task[p].resolution}]
    /\ litter' = [litter EXCEPT ![Home[p]] = @ \ {p}]
    /\ Goto(p, "idle") /\ Forget(p) /\ Released(p)
    /\ UNCHANGED <<event, reviews, current, bare, revs, views>>

LEMMA RenameIs ==
    ASSUME NEW p \in Proc, Rename(p)
    PROVE  Publishes(p) \/ Resolves(p)
<1>1. CASE task[p] = NoTask
  BY <1>1 DEF Rename, Publishes, Content, At, Goto, NoTask
<1>2. CASE task[p].kind = "resolve"
  BY <1>2 DEF Rename, Resolves, At, Released, Unlock, NoTask
<1> QED
  BY <1>1, <1>2 DEF Rename

LEMMA PublishesKeeps == ASSUME Inv, NEW p \in Proc, Publishes(p) PROVE Inv' /\ Others(p)
<1> USE ConstantsAssumption
<1>1. TypeOK /\ InHand(p) /\ HasLock(p) /\ IdsOnce /\ Home[p] \in Clone
  BY DEF Inv
<1>2. /\ Deciding(p) /\ new[p] \in Id /\ event[new[p]] = NoCard
      /\ Content(p) \in [Record -> Target \cup {None}] /\ Content(p) # NoCard
  BY ContentTyped DEF Publishes
<1>3. pc'[p] = "view"
  BY <1>1 DEF TypeOK, Publishes
<1>4. Others(p)
  BY <1>1 DEF TypeOK, Others, procVars, Publishes
<1>5. TypeOK'
  <2>1. event' \in [Id -> [Record -> Target \cup {None}]]
    BY <1>1, <1>2 DEF TypeOK, Publishes
  <2>2. reviews' \in [Clone -> SUBSET Id] /\ litter' \in [Clone -> SUBSET Proc] /\ pc' \in [Proc -> Pc]
    BY <1>1, <1>2 DEF TypeOK, Publishes, Pc
  <2> QED
    BY <1>1, <2>1, <2>2 DEF TypeOK, Publishes, procVars
<1>6. HasLock(p)'
  BY <1>1 DEF HasLock, Holding, Publishes
<1>7. Deciding(p)' /\ Planned(p)' = Planned(p) /\ NoCard' = NoCard
  BY <1>2, <1>3 DEF Deciding, Planned, procVars, NoCard, Publishes
<1>8. InHand(p)'
  BY <1>1, <1>2, <1>3, <1>7 DEF InHand, procVars, Publishes, Deciding
<1>9. event'[new[p]] = Content(p) /\ \A e \in Id \ {new[p]} : event'[e] = event[e]
  BY <1>1, <1>2 DEF TypeOK, Publishes
<1>10. IdsOnce'
  <2>1. ASSUME NEW d \in Clone, NEW e \in reviews'[d] PROVE event'[e] # NoCard
    <3>1. e \in Id /\ (e = new[p] \/ e \in reviews[d])
      BY <1>1, <1>2 DEF TypeOK, Publishes
    <3> QED
      BY <1>1, <1>2, <1>9, <3>1 DEF IdsOnce
  <2>2. ASSUME NEW q \in Proc, Deciding(q)', pc'[q] # "view" PROVE event'[new'[q]] = NoCard
    <3>1. q # p
      BY <1>3, <2>2
    <3>2. Deciding(q) /\ pc[q] # "view" /\ new'[q] = new[q]
      BY <1>4, <2>2, <3>1 DEF Others, Deciding
    <3>3. new[q] \in Id /\ new[q] # new[p]
      BY <1>1, <3>1, <3>2 DEF Inv, InHand, TypeOK, IdsOnce
    <3> QED
      BY <1>1, <1>9, <3>2, <3>3 DEF IdsOnce
  <2>3. UNCHANGED new
    BY DEF Publishes, procVars
  <2> QED
    BY <1>1, <2>1, <2>2, <2>3 DEF IdsOnce, NoCard
<1> QED
  BY <1>4, <1>5, <1>6, <1>8, <1>10, OneStep

LEMMA ResolvesKeeps == ASSUME Inv, NEW p \in Proc, Resolves(p) PROVE Inv' /\ Others(p)
<1> USE ConstantsAssumption
<1>1. Goto(p, "idle") /\ Forget(p) /\ Released(p)
  BY DEF Resolves
<1>2. TypeOK'
  <2>1. task[p].resolution \in Resolution
    <3>1. task[p] \in Task /\ task[p].kind = "resolve"
      BY DEF Inv, TypeOK, Resolves
    <3> QED
      BY <3>1 DEF Task, Draft, NoTask
  <2>2. resolved' \in [Clone -> SUBSET Resolution] /\ litter' \in [Clone -> SUBSET Proc]
    BY <2>1 DEF Inv, TypeOK, Resolves
  <2>3. UNCHANGED <<event, reviews, current, bare, revs, views>>
    BY DEF Resolves
  <2> QED
    BY <1>1, <2>2, <2>3, Stopped DEF Inv, TypeOK
<1>3. UNCHANGED <<event, reviews>>
  BY DEF Resolves
<1> QED
  BY <1>1, <1>2, <1>3, Stopped, OneStep

LEMMA BeginDraftKeeps == ASSUME Inv, NEW p \in Proc, BeginDraft(p) PROVE Inv' /\ Others(p)
<1> USE ConstantsAssumption
<1> PICK r \in Record, v \in Rev :
       task' = [task EXCEPT ![p] =
           [kind |-> "draft", record |-> r, rev |-> v,
            expected |-> current[Home[p]][r], read |-> None, shows |-> None]]
  BY DEF BeginDraft
<1>1. /\ TypeOK /\ InHand(p) /\ pc[p] = "idle"
      /\ pc' = [pc EXCEPT ![p] = "draft"]
      /\ UNCHANGED <<repoVars, views, holder, card, plan, new>>
  BY DEF Inv, BeginDraft, At, Goto
<1>2. pc'[p] = "draft" /\ task'[p] \in Draft
  <2>1. current[Home[p]][r] \in Rev \cup {None}
    BY <1>1 DEF TypeOK
  <2> QED
    BY <1>1, <2>1 DEF TypeOK, Draft
<1>3. Others(p)
  BY <1>1 DEF TypeOK, Others
<1>4. TypeOK'
  <2>1. pc' \in [Proc -> Pc] /\ task' \in [Proc -> Task]
    BY <1>1, <1>2 DEF TypeOK, Pc, Task
  <2> QED
    BY <1>1, <2>1 DEF TypeOK, repoVars
<1>5. HasLock(p)' /\ ~Deciding(p)'
  BY <1>2 DEF HasLock, Holding, Deciding
<1>6. InHand(p)'
  <2>1. Planned(p)' = Planned(p)
    BY <1>1 DEF Planned
  <2> QED
    BY <1>1, <1>2, <1>5, <2>1 DEF InHand
<1>7. IdsOnce'
  BY <1>1, <1>3, <1>5, IdsStay DEF repoVars
<1> QED
  BY <1>3, <1>4, <1>5, <1>6, <1>7, OneStep

LEMMA DraftTyped ==
    ASSUME Inv, NEW p \in Proc, pc[p] \in {"draft", "revision", "pointer"}
    PROVE  /\ task[p] \in Draft /\ task[p].record \in Record /\ task[p].rev \in Rev
           /\ task[p] # NoTask /\ ~Deciding(p)
<1>1. task[p] \in Draft
  BY DEF Inv, InHand
<1> QED
  BY <1>1 DEF Draft, NoTask, Deciding

LEMMA EnterDraftKeeps == ASSUME Inv, NEW p \in Proc, EnterDraft(p) PROVE Inv' /\ Others(p)
<1> USE ConstantsAssumption
<1>1. /\ TypeOK /\ InHand(p) /\ pc[p] = "draft" /\ Home[p] \in Clone
      /\ pc' \in {[pc EXCEPT ![p] = "view"], [pc EXCEPT ![p] = "revision"]}
      /\ UNCHANGED <<repoVars, views, card, plan, new>>
  BY DEF Inv, EnterDraft, At, Goto
<1>2. Lock(p)
  BY DEF EnterDraft
<1> PICK r \in Record, v \in Rev : r = task[p].record /\ v = task[p].rev
  BY <1>1, DraftTyped
<1>3. task' = [task EXCEPT ![p].read = current[Home[p]][r], ![p].shows = Expected(Home[p], r, v)]
  BY DEF EnterDraft
<1>4. task'[p] \in Draft
  <2>1. Expected(Home[p], r, v) \in Heading
    BY <1>1, StateTyped
  <2>2. current[Home[p]][r] \in Rev \cup {None} /\ task[p] \in Draft
    BY <1>1, DraftTyped DEF TypeOK
  <2>3. task'[p] = [task[p] EXCEPT !.read = current[Home[p]][r], !.shows = Expected(Home[p], r, v)]
    BY <1>1, <1>3 DEF TypeOK
  <2> DEFINE shows == Expected(Home[p], r, v)
  <2>4. task'[p] = [task[p] EXCEPT !.read = current[Home[p]][r], !.shows = shows] /\ shows \in Heading
    BY <2>1, <2>3
  <2> HIDE DEF shows
  <2> QED
    BY <2>2, <2>4 DEF Draft
<1>5. pc'[p] \in {"view", "revision"}
  BY <1>1 DEF TypeOK
<1>6. Others(p)
  BY <1>1, <1>2, <1>3, Locks DEF TypeOK, Others
<1>7. TypeOK'
  <2>1. pc' \in [Proc -> Pc]
    BY <1>1 DEF TypeOK, Pc
  <2>2. task' \in [Proc -> Task]
    <3>1. DOMAIN task' = Proc /\ \A q \in Proc \ {p} : task'[q] = task[q]
      BY <1>1, <1>3 DEF TypeOK
    <3>2. task' = [q \in Proc |-> task'[q]]
      BY <1>1, <1>3 DEF TypeOK
    <3>3. \A q \in Proc : task'[q] \in Task
      BY <1>1, <1>4, <3>1 DEF TypeOK, Task
    <3> QED
      BY <3>2, <3>3
  <2> QED
    BY <1>1, <1>2, <2>1, <2>2, Locks DEF TypeOK, repoVars
<1>8. HasLock(p)'
  BY <1>2, Locks DEF HasLock
<1>9. ~Deciding(p)'
  BY <1>4 DEF Deciding, NoTask, Draft
<1>10. InHand(p)'
  <2>1. Planned(p)' = Planned(p)
    BY <1>1 DEF Planned
  <2> QED
    BY <1>1, <1>4, <1>5, <1>9, <2>1 DEF InHand
<1>11. IdsOnce'
  BY <1>1, <1>6, <1>9, IdsStay DEF repoVars
<1> QED
  BY <1>6, <1>7, <1>8, <1>10, <1>11, OneStep

\* A draft goes on.
GoesOn(p) ==
    /\ pc[p] \in {"revision", "pointer"}
    /\ pc' \in {[pc EXCEPT ![p] = "pointer"], [pc EXCEPT ![p] = "view"]}
    /\ UNCHANGED <<reviews, event, holder, procVars>>

LEMMA DraftGoesOn ==
    ASSUME Inv, NEW p \in Proc, GoesOn(p)
    PROVE  /\ Others(p) /\ HasLock(p)' /\ InHand(p)' /\ IdsOnce'
           /\ pc' \in [Proc -> Pc]
<1>1. /\ TypeOK /\ InHand(p) /\ HasLock(p) /\ task[p] \in Draft /\ task[p] # NoTask /\ ~Deciding(p)
  BY DraftTyped DEF Inv, GoesOn
<1>2. pc'[p] \in {"pointer", "view"} /\ pc' \in [Proc -> Pc]
  BY <1>1 DEF TypeOK, GoesOn, Pc
<1>3. Others(p)
  BY <1>1 DEF TypeOK, Others, GoesOn, procVars
<1>4. HasLock(p)'
  BY <1>1 DEF HasLock, Holding, GoesOn
<1>5. ~Deciding(p)' /\ Planned(p)' = Planned(p)
  BY <1>1 DEF Deciding, Planned, procVars, GoesOn
<1>6. InHand(p)'
  BY <1>1, <1>2, <1>5 DEF InHand, GoesOn, procVars
<1>7. IdsOnce'
  BY <1>3, <1>5, IdsStay DEF GoesOn, procVars
<1> QED
  BY <1>2, <1>3, <1>4, <1>6, <1>7

LEMMA WriteRevisionKeeps == ASSUME Inv, NEW p \in Proc, WriteRevision(p) PROVE Inv' /\ Others(p)
<1> USE ConstantsAssumption
<1>1. GoesOn(p)
  BY DEF WriteRevision, GoesOn, At, Goto
<1>2. task[p].record \in Record /\ task[p].rev \in Rev
  BY DraftTyped DEF WriteRevision, At
<1>3. bare' \in [Clone -> SUBSET Record] /\ revs' \in [Clone -> SUBSET (Record \X Rev)]
  BY <1>2 DEF Inv, TypeOK, WriteRevision
<1>4. TypeOK'
  BY <1>1, <1>3, DraftGoesOn DEF Inv, TypeOK, WriteRevision, procVars
<1> QED
  BY <1>1, <1>4, DraftGoesOn, OneStep

\* The pointer is moved, or another draft has moved it.
Moves(p) ==
    /\ pc[p] = "pointer"
    /\ \/ current[Home[p]][task[p].record] = task[p].read
       \/ task[p].read = None /\ current[Home[p]][task[p].record] = task[p].rev
    /\ current' = [current EXCEPT ![Home[p]][task[p].record] = task[p].rev]
    /\ pc' = [pc EXCEPT ![p] = "view"]
    /\ UNCHANGED <<holder, procVars, bare, revs, reviews, litter, resolved, event, views>>
Yields(p) ==
    /\ pc[p] = "pointer"
    /\ Goto(p, "idle") /\ Forget(p) /\ Released(p)
    /\ UNCHANGED <<repoVars, views>>

LEMMA WritePointerIs ==
    ASSUME NEW p \in Proc, WritePointer(p)
    PROVE  Moves(p) \/ Yields(p)
BY DEF WritePointer, Moves, Yields, At, Goto, Released, Unlock, repoVars

LEMMA MovesKeeps == ASSUME Inv, NEW p \in Proc, Moves(p) PROVE Inv' /\ Others(p)
<1> USE ConstantsAssumption
<1>1. GoesOn(p)
  BY DEF Moves, GoesOn
<1>2. task[p].record \in Record /\ task[p].rev \in Rev /\ Home[p] \in Clone
  BY DraftTyped DEF Moves
<1>3. current' \in [Clone -> [Record -> Rev \cup {None}]]
  BY <1>2 DEF Inv, TypeOK, Moves
<1>4. TypeOK'
  BY <1>1, <1>3, DraftGoesOn DEF Inv, TypeOK, Moves, procVars
<1> QED
  BY <1>1, <1>4, DraftGoesOn, OneStep

LEMMA YieldsKeeps == ASSUME Inv, NEW p \in Proc, Yields(p) PROVE Inv' /\ Others(p)
<1>1. Goto(p, "idle") /\ Forget(p) /\ Released(p) /\ UNCHANGED <<repoVars, views>>
  BY DEF Yields
<1>2. TypeOK'
  BY <1>1, Stopped DEF Inv, TypeOK, repoVars
<1> QED
  BY <1>1, <1>2, Stopped, OneStep DEF repoVars

LEMMA ViewKeeps == ASSUME Inv, NEW p \in Proc, View(p) PROVE Inv' /\ Others(p)
<1> USE ConstantsAssumption
<1>1. Goto(p, "idle") /\ Forget(p) /\ Released(p) /\ UNCHANGED repoVars /\ pc[p] = "view"
  BY DEF View, Released, Unlock, At
<1>2. ASSUME NEW r \in Record PROVE Shown(p, r) \in Heading \cup {None}
  <2>1. TypeOK /\ InHand(p)
    BY DEF Inv
  <2>2. CASE task[p] = NoTask
    <3>1. Deciding(p) /\ new[p] \in Id
      BY <1>1, <2>1, <2>2 DEF Deciding, InHand, TypeOK
    <3>2. CASE r \notin Planned(p)
      BY <2>2, <3>2 DEF Shown, NoTask, Planned
    <3>3. CASE r \in Planned(p)
      <4>1. card[p][r] \in Line
        BY <2>1, <3>3 DEF InHand, TypeOK, Planned
      <4>2. plan[p][r] \in Decision
        BY <2>1, <3>3 DEF TypeOK, Planned
      <4>3. Outcome(plan[p][r]) \in State
        BY <4>2 DEF Outcome, Decision, State
      <4>4. Shown(p, r) = [rev |-> card[p][r].rev, head |-> new[p], state |-> Outcome(plan[p][r])]
        BY <2>2, <3>3 DEF Shown, NoTask, Planned
      <4> QED
        BY <3>1, <4>1, <4>3, <4>4 DEF Heading, Line
    <3> QED
      BY <3>2, <3>3
  <2>3. CASE task[p] \in Draft
    BY <2>3 DEF Shown, Draft
  <2> QED
    BY <1>1, <2>1, <2>2, <2>3 DEF InHand
<1>3. views' \in [Clone -> [Record -> Heading \cup {None, Edited}]]
  <2>1. CASE UNCHANGED views
    BY <2>1 DEF Inv, TypeOK
  <2>2. CASE views' = [views EXCEPT ![Home[p]] =
              [r \in Record |->
                  IF Shown(p, r) = None \/ @[r] = Edited THEN @[r] ELSE Shown(p, r)]]
    BY <1>2, <2>2 DEF Inv, TypeOK
  <2> QED
    BY <2>1, <2>2 DEF View
<1>4. TypeOK'
  BY <1>1, <1>3, Stopped DEF Inv, TypeOK, repoVars
<1> QED
  BY <1>1, <1>4, Stopped, OneStep DEF repoVars

LEMMA DashboardKeeps == ASSUME Inv, NEW p \in Proc, Dashboard(p) PROVE Inv' /\ Others(p)
<1> USE ConstantsAssumption
<1>1. TypeOK /\ Home[p] \in Clone /\ UNCHANGED <<repoVars, procVars, holder, pc>>
  BY DEF Inv, Dashboard
<1>2. ASSUME NEW r \in Record
      PROVE  (IF r \in Present(Home[p]) THEN Canonical(Home[p], r) ELSE views[Home[p]][r])
                \in Heading \cup {None, Edited}
  <2>1. CASE r \in Present(Home[p])
    <3>1. current[Home[p]][r] \in Rev
      BY <1>1, <2>1 DEF Present, TypeOK
    <3>2. Canonical(Home[p], r) \in Heading
      BY <1>1, <3>1, StateTyped DEF Canonical
    <3> QED
      BY <2>1, <3>2
  <2>2. CASE r \notin Present(Home[p])
    BY <1>1, <2>2 DEF TypeOK
  <2> QED
    BY <2>1, <2>2
<1>3. views' \in [Clone -> [Record -> Heading \cup {None, Edited}]]
  BY <1>1, <1>2 DEF TypeOK, Dashboard
<1>4. TypeOK'
  BY <1>1, <1>3 DEF TypeOK, repoVars, procVars
<1>5. Others(p)
  BY <1>1 DEF Others, procVars
<1> QED
  BY <1>1, <1>4, <1>5, NoProcess DEF Inv, IdsOnce, repoVars

LEMMA EditViewKeeps ==
    ASSUME Inv, NEW c \in Clone, NEW r \in Record, EditView(c, r)
    PROVE  Inv'
<1>1. UNCHANGED <<repoVars, procVars, holder, pc>>
  BY DEF EditView
<1>2. views' \in [Clone -> [Record -> Heading \cup {None, Edited}]]
  BY DEF Inv, TypeOK, EditView
<1>3. TypeOK'
  BY <1>1, <1>2 DEF Inv, TypeOK, repoVars, procVars
<1> QED
  BY <1>1, <1>3, NoProcess DEF Inv, IdsOnce, repoVars

LEMMA RecoverKeeps == ASSUME Inv, NEW c \in Clone, Recover(c) PROVE Inv'
<1> USE ConstantsAssumption
<1>1. UNCHANGED <<repoVars, procVars, views, pc>> /\ holder[c] = Dead
      /\ holder' = [holder EXCEPT ![c] = None]
  BY DEF Recover
<1>2. TypeOK'
  BY <1>1 DEF Inv, TypeOK, repoVars, procVars
<1>3. \A q \in Proc : holder[Home[q]] = q => holder'[Home[q]] = q
  BY <1>1 DEF Inv, TypeOK
<1> QED
  BY <1>1, <1>2, <1>3, NoProcess DEF Inv, IdsOnce, repoVars

LEMMA MergeKeeps ==
    ASSUME Inv, NEW c \in Clone, NEW d \in Clone, Merge(c, d)
    PROVE  Inv'
<1>1. TypeOK /\ UNCHANGED <<event, procVars, holder, pc>>
  BY DEF Inv, Merge
<1>2. /\ reviews' \in [Clone -> SUBSET Id] /\ litter' \in [Clone -> SUBSET Proc]
      /\ resolved' \in [Clone -> SUBSET Resolution]
      /\ revs' \in [Clone -> SUBSET (Record \X Rev)] /\ bare' \in [Clone -> SUBSET Record]
  BY <1>1 DEF TypeOK, Merge
<1> PICK theirs \in SUBSET Record :
      /\ current' = [current EXCEPT ![c] =
             [r \in Record |->
                 IF current[d][r] # None /\ (r \in theirs \/ @[r] = None)
                 THEN current[d][r] ELSE @[r]]]
      /\ views' = [views EXCEPT ![c] =
             [r \in Record |->
                 IF views[d][r] # None /\ (r \in theirs \/ @[r] = None)
                 THEN views[d][r] ELSE @[r]]]
  BY DEF Merge
<1>3. current' \in [Clone -> [Record -> Rev \cup {None}]]
  BY <1>1 DEF TypeOK
<1>4. views' \in [Clone -> [Record -> Heading \cup {None, Edited}]]
  BY <1>1 DEF TypeOK
<1>5. TypeOK'
  BY <1>1, <1>2, <1>3, <1>4 DEF TypeOK, procVars
<1>6. \A k \in Clone : \A e \in reviews'[k] : event[e] # NoCard
  BY <1>1 DEF Inv, IdsOnce, TypeOK, Merge
<1> QED
  BY <1>1, <1>5, <1>6, NoProcess

-----------------------------------------------------------------------------
(* Types, and who holds what *)

LEMMA InitInv == Init => Inv
<1> USE ConstantsAssumption
<1> SUFFICES ASSUME Init PROVE Inv
  OBVIOUS
<1>1. TypeOK
  <2>1. NoCard \in [Record -> Line \cup {None}] /\ NoCard \in [Record -> Decision \cup {None}]
        /\ NoCard \in [Record -> Rev \cup {None}] /\ NoCard \in [Record -> Target \cup {None}]
        /\ NoCard \in [Record -> Heading \cup {None, Edited}]
    BY DEF NoCard
  <2>2. event \in [Id -> [Record -> Target \cup {None}]]
        /\ views \in [Clone -> [Record -> Heading \cup {None, Edited}]]
        /\ current \in [Clone -> [Record -> Rev \cup {None}]]
    BY <2>1 DEF Init
  <2>3. card \in [Proc -> [Record -> Line \cup {None}]] /\ plan \in [Proc -> [Record -> Decision \cup {None}]]
    BY <2>1 DEF Init
  <2>4. pc \in [Proc -> Pc] /\ task \in [Proc -> Task] /\ new \in [Proc -> Id \cup {None}]
    BY DEF Init, Pc, Task
  <2>5. /\ bare \in [Clone -> SUBSET Record] /\ revs \in [Clone -> SUBSET (Record \X Rev)]
        /\ reviews \in [Clone -> SUBSET Id] /\ litter \in [Clone -> SUBSET Proc]
        /\ resolved \in [Clone -> SUBSET Resolution]
        /\ holder \in [Clone -> Proc \cup {None, Dead}]
    BY DEF Init
  <2> QED
    BY <2>2, <2>3, <2>4, <2>5 DEF TypeOK
<1>2. ASSUME NEW p \in Proc PROVE HasLock(p) /\ InHand(p)
  <2>1. pc[p] = "idle" /\ new[p] = None /\ task[p] = NoTask /\ card[p] = NoCard /\ plan[p] = NoCard
    BY DEF Init
  <2>2. Planned(p) = {} /\ \A r \in Record : card[p][r] = None
    BY <2>1 DEF Planned, NoCard
  <2> QED
    BY <2>1, <2>2 DEF HasLock, Holding, InHand, Deciding
<1>3. IdsOnce
  BY DEF Init, IdsOnce, Deciding
<1> QED
  BY <1>1, <1>2, <1>3 DEF Inv

LEMMA StepKeeps == ASSUME Inv, NEW p \in Proc, Step(p) PROVE Inv' /\ Others(p)
BY ShowKeeps, GiveUpKeeps, EnterReviewKeeps, EnterResolveKeeps, LockFileKeeps,
   RenameIs, PublishesKeeps, ResolvesKeeps, BeginDraftKeeps, EnterDraftKeeps,
   WriteRevisionKeeps, WritePointerIs, MovesKeeps, YieldsKeeps, ViewKeeps,
   DashboardKeeps DEF Step

LEMMA NextInv == Inv /\ [Next]_vars => Inv'
<1> SUFFICES ASSUME Inv, [Next]_vars PROVE Inv'
  OBVIOUS
<1>1. CASE UNCHANGED vars
  <2>1. TypeOK'
    BY <1>1 DEF Inv, TypeOK, vars, repoVars, procVars
  <2> QED
    BY <1>1, <2>1, NoProcess DEF Inv, IdsOnce, vars, repoVars
<1> QED
  BY <1>1, StepKeeps, CrashKeeps, RecoverKeeps, EditViewKeeps, MergeKeeps DEF Next

\* Every variable keeps the shape the program gives it, merges and kills included.
THEOREM TypeCorrect == Spec => []TypeOK
<1>1. Spec => []Inv
  BY InitInv, NextInv, PTL DEF Spec
<1>2. Inv => TypeOK
  BY DEF Inv
<1> QED
  BY <1>1, <1>2, PTL

-----------------------------------------------------------------------------
(* Files are added and kept *)

Grows ==
    \A c \in Clone :
        /\ reviews[c] \subseteq reviews'[c] /\ revs[c] \subseteq revs'[c]
        /\ \A e \in reviews[c] : event'[e] = event[e]

LEMMA Growth == ASSUME Inv, Next PROVE Grows
<1>1. TypeOK
  BY DEF Inv
<1>2. CASE UNCHANGED <<reviews, revs, event>>
  BY <1>2 DEF Grows
<1>3. ASSUME NEW p \in Proc, Rename(p) PROVE Grows
  <2>1. CASE Resolves(p)
    BY <2>1, <1>2 DEF Resolves
  <2>2. CASE Publishes(p)
    <3>1. event[new[p]] = NoCard /\ new[p] \in Id
      BY <2>2, ContentTyped DEF Publishes
    <3>2. \A e \in Id \ {new[p]} : event'[e] = event[e]
      BY <1>1, <2>2 DEF Publishes, TypeOK
    <3>3. \A c \in Clone : \A e \in reviews[c] : e \in Id \ {new[p]}
      BY <1>1, <3>1 DEF Inv, IdsOnce, TypeOK
    <3>4. \A c \in Clone : reviews[c] \subseteq reviews'[c] /\ revs'[c] = revs[c]
      BY <1>1, <2>2 DEF Publishes, TypeOK
    <3> QED
      BY <3>2, <3>3, <3>4 DEF Grows
  <2> QED
    BY <1>3, <2>1, <2>2, RenameIs
<1>4. ASSUME NEW p \in Proc, WriteRevision(p) PROVE Grows
  BY <1>1, <1>4 DEF Grows, WriteRevision, TypeOK
<1>5. ASSUME NEW c \in Clone, NEW d \in Clone, Merge(c, d) PROVE Grows
  BY <1>1, <1>5 DEF Grows, Merge, TypeOK
<1>6. ASSUME NEW p \in Proc, Step(p), ~Rename(p), ~WriteRevision(p)
      PROVE  UNCHANGED <<reviews, revs, event>>
  BY <1>6 DEF Step, Show, GiveUp, EnterReview, EnterResolve, LockFile, BeginDraft,
              EnterDraft, WritePointer, View, Dashboard, repoVars
<1>7. ASSUME NEW p \in Proc, Crash(p) PROVE UNCHANGED <<reviews, revs, event>>
  BY <1>7 DEF Crash, repoVars
<1>8. ASSUME NEW c \in Clone, Recover(c) \/ \E r \in Record : EditView(c, r)
      PROVE  UNCHANGED <<reviews, revs, event>>
  BY <1>8 DEF Recover, EditView, repoVars
<1> QED
  BY <1>2, <1>3, <1>4, <1>5, <1>6, <1>7, <1>8 DEF Next

LEMMA OnGrows ==
    ASSUME NEW c \in Clone, NEW d \in Clone, NEW r \in Record, NEW v,
           reviews[d] \subseteq reviews'[c], \A e \in reviews[d] : event'[e] = event[e]
    PROVE  On(d, r, v) \subseteq On(c, r, v)'
BY DEF On

\* The edges of clone d are edges of clone c, which has its files now.
LEMMA EdgesKept ==
    ASSUME Inv, NEW c \in Clone, NEW d \in Clone, EdgesSound(d),
           reviews[d] \subseteq reviews'[c], \A e \in reviews[d] : event'[e] = event[e]
    PROVE  /\ \A e \in reviews[d], r \in Record :
                 event'[e][r] # None /\ event'[e][r].sup # None =>
                     event'[e][r].sup \in On(c, r, event[e][r].rev)' \ {e}
           /\ \A n \in resolved[d] :
                 /\ n.review \in On(c, n.record, n.from)'
                 /\ event'[n.review][n.record].decision = "changes"
<1>1. ASSUME NEW e \in reviews[d], NEW r \in Record,
             event'[e][r] # None, event'[e][r].sup # None
      PROVE  event'[e][r].sup \in On(c, r, event[e][r].rev)' \ {e}
  <2>1. event'[e] = event[e]
    OBVIOUS
  <2>2. PICK v : v = event[e][r].rev
    OBVIOUS
  <2>3. event[e][r].sup \in On(d, r, v) \ {e}
    BY <1>1, <2>1, <2>2 DEF EdgesSound
  <2>4. event[e][r].sup \in On(c, r, v)' \ {e}
    BY <2>3, OnGrows
  <2>5. On(c, r, v)' = On(c, r, event[e][r].rev)'
    BY <2>1, <2>2 DEF On
  <2> QED
    BY <2>1, <2>4, <2>5
<1>2. ASSUME NEW n \in resolved[d]
      PROVE  /\ n.review \in On(c, n.record, n.from)'
             /\ event'[n.review][n.record].decision = "changes"
  <2>1. n.review \in On(d, n.record, n.from) /\ event[n.review][n.record].decision = "changes"
    BY DEF EdgesSound
  <2>2. n.record \in Record
    BY DEF Inv, TypeOK, Resolution
  <2>3. n.review \in reviews[d]
    BY <2>1 DEF On
  <2> QED
    BY <2>1, <2>2, <2>3, OnGrows
<1> QED
  BY <1>1, <1>2

LEMMA EdgesStay ==
    ASSUME Inv, NEW c \in Clone, EdgesSound(c), Grows,
           reviews'[c] = reviews[c], resolved'[c] = resolved[c]
    PROVE  EdgesSound(c)'
<1>1. \A e \in reviews[c] : event'[e] = event[e]
  BY DEF Grows
<1>2. /\ \A e \in reviews[c], r \in Record :
            event'[e][r] # None /\ event'[e][r].sup # None =>
                event'[e][r].sup \in On(c, r, event[e][r].rev)' \ {e}
      /\ \A n \in resolved[c] :
            /\ n.review \in On(c, n.record, n.from)'
            /\ event'[n.review][n.record].decision = "changes"
  BY <1>1, EdgesKept
<1> QED
  BY <1>1, <1>2 DEF EdgesSound

LEMMA RefersStays ==
    ASSUME Inv, Grows, NEW q \in Proc, Refers(q),
           pc'[q] = pc[q] \/ (pc[q] = "lockfile" /\ pc'[q] = "rename"),
           card'[q] = card[q], plan'[q] = plan[q], task'[q] = task[q]
    PROVE  Refers(q)'
<1> USE ConstantsAssumption
<1> PICK c \in Clone : c = Home[q]
  OBVIOUS
<1>2. reviews[c] \subseteq reviews'[c] /\ revs[c] \subseteq revs'[c]
      /\ \A e \in reviews[c] : event'[e] = event[e]
  BY DEF Grows
<1>3. pc'[q] = "pointer" => <<task'[q].record, task'[q].rev>> \in revs'[c]
  BY <1>2 DEF Refers
<1>4. ASSUME Deciding(q)', pc'[q] \in {"lockfile", "rename"}, NEW r \in Planned(q)', card'[q][r].head # None
      PROVE  card'[q][r].head \in On(c, r, card[q][r].rev)'
  <2>1. Deciding(q) /\ pc[q] \in {"lockfile", "rename"} /\ r \in Planned(q) /\ r \in Record
    BY <1>4 DEF Deciding, Planned
  <2>2. PICK v, h : v = card[q][r].rev /\ h = card[q][r].head
    OBVIOUS
  <2>3. h \in On(c, r, v)
    BY <1>4, <2>1, <2>2 DEF Refers
  <2>4. h \in On(c, r, v)'
    BY <1>2, <2>1, <2>3, OnGrows
  <2> QED
    BY <2>2, <2>4
<1>5. ASSUME pc'[q] \in {"lockfile", "rename"}, task'[q] # NoTask
      PROVE  /\ task'[q].resolution.review \in On(c, task[q].resolution.record, task[q].resolution.from)'
             /\ event'[task'[q].resolution.review][task'[q].resolution.record].decision = "changes"
  <2>1. task[q].resolution \in Resolution
    <3>1. task[q] \in Task /\ task[q] \notin Draft /\ task[q] # NoTask
      BY <1>5 DEF Inv, TypeOK, InHand, NoTask
    <3> QED
      BY <3>1 DEF Task
  <2>2. PICK n \in Resolution : n = task[q].resolution
    BY <2>1
  <2>3. n.review \in On(c, n.record, n.from) /\ event[n.review][n.record].decision = "changes"
    BY <1>5, <2>2 DEF Refers, NoTask
  <2>4. n.record \in Record /\ n.review \in reviews[c]
    BY <2>3 DEF Resolution, On
  <2>5. n.review \in On(c, n.record, n.from)' /\ event'[n.review][n.record].decision = "changes"
    BY <1>2, <2>3, <2>4, OnGrows
  <2>6. On(c, n.record, n.from)' = On(c, task[q].resolution.record, task[q].resolution.from)'
    BY <2>2 DEF On
  <2> QED
    BY <2>2, <2>5, <2>6
<1> QED
  BY <1>3, <1>4, <1>5 DEF Refers, NoTask

LEMMA OthersRefer ==
    ASSUME Inv, Grows, NEW p \in Proc, Others(p), NEW q \in Proc \ {p}, Refers(q)
    PROVE  Refers(q)'
BY RefersStays DEF Others

LEMMA RefersToNothing ==
    ASSUME NEW p \in Proc, pc'[p] \notin {"pointer", "lockfile", "rename"}
    PROVE  Refers(p)'
BY DEF Refers

\* The repository, as long as no event, resolution or pointer is written.
LEMMA RepositoryStays ==
    ASSUME Inv, Sound, Grows, UNCHANGED <<current, reviews, resolved>>
    PROVE  PointerResolves' /\ EdgesClosed'
<1>1. PointerResolves'
  BY DEF Sound, PointerResolves, Present, Grows
<1>2. ASSUME NEW c \in Clone PROVE EdgesSound(c)'
  BY EdgesStay DEF Sound, EdgesClosed
<1> QED
  BY <1>1, <1>2 DEF EdgesClosed

\* What of a process matters for what is referred to.
LEMMA EnterReviewRefers ==
    ASSUME Inv, Sound, Grows, NEW p \in Proc, EnterReview(p)
    PROVE  Refers(p)'
<1> USE ConstantsAssumption
<1> PICK c \in Clone : c = Home[p]
  OBVIOUS
<1>1. TypeOK /\ InHand(p)  /\ pc[p] = "shown" /\ UNCHANGED <<repoVars, procVars>>
  BY DEF Inv, EnterReview, At
<1>2. pc'[p] = "lockfile" /\ task[p] = NoTask
  BY <1>1 DEF TypeOK, InHand, EnterReview, Goto
<1>3. ASSUME NEW r \in Planned(p), card[p][r].head # None
      PROVE  card[p][r].head \in On(c, r, card[p][r].rev)
  <2>1. r \in Record /\ card[p][r] # None /\ card[p] = Card(c) /\ ~card[p][r].blocked
    BY <1>1 DEF Planned, InHand, EnterReview
  <2>2. /\ card[p][r].rev = current[c][r]
        /\ card[p][r].head = HeadOf(c, r, current[c][r])
        /\ card[p][r].head # Conflict
    BY <1>1, <2>1, CardShows, ZenonT(60)
  <2>3. PICK v : v = current[c][r]
    OBVIOUS
  <2>4. HeadOf(c, r, v) \in On(c, r, v)
    BY <1>1, <1>3, <2>1, <2>2, <2>3, HeadTyped
  <2> QED
    BY <2>2, <2>3, <2>4
<1>4. ASSUME NEW r \in Planned(p)', card'[p][r].head # None
      PROVE  card'[p][r].head \in On(c, r, card[p][r].rev)'
  BY <1>1, <1>3, <1>4 DEF Planned, On, repoVars, procVars
<1> QED
  BY <1>1, <1>2, <1>4 DEF Refers, procVars, NoTask

LEMMA EnterResolveRefers ==
    ASSUME Inv, Sound, Grows, NEW p \in Proc, EnterResolve(p)
    PROVE  Refers(p)'
<1> USE ConstantsAssumption
<1> PICK c \in Clone : c = Home[p]
  OBVIOUS
<1>1. TypeOK  /\ UNCHANGED <<repoVars, card, plan>>
  BY DEF Inv, EnterResolve
<1> PICK n \in Resolution :
       /\ Heads(c, n.record, n.from) = {n.review}
       /\ event[n.review][n.record].decision = "changes"
       /\ task' = [task EXCEPT ![p] = [kind |-> "resolve", resolution |-> n]]
  BY DEF EnterResolve
<1>2. task'[p] = [kind |-> "resolve", resolution |-> n] /\ pc'[p] = "lockfile"
  BY <1>1 DEF TypeOK, EnterResolve, Goto
<1>3. n.review \in On(c, n.record, n.from)
  <2>1. n.record \in Record
    BY DEF Resolution
  <2> QED
    BY <1>1, <2>1, HeadTyped
<1>4. n.review \in On(c, n.record, n.from)' /\ event'[n.review][n.record].decision = "changes"
  BY <1>1, <1>3 DEF On, repoVars
<1>5. ~Deciding(p)'
  BY <1>2 DEF Deciding, NoTask
<1>6. On(c, n.record, n.from)' = On(c, task[p].resolution.record, task[p].resolution.from)'
  BY <1>2 DEF On
<1> QED
  BY <1>2, <1>4, <1>5, <1>6 DEF Refers, NoTask

-----------------------------------------------------------------------------
(* Every step keeps what is referred to *)

LEMMA PublishesSound ==
    ASSUME Inv, Sound, Grows, NEW p \in Proc, Publishes(p)
    PROVE  PointerResolves' /\ EdgesClosed'
<1> USE ConstantsAssumption
<1> PICK c \in Clone : c = Home[p]
  OBVIOUS
<1>1. TypeOK /\ Refers(p) /\ pc[p] = "rename" /\ Deciding(p)
      /\ new[p] \in Id /\ event[new[p]] = NoCard
  BY ContentTyped DEF Inv, Sound, Publishes
<1>2. event'[new[p]] = Content(p) /\ new[p] \in reviews'[c]
      /\ reviews'[c] = reviews[c] \cup {new[p]} /\ resolved'[c] = resolved[c]
      /\ reviews[c] \subseteq reviews'[c] /\ \A e \in reviews[c] : event'[e] = event[e]
  BY <1>1 DEF Publishes, TypeOK, Grows
<1>3. PointerResolves'
  BY DEF Sound, PointerResolves, Present, Publishes
<1>4. EdgesSound(c)
  BY DEF Sound, EdgesClosed
<1>5. ASSUME NEW r \in Record, Content(p)[r] # None, Content(p)[r].sup # None
      PROVE  Content(p)[r].sup \in On(c, r, Content(p)[r].rev)' \ {new[p]}
  <2>1. r \in Planned(p) /\ Content(p)[r].rev = card[p][r].rev /\ Content(p)[r].sup = card[p][r].head
    BY <1>5, ContentTyped DEF Publishes
  <2>2. PICK v, h : v = card[p][r].rev /\ h = card[p][r].head
    OBVIOUS
  <2>3. h \in On(c, r, v)
    BY <1>1, <1>5, <2>1, <2>2 DEF Refers
  <2>4. h \in On(c, r, v)'
    BY <1>2, <2>3, OnGrows
  <2>5. h # new[p]
    BY <1>1, <2>3 DEF On, NoCard
  <2>6. \A k : k \in On(c, r, v)' <=> k \in reviews'[c] /\ event'[k][r] # None /\ event'[k][r].rev = v
    BY DEF On
  <2>7. h \in reviews'[c] /\ event'[h][r] # None /\ event'[h][r].rev = v
    BY <2>4, <2>6
  <2>8. UNCHANGED <<card, plan>> /\ Content(p)' = Content(p)
    BY DEF Publishes, procVars, Content, Supersedes
  <2> QED
    BY <2>1, <2>2, <2>5, <2>7, <2>8 DEF On
<1>6. /\ \A e \in reviews[c], r \in Record :
            event'[e][r] # None /\ event'[e][r].sup # None =>
                event'[e][r].sup \in On(c, r, event[e][r].rev)' \ {e}
      /\ \A n \in resolved[c] :
            /\ n.review \in On(c, n.record, n.from)'
            /\ event'[n.review][n.record].decision = "changes"
  BY <1>2, <1>4, EdgesKept
<1>7. ASSUME NEW e \in reviews'[c], NEW r \in Record,
             event'[e][r] # None, event'[e][r].sup # None
      PROVE  event'[e][r].sup \in On(c, r, event[e][r].rev)' \ {e}
  <2>1. CASE e \in reviews[c]
    BY <1>6, <1>7, <2>1
  <2>2. CASE e = new[p]
    <3>1. event'[e] = Content(p)
      BY <1>2, <2>2
    <3>2. Content(p)[r].sup \in On(c, r, Content(p)[r].rev)' \ {e}
      BY <1>5, <1>7, <2>2, <3>1
    <3>3. Content(p)' = Content(p)
      BY DEF Publishes, procVars, Content, Supersedes
    <3>4. On(c, r, Content(p)[r].rev)' = On(c, r, event[e][r].rev)'
      BY <3>1, <3>3 DEF On
    <3> QED
      BY <3>1, <3>2, <3>4
  <2> QED
    BY <1>2, <2>1, <2>2
<1>8. EdgesSound(c)'
  BY <1>2, <1>6, <1>7 DEF EdgesSound
<1>9. ASSUME NEW d \in Clone, d # c PROVE EdgesSound(d)'
  <2>1. reviews'[d] = reviews[d] /\ resolved'[d] = resolved[d]
    BY <1>1, <1>9 DEF Publishes, TypeOK
  <2> QED
    BY <2>1, EdgesStay DEF Sound, EdgesClosed
<1> QED
  BY <1>3, <1>8, <1>9 DEF EdgesClosed

LEMMA ResolvesSound ==
    ASSUME Inv, Sound, Grows, NEW p \in Proc, Resolves(p)
    PROVE  PointerResolves' /\ EdgesClosed'
<1> USE ConstantsAssumption
<1> PICK c \in Clone : c = Home[p]
  OBVIOUS
<1>1. TypeOK /\ Refers(p) /\ pc[p] = "rename" /\ task[p].kind = "resolve"
      /\ UNCHANGED <<event, reviews, current, bare, revs, views>>
  BY DEF Inv, Sound, Resolves
<1>2. PICK n \in Resolution : n = task[p].resolution
  <2>1. task[p] \in Task /\ task[p].kind = "resolve"
    BY <1>1 DEF TypeOK
  <2>2. task[p].resolution \in Resolution
    BY <2>1 DEF Task, Draft, NoTask
  <2> QED
    BY <2>2
<1>3. n.review \in On(c, n.record, n.from) /\ event[n.review][n.record].decision = "changes"
  BY <1>1, <1>2 DEF Refers, NoTask
<1>4. resolved'[c] = resolved[c] \cup {n}
  BY <1>1, <1>2 DEF Resolves, TypeOK
<1>5. EdgesSound(c)'
  BY <1>1, <1>3, <1>4 DEF Sound, EdgesClosed, EdgesSound, On
<1>6. ASSUME NEW d \in Clone, d # c PROVE EdgesSound(d)'
  <2>1. reviews'[d] = reviews[d] /\ resolved'[d] = resolved[d]
    BY <1>1, <1>6 DEF Resolves, TypeOK
  <2> QED
    BY <2>1, EdgesStay DEF Sound, EdgesClosed
<1>7. PointerResolves'
  BY <1>1 DEF Sound, PointerResolves, Present
<1> QED
  BY <1>5, <1>6, <1>7 DEF EdgesClosed

LEMMA MovesSound ==
    ASSUME Inv, Sound, Grows, NEW p \in Proc, Moves(p)
    PROVE  PointerResolves' /\ EdgesClosed'
<1> USE ConstantsAssumption
<1>1. TypeOK /\ Refers(p) /\ pc[p] = "pointer"
  BY DEF Inv, Sound, Moves
<1>2. <<task[p].record, task[p].rev>> \in revs[Home[p]] /\ task[p].record \in Record
  BY <1>1, DraftTyped DEF Refers
<1>3. PointerResolves'
  BY <1>1, <1>2 DEF Sound, PointerResolves, Present, Moves, TypeOK
<1>4. ASSUME NEW c \in Clone PROVE EdgesSound(c)'
  BY EdgesStay DEF Sound, EdgesClosed, Moves
<1> QED
  BY <1>3, <1>4 DEF EdgesClosed

LEMMA MergeSound ==
    ASSUME Inv, Sound, Grows, NEW c \in Clone, NEW d \in Clone, Merge(c, d)
    PROVE  PointerResolves' /\ EdgesClosed'
<1>1. TypeOK /\ UNCHANGED event
  BY DEF Inv, Merge
<1>2. PointerResolves'
  <2> SUFFICES ASSUME NEW k \in Clone, NEW r \in Record, current'[k][r] # None
               PROVE  <<r, current'[k][r]>> \in revs'[k]
    BY DEF PointerResolves, Present
  <2>1. CASE k = c
    <3>1. current'[c][r] \in {current[c][r], current[d][r]}
      BY <1>1 DEF Merge, TypeOK
    <3>2. revs'[c] = revs[c] \cup revs[d]
      BY <1>1 DEF Merge, TypeOK
    <3> QED
      BY <2>1, <3>1, <3>2 DEF Sound, PointerResolves, Present
  <2>2. CASE k # c
    BY <1>1, <2>2 DEF Merge, TypeOK, Sound, PointerResolves, Present
  <2> QED
    BY <2>1, <2>2
<1>3. reviews'[c] = reviews[c] \cup reviews[d] /\ resolved'[c] = resolved[c] \cup resolved[d]
  BY <1>1 DEF Merge, TypeOK
<1>4. ASSUME NEW k \in {c, d}
      PROVE  /\ \A e \in reviews[k], r \in Record :
                   event'[e][r] # None /\ event'[e][r].sup # None =>
                       event'[e][r].sup \in On(c, r, event[e][r].rev)' \ {e}
             /\ \A n \in resolved[k] :
                   /\ n.review \in On(c, n.record, n.from)'
                   /\ event'[n.review][n.record].decision = "changes"
  <2>1. k \in Clone /\ EdgesSound(k) /\ reviews[k] \subseteq reviews'[c]
        /\ \A e \in reviews[k] : event'[e] = event[e]
    BY <1>1, <1>3 DEF Sound, EdgesClosed
  <2> QED
    BY <2>1, EdgesKept
<1>5. EdgesSound(c)'
  BY <1>3, <1>4 DEF EdgesSound
<1>6. ASSUME NEW k \in Clone, k # c PROVE EdgesSound(k)'
  <2>1. reviews'[k] = reviews[k] /\ resolved'[k] = resolved[k]
    BY <1>1, <1>6 DEF Merge, TypeOK
  <2> QED
    BY <2>1, EdgesStay DEF Sound, EdgesClosed
<1> QED
  BY <1>2, <1>5, <1>6 DEF EdgesClosed

LEMMA StepSound == ASSUME Inv, Sound, Grows, NEW p \in Proc, Step(p) \/ Crash(p) PROVE Sound'
<1>1. Others(p) /\ TypeOK
  BY StepKeeps, CrashKeeps DEF Inv
<1>2. \A q \in Proc \ {p} : Refers(q)'
  BY <1>1, OthersRefer DEF Sound
<1>3. ASSUME NEW s \in {"idle", "shown", "draft", "revision", "view"}, pc' = [pc EXCEPT ![p] = s]
      PROVE  Refers(p)'
  <2>1. pc'[p] = s
    BY <1>1, <1>3 DEF TypeOK
  <2> QED
    BY <2>1, RefersToNothing
<1>4. ASSUME Show(p) \/ GiveUp(p) \/ BeginDraft(p) \/ EnterDraft(p) \/ View(p) \/ Crash(p)
             \/ Yields(p)
      PROVE  Refers(p)' /\ UNCHANGED <<current, reviews, resolved>>
  <2>1. \E s \in {"idle", "shown", "draft", "revision", "view"} : pc' = [pc EXCEPT ![p] = s]
    BY <1>4 DEF Show, GiveUp, BeginDraft, EnterDraft, View, Crash, Yields, Goto
  <2>2. UNCHANGED <<current, reviews, resolved>>
    BY <1>4 DEF Show, GiveUp, BeginDraft, EnterDraft, View, Crash, Yields, repoVars
  <2> QED
    BY <2>1, <2>2, <1>3
<1>5. ASSUME EnterReview(p) \/ EnterResolve(p)
      PROVE  Refers(p)' /\ UNCHANGED <<current, reviews, resolved>>
  BY <1>5, EnterReviewRefers, EnterResolveRefers DEF EnterReview, EnterResolve, repoVars
<1>6. ASSUME LockFile(p) PROVE Refers(p)' /\ UNCHANGED <<current, reviews, resolved>>
  <2>1. pc[p] = "lockfile" /\ pc'[p] = "rename" /\ UNCHANGED <<card, plan, task>>
    BY <1>1, <1>6 DEF LockFile, At, Goto, TypeOK, procVars
  <2> QED
    BY <1>6, <2>1, RefersStays DEF LockFile, Sound
<1>7. ASSUME Dashboard(p) PROVE Refers(p)' /\ UNCHANGED <<current, reviews, resolved>>
  BY <1>7, RefersStays DEF Dashboard, Sound, repoVars, procVars
<1>8. ASSUME UNCHANGED <<current, reviews, resolved>>, Refers(p)' PROVE Sound'
  BY <1>2, <1>8, RepositoryStays DEF Sound
<1>9. CASE WriteRevision(p)
  <2>1. UNCHANGED <<current, reviews, resolved, procVars>> /\ pc' = [pc EXCEPT ![p] = "pointer"]
    BY <1>9 DEF WriteRevision, Goto
  <2>2. <<task[p].record, task[p].rev>> \in revs'[Home[p]]
    BY <1>1, <1>9, ConstantsAssumption DEF WriteRevision, TypeOK
  <2>3. pc'[p] = "pointer"
    BY <1>1, <2>1 DEF TypeOK
  <2>4. ~Deciding(p)'
    BY <2>3 DEF Deciding
  <2>5. Refers(p)'
    BY <2>1, <2>2, <2>3, <2>4 DEF Refers, procVars
  <2> QED
    BY <1>8, <2>1, <2>5
<1>10. CASE Publishes(p) \/ Resolves(p) \/ Moves(p)
  <2>1. \E s \in {"idle", "shown", "draft", "revision", "view"} : pc' = [pc EXCEPT ![p] = s]
    BY <1>10 DEF Publishes, Resolves, Moves, Goto
  <2> QED
    BY <1>2, <1>3, <1>10, <2>1, PublishesSound, ResolvesSound, MovesSound DEF Sound
<1> QED
  BY <1>4, <1>5, <1>6, <1>7, <1>8, <1>9, <1>10, RenameIs, WritePointerIs DEF Step

LEMMA NextSound == Inv /\ Sound /\ [Next]_vars => Sound'
<1> SUFFICES ASSUME Inv, Sound, [Next]_vars PROVE Sound'
  OBVIOUS
<1>1. CASE UNCHANGED vars
  <2>1. Grows
    BY <1>1 DEF Grows, vars, repoVars
  <2>2. \A p \in Proc : Refers(p)'
    BY <1>1, <2>1, RefersStays DEF Sound, vars, procVars
  <2> QED
    BY <1>1, <2>1, <2>2, RepositoryStays DEF Sound, vars, repoVars
<1>2. CASE Next
  <2>1. Grows
    BY <1>2, Growth
  <2>2. ASSUME NEW p \in Proc, Step(p) \/ Crash(p) PROVE Sound'
    BY <2>1, <2>2, StepSound
  <2>3. ASSUME UNCHANGED <<procVars, pc>> PROVE \A p \in Proc : Refers(p)'
    BY <2>1, <2>3, RefersStays DEF Sound, procVars
  <2>4. ASSUME NEW c \in Clone, Recover(c) \/ \E r \in Record : EditView(c, r) PROVE Sound'
    <3>1. UNCHANGED <<repoVars, procVars, pc>>
      BY <2>4 DEF Recover, EditView
    <3> QED
      BY <2>1, <2>3, <3>1, RepositoryStays DEF Sound, repoVars
  <2>5. ASSUME NEW c \in Clone, NEW d \in Clone, Merge(c, d) PROVE Sound'
    <3>1. UNCHANGED <<procVars, pc>>
      BY <2>5 DEF Merge
    <3> QED
      BY <2>1, <2>3, <2>5, <3>1, MergeSound DEF Sound
  <2> QED
    BY <1>2, <2>2, <2>4, <2>5 DEF Next
<1> QED
  BY <1>1, <1>2

LEMMA InitSound == Init => Sound
BY ConstantsAssumption DEF Init, Sound, PointerResolves, Present, NoCard, EdgesClosed, EdgesSound, Refers

\* Whatever git merges and wherever a process is killed, current.yaml names a
\* revision whose file is there, no event supersedes one of another target or a
\* missing one, and what is resolved asked for changes.
THEOREM ReferencesAlwaysResolve == Spec => []ReferencesResolve
<1>1. Spec => [](Inv /\ Sound)
  BY InitInv, NextInv, InitSound, NextSound, PTL DEF Spec
<1>2. Sound => ReferencesResolve
  BY DEF Sound, ReferencesResolve
<1> QED
  BY <1>1, <1>2, PTL

-----------------------------------------------------------------------------
(* What the reviews say changes only when one is added *)

LEMMA SameGraph ==
    ASSUME TypeOK, Grows, NEW c \in Clone, NEW r \in Record, NEW v, reviews'[c] = reviews[c]
    PROVE  /\ On(c, r, v)' = On(c, r, v) /\ Heads(c, r, v)' = Heads(c, r, v)
           /\ HeadOf(c, r, v)' = HeadOf(c, r, v)
           /\ Expected(c, r, v)' = Expected(c, r, v)
<1>1. \A e \in reviews[c] : event'[e] = event[e]
  BY DEF Grows
<1>2. ASSUME NEW u
      PROVE  On(c, r, u)' = On(c, r, u) /\ Heads(c, r, u)' = Heads(c, r, u)
  <2>1. On(c, r, u)' = On(c, r, u)
    BY <1>1 DEF On
  <2>2. \A e \in On(c, r, u) : event'[e][r].sup = event[e][r].sup
    BY <1>1 DEF On
  <2>3. {event'[e][r].sup : e \in On(c, r, u)} = {event[e][r].sup : e \in On(c, r, u)}
    BY <2>2
  <2>4. Heads(c, r, u)' = On(c, r, u) \ {event'[e][r].sup : e \in On(c, r, u)}
    BY <2>1 DEF Heads
  <2> QED
    BY <2>1, <2>3, <2>4 DEF Heads
<1>3. HeadOf(c, r, v)' = HeadOf(c, r, v)
  BY <1>2 DEF HeadOf
<1>4. Previous(c, r, v)' = Previous(c, r, v)
  <2>1. ASSUME NEW e \in reviews[c]
        PROVE  /\ event'[e] = event[e]
               /\ Heads(c, r, event[e][r].rev)' = Heads(c, r, event[e][r].rev)
    <3>1. PICK u : u = event[e][r].rev
      OBVIOUS
    <3>2. Heads(c, r, u)' = Heads(c, r, u) /\ event'[e] = event[e]
      BY <1>1, <1>2
    <3>3. Heads(c, r, event[e][r].rev)' = Heads(c, r, u)'
      BY <3>1, <3>2 DEF Heads, On
    <3> QED
      BY <3>1, <3>2, <3>3
  <2> QED
    BY <2>1 DEF Previous
<1>5. StateOf(c, r, v)' = StateOf(c, r, v)
  <2>1. PICK head : head = HeadOf(c, r, v)
    OBVIOUS
  <2>2. HeadOf(c, r, v)' = head
    BY <1>3, <2>1
  <2>3. head \notin {None, Conflict} => event'[head] = event[head]
    BY <1>1, <2>1, HeadTyped
  <2> QED
    BY <1>4, <2>1, <2>2, <2>3 DEF StateOf
<1> QED
  BY <1>2, <1>3, <1>5 DEF Expected

LEMMA TheHead ==
    ASSUME OneHead, NEW c \in Clone, NEW r \in Record, NEW v \in Rev, NEW k \in Heads(c, r, v)
    PROVE  Heads(c, r, v) = {k} /\ HeadOf(c, r, v) = k
<1>1. \A e \in Heads(c, r, v) : e = k
  BY DEF OneHead
<1>2. Heads(c, r, v) = {k}
  BY <1>1
<1>3. (CHOOSE e \in Heads(c, r, v) : TRUE) = k
  BY <1>2
<1> QED
  BY <1>1, <1>2, <1>3 DEF HeadOf

LEMMA UnmovedStays ==
    ASSUME Inv, Grows, NEW q \in Proc, Unmoved(q),
           \/ pc'[q] = pc[q]
           \/ pc[q] = "lockfile" /\ pc'[q] = "rename"
           \/ pc[q] = "revision" /\ pc'[q] = "pointer",
           card'[q] = card[q], plan'[q] = plan[q], task'[q] = task[q], new'[q] = new[q],
           pc[q] \in Holding =>
               current'[Home[q]] = current[Home[q]] /\ reviews'[Home[q]] = reviews[Home[q]]
    PROVE  Unmoved(q)'
<1> USE ConstantsAssumption
<1> PICK c \in Clone : c = Home[q]
  OBVIOUS
<1>1. TypeOK /\ InHand(q)
  BY DEF Inv
<1>2. CASE pc[q] \notin Holding
  <2>1. pc'[q] = pc[q]
    BY <1>2 DEF Holding
  <2> QED
    BY <1>2, <2>1 DEF Unmoved, Holding
<1>3. CASE pc[q] \in Holding
  <2>1. current'[c] = current[c] /\ reviews'[c] = reviews[c]
    BY <1>3
  <2>2. \A e \in reviews[c] : event'[e] = event[e]
    BY DEF Grows
  <2>3. Planned(q)' = Planned(q) /\ Planned(q) \subseteq Record /\ NoTask' = NoTask
    BY DEF Planned, NoTask
  <2>4. ASSUME NEW r \in Planned(q)
        PROVE  /\ r \in Record
               /\ HeadOf(c, r, card[q][r].rev)' = HeadOf(c, r, card[q][r].rev)
               /\ Heads(c, r, card[q][r].rev)' = Heads(c, r, card[q][r].rev)
    <3>1. PICK v : v = card[q][r].rev
      OBVIOUS
    <3>2. HeadOf(c, r, v)' = HeadOf(c, r, v) /\ Heads(c, r, v)' = Heads(c, r, v) /\ On(c, r, v)' = On(c, r, v)
      BY <1>1, <2>1, <2>3, SameGraph
    <3>3. On(c, r, card[q][r].rev)' = On(c, r, v)'
      BY <3>1 DEF On
    <3>4. Heads(c, r, card[q][r].rev)' = Heads(c, r, v)'
      BY <3>3 DEF Heads
    <3>5. HeadOf(c, r, card[q][r].rev)' = HeadOf(c, r, v)'
      BY <3>4 DEF HeadOf
    <3> QED
      BY <2>3, <3>1, <3>2, <3>4, <3>5
  <2>5. ASSUME Deciding(q)', pc'[q] \in {"lockfile", "rename"}, NEW r \in Planned(q)'
        PROVE  /\ current'[c][r] = card'[q][r].rev
               /\ (HeadOf(c, r, card[q][r].rev) = card[q][r].head)'
    <3>1. Deciding(q) /\ pc[q] \in {"lockfile", "rename"}
      BY <2>5 DEF Deciding
    <3> QED
      BY <2>1, <2>3, <2>4, <3>1 DEF Unmoved
  <2>6. ASSUME Deciding(q)', pc'[q] = "view", NEW r \in Planned(q)'
        PROVE  /\ current'[c][r] = card'[q][r].rev
               /\ (Heads(c, r, card[q][r].rev) = {new[q]})'
               /\ event'[new'[q]][r].decision = plan'[q][r]
    <3>1. Deciding(q) /\ pc[q] = "view"
      BY <2>6 DEF Deciding
    <3>2. /\ current[c][r] = card[q][r].rev
          /\ Heads(c, r, card[q][r].rev) = {new[q]}
          /\ event[new[q]][r].decision = plan[q][r]
      BY <2>3, <3>1 DEF Unmoved
    <3>3. new[q] \in reviews[c]
      <4>1. PICK v : v = card[q][r].rev
        OBVIOUS
      <4>2. Heads(c, r, v) \subseteq reviews[c] /\ r \in Record
        <5>1. r \in Record
          BY <2>3, <2>6
        <5> QED
          BY <1>1, <5>1, HeadTyped
      <4> QED
        BY <3>2, <4>1, <4>2
    <3> QED
      BY <2>1, <2>2, <2>3, <2>4, <3>2, <3>3
  <2>7. ASSUME pc'[q] \in {"revision", "pointer", "view"}, task'[q] # NoTask
        PROVE  (task[q].shows = Expected(c, task[q].record, task[q].rev))'
    <3>1. pc[q] \in {"revision", "pointer", "view"} /\ task[q] # NoTask
      BY <2>7
    <3>2. task[q] \in Draft
      BY <1>1, <3>1 DEF InHand
    <3>3. PICK r \in Record, v \in Rev : r = task[q].record /\ v = task[q].rev
      BY <3>2 DEF Draft
    <3>4. task[q].shows = Expected(c, r, v)
      BY <3>1, <3>3 DEF Unmoved
    <3>5. Expected(c, r, v)' = Expected(c, r, v)
      BY <1>1, <2>1, SameGraph
    <3>6. Expected(c, r, v)' = Expected(c, task[q].record, task[q].rev)'
      BY <3>3 DEF Expected, HeadOf, Heads, On, StateOf, Previous
    <3> QED
      BY <3>4, <3>5, <3>6
  <2>8. pc'[q] = "view" /\ task'[q] # NoTask => current'[c][task'[q].record] = task'[q].rev
    BY <2>1 DEF Unmoved
  <2> QED
    BY <2>3, <2>5, <2>6, <2>7, <2>8 DEF Unmoved
<1> QED
  BY <1>2, <1>3

LEMMA Undisturbed ==
    ASSUME Inv, NEW p \in Proc, Step(p) \/ Crash(p), NEW q \in Proc \ {p}, pc[q] \in Holding
    PROVE  current'[Home[q]] = current[Home[q]] /\ reviews'[Home[q]] = reviews[Home[q]]
<1> USE ConstantsAssumption
<1>1. TypeOK /\ holder[Home[q]] = q
  BY DEF Inv, HasLock
<1>2. ASSUME Publishes(p) \/ Moves(p) PROVE Home[p] # Home[q]
  BY <1>1, <1>2 DEF Inv, HasLock, Holding, Publishes, Moves
<1>3. CASE Publishes(p)
  BY <1>1, <1>2, <1>3 DEF Publishes, TypeOK
<1>4. CASE Moves(p)
  BY <1>1, <1>2, <1>4 DEF Moves, TypeOK
<1>5. CASE UNCHANGED <<current, reviews>>
  BY <1>5
<1>6. ASSUME Resolves(p) \/ Yields(p) PROVE UNCHANGED <<current, reviews>>
  BY <1>6 DEF Resolves, Yields, repoVars
<1>7. ASSUME Show(p) \/ GiveUp(p) \/ EnterReview(p) \/ EnterResolve(p) \/ LockFile(p)
             \/ BeginDraft(p) \/ EnterDraft(p) \/ WriteRevision(p) \/ View(p) \/ Dashboard(p)
             \/ Crash(p)
      PROVE  UNCHANGED <<current, reviews>>
  BY <1>7 DEF Show, GiveUp, EnterReview, EnterResolve, LockFile, BeginDraft, EnterDraft,
              WriteRevision, View, Dashboard, Crash, repoVars
<1> QED
  BY <1>3, <1>4, <1>5, <1>6, <1>7, RenameIs, WritePointerIs DEF Step

LEMMA OneHeadStays ==
    ASSUME TypeOK, OneHead, Grows, NEW c \in Clone, reviews'[c] = reviews[c],
           NEW r \in Record, NEW v \in Rev
    PROVE  \A d, e \in Heads(c, r, v)' : d = e
BY SameGraph DEF OneHead

\* The head of what is decided becomes the new event.
LEMMA PublishesHeads ==
    ASSUME Inv, Sound, Grows, Still, NEW p \in Proc, Publishes(p),
           NEW r \in Record, NEW v \in Rev
    PROVE  Heads(Home[p], r, v)' =
              IF r \in Planned(p) /\ card[p][r].rev = v THEN {new[p]} ELSE Heads(Home[p], r, v)
<1> USE ConstantsAssumption
<1> PICK c \in Clone : c = Home[p]
  OBVIOUS
<1> PICK e \in Id : e = new[p]
  BY ContentTyped DEF Publishes
<1>1. /\ TypeOK /\ Refers(p) /\ Unmoved(p) /\ OneHead /\ EdgesSound(c)
      /\ pc[p] = "rename" /\ Deciding(p) /\ event[e] = NoCard
  BY ContentTyped DEF Inv, Sound, EdgesClosed, Still, Publishes
<1>2. /\ event'[e] = Content(p) /\ reviews'[c] = reviews[c] \cup {e}
      /\ \A f \in reviews[c] : event'[f] = event[f]
  BY <1>1 DEF Publishes, TypeOK, Grows
<1>3. e \notin reviews[c]
  BY <1>1 DEF Inv, IdsOnce
<1>4. CASE r \in Planned(p) /\ card[p][r].rev = v
  <2>1. PICK h : h = card[p][r].head
    OBVIOUS
  <2>2. Content(p)[r] # None /\ Content(p)[r].rev = v /\ Content(p)[r].sup = h
    BY <1>4, <2>1, ContentTyped DEF Publishes
  <2>3. h # None => h \in On(c, r, v)
    BY <1>1, <1>4, <2>1 DEF Refers
  <2>4. HeadOf(c, r, v) = h
    BY <1>1, <1>4, <2>1 DEF Unmoved
  <2>5. On(c, r, v)' = On(c, r, v) \cup {e}
    BY <1>2, <2>2 DEF On
  <2>6. {event'[f][r].sup : f \in On(c, r, v)'} = {event[f][r].sup : f \in On(c, r, v)} \cup {h}
    <3>1. \A f \in On(c, r, v) : event'[f][r].sup = event[f][r].sup
      BY <1>2 DEF On
    <3>2. event'[e][r].sup = h
      BY <1>2, <2>2
    <3> QED
      BY <2>5, <3>1, <3>2
  <2>7. Heads(c, r, v)' = On(c, r, v)' \ {event'[f][r].sup : f \in On(c, r, v)'}
    BY DEF Heads
  <2>8. ASSUME NEW k \in On(c, r, v)
        PROVE  k \in {event[f][r].sup : f \in On(c, r, v)} \cup {h}
    <3>1. CASE k \in Heads(c, r, v)
      BY <1>1, <2>4, <3>1, TheHead
    <3>2. CASE k \notin Heads(c, r, v)
      BY <3>2 DEF Heads
    <3> QED
      BY <3>1, <3>2
  <2>9. e \notin {event[f][r].sup : f \in On(c, r, v)} \cup {h}
    <3>1. ASSUME NEW f \in On(c, r, v), event[f][r].sup # None
          PROVE  event[f][r].sup \in reviews[c]
      BY <1>1, <3>1 DEF EdgesSound, On
    <3>2. h # None => h \in reviews[c]
      BY <2>3 DEF On
    <3> QED
      BY <1>3, <3>1, <3>2
  <2>10. Heads(c, r, v)' = {e}
    BY <2>5, <2>6, <2>7, <2>8, <2>9
  <2> QED
    BY <1>4, <2>10
<1>5. CASE ~(r \in Planned(p) /\ card[p][r].rev = v)
  <2>1. Content(p)[r] = None \/ Content(p)[r].rev # v
    BY <1>5, ContentTyped DEF Publishes
  <2>2. On(c, r, v)' = On(c, r, v)
    BY <1>2, <2>1 DEF On
  <2>3. \A f \in On(c, r, v) : event'[f][r].sup = event[f][r].sup
    BY <1>2 DEF On
  <2>4. {event'[f][r].sup : f \in On(c, r, v)} = {event[f][r].sup : f \in On(c, r, v)}
    BY <2>3
  <2>5. Heads(c, r, v)' = On(c, r, v) \ {event'[f][r].sup : f \in On(c, r, v)}
    BY <2>2 DEF Heads
  <2>6. Heads(c, r, v)' = Heads(c, r, v)
    BY <2>4, <2>5 DEF Heads
  <2> QED
    BY <1>5, <2>6
<1> QED
  BY <1>4, <1>5

LEMMA PublishesStill ==
    ASSUME Inv, Sound, Grows, Still, NEW p \in Proc, Publishes(p)
    PROVE  OneHead' /\ Unmoved(p)'
<1> USE ConstantsAssumption
<1> PICK c \in Clone : c = Home[p]
  OBVIOUS
<1>1. /\ TypeOK /\ Unmoved(p) /\ OneHead /\ pc[p] = "rename" /\ task[p] = NoTask /\ Deciding(p)
      /\ InHand(p) /\ UNCHANGED <<current, procVars>>
  BY ContentTyped DEF Inv, Still, Publishes
<1>2. ASSUME NEW d \in Clone, NEW r \in Record, NEW v \in Rev
      PROVE  \A e, f \in Heads(d, r, v)' : e = f
  <2>1. CASE d = c
    BY <1>1, <2>1, PublishesHeads DEF OneHead
  <2>2. CASE d # c
    <3>1. reviews'[d] = reviews[d]
      BY <1>1, <2>2 DEF Publishes, TypeOK
    <3> QED
      BY <1>1, <3>1, OneHeadStays
  <2> QED
    BY <2>1, <2>2
<1>3. OneHead'
  BY <1>2 DEF OneHead
<1>4. pc'[p] = "view" /\ event'[new[p]] = Content(p)
  BY <1>1, ContentTyped DEF Publishes, TypeOK
<1>5. ASSUME NEW r \in Planned(p)
      PROVE  /\ current'[c][r] = card'[p][r].rev
             /\ (Heads(c, r, card[p][r].rev) = {new[p]})'
             /\ event'[new'[p]][r].decision = plan'[p][r]
  <2>1. r \in Record /\ card[p][r] \in Line
    BY <1>1 DEF Planned, InHand, TypeOK
  <2>2. PICK v \in Rev : v = card[p][r].rev
    BY <2>1 DEF Line
  <2>3. current[c][r] = v
    BY <1>1, <2>2 DEF Unmoved
  <2>4. Heads(c, r, v)' = {new[p]}
    BY <2>1, <2>2, PublishesHeads
  <2>5. Heads(c, r, card[p][r].rev)' = Heads(c, r, v)'
    BY <1>1, <2>2 DEF Heads, On, procVars
  <2>6. Content(p)[r].decision = plan[p][r]
    BY <1>1, <2>1, ContentTyped
  <2> QED
    BY <1>1, <1>4, <2>2, <2>3, <2>4, <2>5, <2>6 DEF procVars
<1>6. Unmoved(p)'
  <2>1. Planned(p)' = Planned(p) /\ task'[p] = NoTask /\ NoTask' = NoTask
    BY <1>1 DEF Planned, procVars, NoTask
  <2> QED
    BY <1>4, <1>5, <2>1 DEF Unmoved
<1> QED
  BY <1>3, <1>6

LEMMA MovesStill ==
    ASSUME Inv, Grows, Still, NEW p \in Proc, Moves(p)
    PROVE  Unmoved(p)'
<1> USE ConstantsAssumption
<1> PICK c \in Clone : c = Home[p]
  OBVIOUS
<1>1. TypeOK /\ Unmoved(p) /\ pc[p] = "pointer" /\ UNCHANGED <<reviews, procVars>>
  BY DEF Inv, Still, Moves
<1>2. PICK r \in Record, v \in Rev : r = task[p].record /\ v = task[p].rev
  BY <1>1, DraftTyped
<1>3. task[p] # NoTask /\ task'[p] = task[p] /\ pc'[p] = "view" /\ NoTask' = NoTask
  BY <1>1, DraftTyped DEF Moves, TypeOK, procVars, NoTask
<1>4. task[p].shows = Expected(c, r, v)
  BY <1>1, <1>2, <1>3 DEF Unmoved
<1>5. Expected(c, r, v)' = Expected(c, r, v)
  BY <1>1, SameGraph
<1>6. Expected(c, task[p].record, task[p].rev)' = Expected(c, r, v)'
  BY <1>2, <1>3 DEF Expected, HeadOf, Heads, On, StateOf, Previous
<1>7. current'[c][task'[p].record] = task'[p].rev
  BY <1>1, <1>2, <1>3 DEF Moves, TypeOK
<1> QED
  BY <1>3, <1>4, <1>5, <1>6, <1>7 DEF Unmoved, Deciding

LEMMA EnterReviewStill ==
    ASSUME Inv, NEW p \in Proc, EnterReview(p)
    PROVE  Unmoved(p)'
<1> USE ConstantsAssumption
<1> PICK c \in Clone : c = Home[p]
  OBVIOUS
<1>1. TypeOK /\ InHand(p) /\ pc[p] = "shown" /\ UNCHANGED <<repoVars, procVars>> /\ card[p] = Card(c)
  BY DEF Inv, EnterReview, At
<1>2. pc'[p] = "lockfile" /\ task[p] = NoTask
  BY <1>1 DEF TypeOK, InHand, EnterReview, Goto
<1>3. ASSUME NEW r \in Planned(p)
      PROVE  current[c][r] = card[p][r].rev /\ HeadOf(c, r, card[p][r].rev) = card[p][r].head
  <2>1. r \in Record /\ card[p][r] # None /\ card[p] = Card(c)
    BY <1>1 DEF Planned, InHand
  <2>2. Card(c)[r] # None =>
            Card(c)[r].rev = current[c][r] /\ Card(c)[r].head = HeadOf(c, r, current[c][r])
    BY <1>1, <2>1, CardShows
  <2>3. card[p][r].rev = current[c][r] /\ card[p][r].head = HeadOf(c, r, current[c][r])
    BY <2>1, <2>2
  <2> QED
    BY <2>3
<1>4. ASSUME NEW r \in Planned(p)
      PROVE  HeadOf(c, r, card[p][r].rev)' = HeadOf(c, r, card[p][r].rev)
  BY <1>1 DEF HeadOf, Heads, On, repoVars, procVars
<1>5. Planned(p)' = Planned(p) /\ NoTask' = NoTask
  BY <1>1 DEF Planned, procVars, NoTask
<1> QED
  BY <1>1, <1>2, <1>3, <1>4, <1>5 DEF Unmoved, procVars, repoVars

LEMMA EnterDraftStill ==
    ASSUME Inv, NEW p \in Proc, EnterDraft(p)
    PROVE  /\ Unmoved(p)'
           /\ pc'[p] = "revision" => task'[p].read = task'[p].expected
           /\ pc'[p] \in {"revision", "view"}
<1> USE ConstantsAssumption
<1> PICK c \in Clone : c = Home[p]
  OBVIOUS
<1>1. TypeOK /\ pc[p] = "draft" /\ UNCHANGED <<repoVars, views, card, plan, new>>
  BY DEF Inv, EnterDraft, At
<1>2. PICK r \in Record, v \in Rev : r = task[p].record /\ v = task[p].rev /\ task[p] \in Draft
  BY <1>1, DraftTyped
<1> DEFINE shows == Expected(c, r, v)
<1>3. task' = [task EXCEPT ![p].read = current[c][r], ![p].shows = shows]
  BY <1>2 DEF EnterDraft
<1>4. \/ current[c][r] = v /\ pc'[p] = "view"
      \/ current[c][r] = task[p].expected /\ pc'[p] = "revision"
  BY <1>1, <1>2 DEF EnterDraft, Goto, TypeOK
<1>5. Expected(c, r, v)' = shows
  BY <1>1 DEF Expected, HeadOf, Heads, On, StateOf, Previous, repoVars
<1> HIDE DEF shows
<1>6. /\ task'[p].read = current[c][r] /\ task'[p].shows = shows
      /\ task'[p].record = r /\ task'[p].rev = v /\ task'[p].expected = task[p].expected
      /\ task'[p].kind = "draft"
  BY <1>1, <1>2, <1>3 DEF TypeOK, Draft
<1>7. Expected(c, task[p].record, task[p].rev)' = Expected(c, r, v)'
  BY <1>6 DEF Expected, HeadOf, Heads, On, StateOf, Previous
<1>8. ~Deciding(p)'
  BY <1>6 DEF Deciding, NoTask
<1>9. pc'[p] = "view" => current'[c][task'[p].record] = task'[p].rev
  BY <1>1, <1>4, <1>6 DEF repoVars
<1>10. Unmoved(p)'
  BY <1>5, <1>6, <1>7, <1>8, <1>9 DEF Unmoved
<1> QED
  BY <1>4, <1>6, <1>10

LEMMA UnmovedElsewhere ==
    ASSUME NEW p \in Proc, pc'[p] \notin {"lockfile", "rename", "revision", "pointer", "view"}
    PROVE  Unmoved(p)'
BY DEF Unmoved

LEMMA StepStill ==
    ASSUME Inv, Sound, Grows, Still, NEW p \in Proc, Step(p) \/ Crash(p)
    PROVE  Still'
<1> USE ConstantsAssumption
<1>1. Others(p) /\ TypeOK /\ Unmoved(p) /\ OneHead
  BY StepKeeps, CrashKeeps DEF Inv, Still
<1>2. ASSUME NEW q \in Proc \ {p} PROVE Unmoved(q)'
  BY <1>1, Undisturbed, UnmovedStays DEF Still, Others
<1>3. ASSUME UNCHANGED reviews PROVE OneHead'
  BY <1>1, <1>3, OneHeadStays DEF OneHead
<1>4. ASSUME NEW s \in {"idle", "shown", "draft"}, pc' = [pc EXCEPT ![p] = s]
      PROVE  Unmoved(p)'
  <2>1. pc'[p] = s
    BY <1>1, <1>4 DEF TypeOK
  <2> QED
    BY <2>1, UnmovedElsewhere
<1>5. ASSUME Show(p) \/ GiveUp(p) \/ BeginDraft(p) \/ View(p) \/ Crash(p) \/ Yields(p) \/ Resolves(p)
      PROVE  Unmoved(p)' /\ UNCHANGED reviews
  <2>1. \E s \in {"idle", "shown", "draft"} : pc' = [pc EXCEPT ![p] = s]
    BY <1>5 DEF Show, GiveUp, BeginDraft, View, Crash, Yields, Resolves, Goto
  <2>2. UNCHANGED reviews
    BY <1>5 DEF Show, GiveUp, BeginDraft, View, Crash, Yields, Resolves, repoVars
  <2> QED
    BY <2>1, <2>2, <1>4
<1>6. ASSUME EnterReview(p) \/ EnterDraft(p) PROVE Unmoved(p)' /\ UNCHANGED reviews
  BY <1>6, EnterReviewStill, EnterDraftStill DEF EnterReview, EnterDraft, repoVars
<1>7. ASSUME EnterResolve(p) PROVE Unmoved(p)' /\ UNCHANGED reviews
  <2>1. pc'[p] = "lockfile" /\ task'[p] # NoTask
    BY <1>1, <1>7 DEF EnterResolve, Goto, TypeOK, NoTask
  <2>2. UNCHANGED reviews
    BY <1>7 DEF EnterResolve, repoVars
  <2> QED
    BY <2>1, <2>2 DEF Unmoved, Deciding, NoTask
<1>8. ASSUME LockFile(p) \/ WriteRevision(p) PROVE Unmoved(p)' /\ UNCHANGED reviews
  <2>1. /\ \/ pc[p] = "lockfile" /\ pc'[p] = "rename"
           \/ pc[p] = "revision" /\ pc'[p] = "pointer"
        /\ UNCHANGED <<current, reviews, procVars>>
    BY <1>1, <1>8 DEF LockFile, WriteRevision, At, Goto, TypeOK
  <2> QED
    BY <1>1, <2>1, UnmovedStays DEF procVars
<1>9. ASSUME Dashboard(p) PROVE Unmoved(p)' /\ UNCHANGED reviews
  <2>1. UNCHANGED <<repoVars, procVars, pc>>
    BY <1>9 DEF Dashboard
  <2> QED
    BY <1>1, <2>1, UnmovedStays DEF repoVars, procVars
<1>10. ASSUME Moves(p) PROVE Unmoved(p)' /\ UNCHANGED reviews
  BY <1>10, MovesStill DEF Moves
<1>11. ASSUME Publishes(p) PROVE Unmoved(p)' /\ OneHead'
  BY <1>11, PublishesStill
<1> QED
  BY <1>2, <1>3, <1>5, <1>6, <1>7, <1>8, <1>9, <1>10, <1>11, RenameIs, WritePointerIs DEF Still, Step

LEMMA NextStill == "merge" \notin Acts /\ Inv /\ Sound /\ Still /\ [Next]_vars => Still'
<1> SUFFICES ASSUME "merge" \notin Acts, Inv, Sound, Still, [Next]_vars PROVE Still'
  OBVIOUS
<1>1. ASSUME Grows, UNCHANGED <<repoVars, procVars, pc>> PROVE Still'
  <2>1. OneHead'
    BY <1>1, OneHeadStays DEF OneHead, Still, Inv, repoVars
  <2>2. \A p \in Proc : Unmoved(p)'
    BY <1>1, UnmovedStays DEF Still, repoVars, procVars
  <2> QED
    BY <2>1, <2>2 DEF Still
<1>2. CASE UNCHANGED vars
  BY <1>1, <1>2 DEF Grows, vars, repoVars
<1>3. CASE Next
  <2>1. Grows
    BY <1>3, Growth
  <2>2. ASSUME NEW c \in Clone, Recover(c) \/ \E r \in Record : EditView(c, r) PROVE Still'
    BY <1>1, <2>1, <2>2 DEF Recover, EditView
  <2>3. ASSUME NEW p \in Proc, Step(p) \/ Crash(p) PROVE Still'
    BY <2>1, <2>3, StepStill
  <2> QED
    BY <1>3, <2>2, <2>3 DEF Next, Merge
<1> QED
  BY <1>2, <1>3

LEMMA InitStill == Init => Still
<1> SUFFICES ASSUME Init PROVE Still
  OBVIOUS
<1>1. \A c \in Clone, r \in Record, v \in Rev : Heads(c, r, v) = {}
  BY DEF Init, Heads, On
<1> QED
  BY <1>1 DEF Init, Still, OneHead, Unmoved, Deciding

LEMMA Unmerged == ASSUME "merge" \notin Acts PROVE Spec => [](Inv /\ Sound /\ Still)
<1>1. Inv /\ Sound /\ Still /\ [Next]_vars => (Inv /\ Sound /\ Still)'
  BY NextInv, NextSound, NextStill
<1>2. Init => Inv /\ Sound /\ Still
  BY InitInv, InitSound, InitStill
<1> QED
  BY <1>1, <1>2, PTL DEF Spec

\* As long as git merges nothing, a revision has one review head: two processes
\* never both decide on the same card.
THEOREM DecisionsNeverBothCount == ASSUME "merge" \notin Acts PROVE Spec => []OneHead
<1>1. Still => OneHead
  BY DEF Still
<1> QED
  BY <1>1, Unmerged, PTL

\* From the last look at a card to the publication of what was decided on it,
\* the pointers and the heads stay what its owner saw.
THEOREM CardStays == ASSUME "merge" \notin Acts PROVE Spec => []StillAsShown
<1>1. Inv /\ Still => StillAsShown
  BY DEF Inv, Still, Unmoved, StillAsShown, Deciding
<1> QED
  BY <1>1, Unmerged, PTL

-----------------------------------------------------------------------------
(* Drafts and views *)

LEMMA NextReads == Inv /\ Reads /\ [Next]_vars => Reads'
<1> SUFFICES ASSUME Inv, Reads, [Next]_vars, NEW q \in Proc, pc'[q] \in {"revision", "pointer"}
             PROVE  task'[q].read = task'[q].expected
  BY DEF Reads
<1>1. ASSUME pc[q] \in {"revision", "pointer"}, task'[q] = task[q]
      PROVE  task'[q].read = task'[q].expected
  BY <1>1 DEF Reads
<1>2. ASSUME UNCHANGED <<task, pc>> PROVE task'[q].read = task'[q].expected
  BY <1>1, <1>2
<1>3. ASSUME NEW p \in Proc, Step(p) \/ Crash(p) PROVE task'[q].read = task'[q].expected
  <2>1. Others(p) /\ TypeOK
    BY <1>3, StepKeeps, CrashKeeps DEF Inv
  <2>2. CASE q # p
    BY <1>1, <2>1, <2>2 DEF Others
  <2>3. CASE q = p
    <3>1. CASE EnterDraft(p)
      <4>1. pc'[p] = "revision"
        BY <2>3, <3>1, EnterDraftStill
      <4> QED
        BY <2>3, <3>1, <4>1, EnterDraftStill
    <3>2. CASE WriteRevision(p)
      BY <1>1, <2>3, <3>2 DEF WriteRevision, At, procVars
    <3>3. CASE Dashboard(p)
      BY <1>2, <3>3 DEF Dashboard, procVars
    <3>4. ASSUME NEW s \in {"idle", "shown", "draft", "lockfile", "rename", "view"},
                 pc' = [pc EXCEPT ![p] = s]
          PROVE  FALSE
      BY <2>1, <2>3, <3>4 DEF TypeOK
    <3>5. ASSUME Show(p) \/ GiveUp(p) \/ EnterReview(p) \/ EnterResolve(p) \/ LockFile(p)
                 \/ Publishes(p) \/ Resolves(p) \/ BeginDraft(p) \/ Moves(p) \/ Yields(p)
                 \/ View(p) \/ Crash(p)
          PROVE  FALSE
      <4>1. \E s \in {"idle", "shown", "draft", "lockfile", "rename", "view"} :
               pc' = [pc EXCEPT ![p] = s]
        BY <3>5 DEF Show, GiveUp, EnterReview, EnterResolve, LockFile, Publishes, Resolves,
                    BeginDraft, Moves, Yields, View, Crash, Goto
      <4> QED
        BY <3>4, <4>1
    <3> QED
      BY <1>3, <3>1, <3>2, <3>3, <3>5, RenameIs, WritePointerIs DEF Step
  <2> QED
    BY <2>2, <2>3
<1>4. ASSUME NEW c \in Clone,
             \/ Recover(c) \/ \E r \in Record : EditView(c, r)
             \/ \E d \in Clone : Merge(c, d)
      PROVE  UNCHANGED <<task, pc>>
  BY <1>4 DEF Recover, EditView, Merge, procVars
<1>5. CASE UNCHANGED vars
  BY <1>2, <1>5 DEF vars, procVars
<1> QED
  BY <1>2, <1>3, <1>4, <1>5 DEF Next

\* A current revision is replaced only by a draft whose author had read it.
THEOREM DraftsBuildOnWhatWasRead == ASSUME "merge" \notin Acts PROVE Spec => DraftsBuildOn
<1>1. Init => Reads
  BY DEF Init, Reads
<1>2. ASSUME Inv, Reads, Next PROVE BuildsOn
  <2> SUFFICES ASSUME NEW c \in Clone, NEW r \in Present(c), current'[c][r] # current[c][r]
               PROVE  \E p \in Proc : /\ pc[p] = "pointer" /\ Home[p] = c
                                      /\ task[p].record = r
                                      /\ task[p].expected = current[c][r]
    BY DEF BuildsOn
  <2>1. TypeOK /\ r \in Record
    BY <1>2 DEF Inv, Present
  <2>2. ASSUME NEW p \in Proc, Moves(p)
        PROVE  /\ pc[p] = "pointer" /\ Home[p] = c
               /\ task[p].record = r
               /\ task[p].expected = current[c][r]
    <3>1. pc[p] = "pointer" /\ task[p].read = task[p].expected
      BY <1>2, <2>2 DEF Moves, Reads
    <3>2. Home[p] = c /\ task[p].record = r /\ current'[c][r] = task[p].rev
      BY <2>1, <2>2, ConstantsAssumption DEF Moves, TypeOK
    <3>3. current[c][r] = task[p].read
      BY <2>2, <3>2 DEF Moves
    <3> QED
      BY <3>1, <3>2, <3>3
  <2>3. ASSUME NEW p \in Proc, Step(p) \/ Crash(p), ~Moves(p) PROVE UNCHANGED current
    BY <2>3, RenameIs, WritePointerIs
       DEF Step, Crash, Show, GiveUp, EnterReview, EnterResolve, LockFile, Publishes, Resolves,
           BeginDraft, EnterDraft, WriteRevision, Yields, View, Dashboard, repoVars
  <2>4. ASSUME NEW d \in Clone, Recover(d) \/ \E s \in Record : EditView(d, s)
        PROVE  UNCHANGED current
    BY <2>4 DEF Recover, EditView, repoVars
  <2>5. PICK p \in Proc : Moves(p)
    BY <1>2, <2>3, <2>4 DEF Next, Merge
  <2> QED
    BY <2>2, <2>5
<1>3. Inv /\ Reads /\ [Next]_vars => [BuildsOn]_vars
  BY <1>2
<1> QED
  BY <1>1, <1>3, InitInv, NextInv, NextReads, PTL DEF Spec, DraftsBuildOn

\* p has written what is canonical for r and owes its view.
Refreshes(p, r) == pc[p] = "view" /\ Shown(p, r) # None

\* What p owes is what is canonical.
LEMMA ShownIsTrue ==
    ASSUME Inv, Still, NEW p \in Proc, NEW r \in Record, Refreshes(p, r)
    PROVE  Shown(p, r) = Canonical(Home[p], r) /\ r \in Present(Home[p])
<1> USE ConstantsAssumption
<1> PICK c \in Clone : c = Home[p]
  OBVIOUS
<1>1. /\ TypeOK /\ InHand(p) /\ Unmoved(p) /\ OneHead /\ pc[p] = "view" /\ Shown(p, r) # None
  BY DEF Inv, Still, Refreshes
<1>4. CASE task[p] = NoTask
  <2>1. r \in Planned(p) /\ Deciding(p)
        /\ Shown(p, r) = [rev |-> card[p][r].rev, head |-> new[p], state |-> Outcome(plan[p][r])]
    BY <1>1, <1>4 DEF Shown, NoTask, Planned, Deciding
  <2>2. PICK v \in Rev : v = card[p][r].rev
    BY <1>1, <2>1 DEF InHand, TypeOK, Planned, Line
  <2>3. /\ current[c][r] = v /\ Heads(c, r, v) = {new[p]}
        /\ event[new[p]][r].decision = plan[p][r]
    BY <1>1, <2>1, <2>2 DEF Unmoved
  <2>4. HeadOf(c, r, v) = new[p]
    BY <1>1, <2>3, TheHead
  <2>5. new[p] \in Id
    BY <1>1, <2>1 DEF InHand, TypeOK
  <2>6. StateOf(c, r, v) = Outcome(plan[p][r])
    BY <2>3, <2>4, <2>5 DEF StateOf
  <2>7. Expected(c, r, v) = [rev |-> v, head |-> new[p], state |-> Outcome(plan[p][r])]
    BY <2>4, <2>6 DEF Expected
  <2> QED
    BY <2>1, <2>2, <2>3, <2>7 DEF Canonical, Present
<1>5. CASE task[p] \in Draft
  <2>1. task[p] # NoTask /\ task[p].kind = "draft" /\ task[p].rev \in Rev
    BY <1>5 DEF Draft, NoTask
  <2>2. r = task[p].record /\ Shown(p, r) = task[p].shows
    BY <1>1, <2>1 DEF Shown
  <2>3. task[p].shows = Expected(c, r, task[p].rev) /\ current[c][r] = task[p].rev
    BY <1>1, <2>1, <2>2 DEF Unmoved
  <2> QED
    BY <2>1, <2>2, <2>3 DEF Canonical, Present
<1> QED
  BY <1>1, <1>4, <1>5 DEF InHand

\* What a command writes into a view is canonical.
LEMMA ViewIsTrue ==
    ASSUME Inv, Still, NEW p \in Proc, View(p), NEW r \in Record,
           views'[Home[p]][r] # views[Home[p]][r]
    PROVE  views'[Home[p]][r] = Canonical(Home[p], r)'
<1> USE ConstantsAssumption
<1> PICK c \in Clone : c = Home[p]
  OBVIOUS
<1>1. TypeOK /\ pc[p] = "view" /\ UNCHANGED repoVars
  BY DEF Inv, View, At
<1>2. views'[c][r] = Shown(p, r) /\ Shown(p, r) # None
  BY <1>1 DEF View, TypeOK
<1>3. Canonical(c, r)' = Canonical(c, r)
  BY <1>1 DEF Canonical, Expected, HeadOf, Heads, On, StateOf, Previous, repoVars
<1>4. Shown(p, r) = Canonical(c, r)
  BY <1>1, <1>2, ShownIsTrue DEF Refreshes
<1> QED
  BY <1>2, <1>3, <1>4

\* Whatever fails, is killed or is edited meanwhile, a command only ever writes
\* a view that shows the current revision, its current review head and state.
THEOREM ViewsNeverLie == ASSUME "merge" \notin Acts PROVE Spec => ViewsTellTruth
<1>1. ASSUME Inv, Still, Next PROVE TellsTruth
  <2> SUFFICES ASSUME NEW c \in Clone, NEW r \in Record,
                      views'[c][r] \notin {views[c][r], Edited, None}
               PROVE  views'[c][r] = Canonical(c, r)'
    BY DEF TellsTruth
  <2>1. TypeOK
    BY <1>1 DEF Inv
  <2>2. ASSUME NEW p \in Proc, View(p) PROVE views'[c][r] = Canonical(c, r)'
    <3>1. CASE Home[p] = c
      <4>1. views'[Home[p]][r] # views[Home[p]][r]
        BY <3>1
      <4>2. views'[Home[p]][r] = Canonical(Home[p], r)'
        BY <1>1, <2>2, <4>1, ViewIsTrue
      <4> QED
        BY <3>1, <4>2
    <3>2. CASE Home[p] # c
      BY <2>1, <2>2, <3>2 DEF View, TypeOK
    <3> QED
      BY <3>1, <3>2
  <2>3. ASSUME NEW p \in Proc, Dashboard(p) PROVE views'[c][r] = Canonical(c, r)'
    <3>1. Home[p] = c /\ r \in Present(c)
      BY <2>1, <2>3, ConstantsAssumption DEF Dashboard, TypeOK
    <3>2. views'[c][r] = Canonical(c, r)
      BY <2>1, <2>3, <3>1 DEF Dashboard, TypeOK
    <3>3. Canonical(c, r)' = Canonical(c, r)
      <4>1. UNCHANGED repoVars
        BY <2>3 DEF Dashboard
      <4> QED
        BY <4>1 DEF Canonical, Expected, HeadOf, Heads, On, StateOf, Previous, repoVars
    <3> QED
      BY <3>2, <3>3
  <2>4. ASSUME NEW d \in Clone, NEW s \in Record, EditView(d, s) PROVE FALSE
    BY <2>1, <2>4 DEF EditView, TypeOK
  <2>5. ASSUME NEW p \in Proc, Step(p) \/ Crash(p), ~View(p), ~Dashboard(p) PROVE UNCHANGED views
    BY <2>5, RenameIs, WritePointerIs
       DEF Step, Crash, Show, GiveUp, EnterReview, EnterResolve, LockFile, Publishes, Resolves,
           BeginDraft, EnterDraft, WriteRevision, Moves, Yields
  <2>6. ASSUME NEW d \in Clone, Recover(d) PROVE UNCHANGED views
    BY <2>6 DEF Recover
  <2> QED
    BY <1>1, <2>2, <2>3, <2>4, <2>5, <2>6 DEF Next, Merge
<1>2. Inv /\ Still /\ [Next]_vars => [TellsTruth]_vars
  BY <1>1
<1> QED
  BY <1>2, Unmerged, PTL DEF Spec, ViewsTellTruth

-----------------------------------------------------------------------------
(* Decisions form chains, however git merges *)

\* What an event supersedes was published before it. So no set of events goes
\* round in a circle: one of them is superseded by none of them.
Unrounded ==
    /\ \A e \in Id, r \in Record :
           event[e][r] # None /\ event[e][r].sup # None => event[event[e][r].sup] # NoCard
    /\ \A r \in Record : \A S \in SUBSET Id :
           S # {} /\ (\A e \in S : event[e][r] # None) =>
               \E e \in S : \A f \in S : event[f][r].sup # e

LEMMA PublishesUnrounded ==
    ASSUME Inv, Sound, Unrounded, NEW p \in Proc, Publishes(p)
    PROVE  Unrounded'
<1> USE ConstantsAssumption
<1> PICK x \in Id : x = new[p]
  BY ContentTyped DEF Publishes
<1>1. TypeOK /\ Refers(p) /\ event[x] = NoCard /\ pc[p] = "rename" /\ Deciding(p)
  BY ContentTyped DEF Inv, Sound, Publishes
<1>2. event'[x] = Content(p) /\ \A e \in Id \ {x} : event'[e] = event[e]
  BY <1>1 DEF Publishes, TypeOK
<1>3. Content(p) # NoCard
  BY ContentTyped DEF Publishes
<1>4. ASSUME NEW r \in Record, Content(p)[r] # None, Content(p)[r].sup # None
      PROVE  Content(p)[r].sup \in Id \ {x} /\ event[Content(p)[r].sup] # NoCard
  <2>1. r \in Planned(p) /\ Content(p)[r].sup = card[p][r].head
    BY <1>4, ContentTyped DEF Publishes
  <2>2. card[p][r].head \in On(Home[p], r, card[p][r].rev)
    BY <1>1, <1>4, <2>1 DEF Refers
  <2>3. card[p][r].head \in reviews[Home[p]]
    BY <2>2 DEF On
  <2>4. card[p][r].head \in Id /\ event[card[p][r].head] # NoCard
    BY <1>1, <2>3 DEF Inv, IdsOnce, TypeOK
  <2> QED
    BY <1>1, <2>1, <2>4
<1>5. ASSUME NEW e \in Id, NEW r \in Record, event'[e][r] # None, event'[e][r].sup # None
      PROVE  event'[e][r].sup # x /\ event'[event'[e][r].sup] # NoCard
  <2>1. CASE e = x
    BY <1>2, <1>4, <1>5, <2>1
  <2>2. CASE e # x
    <3>1. event'[e] = event[e] /\ event[event[e][r].sup] # NoCard
      BY <1>2, <1>5, <2>2 DEF Unrounded
    <3>2. event[e][r].sup \in Id
      BY <1>1, <1>5, <3>1 DEF TypeOK, Target
    <3> QED
      BY <1>1, <1>2, <3>1, <3>2
  <2> QED
    BY <2>1, <2>2
<1>6. ASSUME NEW r \in Record, NEW S \in SUBSET Id, S # {}, \A e \in S : event'[e][r] # None
      PROVE  \E e \in S : \A f \in S : event'[f][r].sup # e
  <2>1. CASE x \in S
    <3>1. ASSUME NEW f \in S PROVE event'[f][r].sup # x
      BY <1>5, <1>6
    <3> QED
      BY <2>1, <3>1
  <2>2. CASE x \notin S
    <3>1. \A e \in S : event'[e] = event[e]
      BY <1>2, <2>2
    <3>2. \E e \in S : \A f \in S : event[f][r].sup # e
      BY <1>6, <3>1, SMTT(30) DEF Unrounded
    <3> QED
      BY <3>1, <3>2
  <2> QED
    BY <2>1, <2>2
<1>7. NoCard' = NoCard
  BY DEF NoCard
<1> QED
  BY <1>5, <1>6, <1>7 DEF Unrounded

LEMMA NextUnrounded == Inv /\ Sound /\ Unrounded /\ [Next]_vars => Unrounded'
<1> SUFFICES ASSUME Inv, Sound, Unrounded, [Next]_vars PROVE Unrounded'
  OBVIOUS
<1>1. CASE UNCHANGED event
  BY <1>1 DEF Unrounded, NoCard
<1>2. ASSUME NEW p \in Proc, Rename(p) PROVE Unrounded'
  BY <1>1, <1>2, RenameIs, PublishesUnrounded DEF Resolves
<1>3. ASSUME NEW p \in Proc, Step(p) \/ Crash(p), ~Rename(p) PROVE UNCHANGED event
  BY <1>3 DEF Step, Crash, Show, GiveUp, EnterReview, EnterResolve, LockFile, BeginDraft,
              EnterDraft, WriteRevision, WritePointer, View, Dashboard, repoVars
<1>4. ASSUME NEW c \in Clone,
             \/ Recover(c) \/ \E r \in Record : EditView(c, r)
             \/ \E d \in Clone : Merge(c, d)
      PROVE  UNCHANGED event
  BY <1>4 DEF Recover, EditView, Merge, repoVars
<1>5. CASE UNCHANGED vars
  BY <1>1, <1>5 DEF vars, repoVars
<1> QED
  BY <1>1, <1>2, <1>3, <1>4, <1>5 DEF Next

\* Whatever is not in a closed set that has the only head would go round.
LEMMA ChainsAreWhole == Inv /\ Unrounded => DecisionsChained
<1> USE ConstantsAssumption
<1> SUFFICES ASSUME Inv, Unrounded, NEW c \in Clone, NEW r \in Record, NEW v \in Rev,
                    HeadOf(c, r, v) \notin {None, Conflict},
                    NEW T \in SUBSET On(c, r, v), HeadOf(c, r, v) \in T,
                    \A e \in T : event[e][r].sup \in T \cup {None}
             PROVE  T = On(c, r, v)
  BY DEF DecisionsChained
<1>1. TypeOK
  BY DEF Inv
<1>2. On(c, r, v) \subseteq Id /\ \A e \in On(c, r, v) : event[e][r] # None
  BY <1>1, HeadTyped DEF On
<1>3. \A e \in Heads(c, r, v) : e \in T
  <2>1. HeadOf(c, r, v) \in Heads(c, r, v)
    BY <1>1, HeadTyped
  <2>2. \A d, e \in Heads(c, r, v) : d = e
    <3>1. Heads(c, r, v) # {}
      BY <2>1
    <3>2. ~(\A d, e \in Heads(c, r, v) : d = e) => HeadOf(c, r, v) = Conflict
      BY <3>1 DEF HeadOf
    <3> QED
      BY <3>2
  <2>3. ASSUME NEW e \in Heads(c, r, v) PROVE e \in T
    <3>1. e = HeadOf(c, r, v)
      BY <2>1, <2>2
    <3> QED
      BY <3>1
  <2> QED
    BY <2>3
<1> DEFINE S == On(c, r, v) \ T
<1>4. S \in SUBSET Id /\ S \subseteq On(c, r, v) /\ S \cap T = {} /\ T \cup S = On(c, r, v)
      /\ \A e \in S : event[e][r] # None
  BY <1>2
<1> HIDE DEF S
<1>5. ASSUME S # {} PROVE FALSE
  <2>1. PICK e \in S : \A f \in S : event[f][r].sup # e
    BY <1>4, <1>5 DEF Unrounded
  <2>2. e \notin Heads(c, r, v)
    BY <1>3, <1>4, <2>1
  <2>3. PICK f \in On(c, r, v) : event[f][r].sup = e
    BY <1>4, <2>1, <2>2 DEF Heads
  <2>4. f \in T
    BY <1>4, <2>1, <2>3
  <2>5. e \in Id /\ e \notin T
    BY <1>4, <2>1
  <2> QED
    BY <2>3, <2>4, <2>5
<1> QED
  BY <1>4, <1>5

\* Nothing goes round at first.
LEMMA InitUnrounded == Init => Unrounded
BY DEF Init, Unrounded, NoCard

\* Whatever clones decide on one revision and however git brings it together,
\* the revision is in conflict or its decisions form one chain, each taken in
\* knowledge of the one before.
THEOREM DecisionsFormChains == Spec => []DecisionsChained
<1>1. Init => Inv /\ Sound /\ Unrounded
  BY InitInv, InitSound, InitUnrounded
<1>2. Inv /\ Sound /\ Unrounded /\ [Next]_vars => (Inv /\ Sound /\ Unrounded)'
  BY NextInv, NextSound, NextUnrounded
<1> QED
  BY <1>1, <1>2, ChainsAreWhole, PTL DEF Spec

-----------------------------------------------------------------------------
(* What a view shows while writers write the views they owe *)

\* A view shows its record, unless the owner edited it or somebody owes it.
Viewed(c, r) ==
    /\ views[c][r] = Edited => "edit" \in Acts
    /\ \/ r \in Present(c) /\ views[c][r] = Canonical(c, r)
       \/ r \notin Present(c) /\ views[c][r] = None
       \/ "edit" \in Acts /\ views[c][r] \in {None, Edited}
       \/ \E p \in Proc : Home[p] = c /\ Refreshes(p, r)

AllViewed == \A c \in Clone, r \in Record : Viewed(c, r)

\* What was decided on is in the repository.
Filed ==
    \A c \in Clone : \A e \in reviews[c], r \in Record :
        event[e][r] # None => <<r, event[e][r].rev>> \in revs[c]

\* An event says nothing of the records it does not decide on.
LEMMA PublishesElsewhere ==
    ASSUME Inv, Sound, Grows, Still, NEW p \in Proc, Publishes(p),
           NEW r \in Record, r \notin Planned(p), NEW v \in Rev
    PROVE  Expected(Home[p], r, v)' = Expected(Home[p], r, v)
<1> USE ConstantsAssumption
<1> PICK c \in Clone : c = Home[p]
  OBVIOUS
<1> PICK x \in Id : x = new[p]
  BY ContentTyped DEF Publishes
<1>1. /\ TypeOK /\ event'[x] = Content(p) /\ Content(p)[r] = None
      /\ reviews'[c] = reviews[c] \cup {x}
      /\ \A f \in reviews[c] : event'[f] = event[f]
  BY ContentTyped DEF Inv, Publishes, TypeOK, Grows
<1>2. ASSUME NEW u \in Rev PROVE Heads(c, r, u)' = Heads(c, r, u)
  BY PublishesHeads
<1>3. HeadOf(c, r, v)' = HeadOf(c, r, v)
  BY <1>2 DEF HeadOf
<1>4. Previous(c, r, v)' = Previous(c, r, v)
  <2>1. ASSUME NEW e \in reviews[c], event[e][r] # None
        PROVE  /\ event'[e] = event[e]
               /\ Heads(c, r, event[e][r].rev)' = Heads(c, r, event[e][r].rev)
    <3>1. PICK u \in Rev : u = event[e][r].rev
      BY <1>1, <2>1 DEF TypeOK, Target
    <3>2. Heads(c, r, u)' = Heads(c, r, u) /\ event'[e] = event[e]
      BY <1>1, <1>2
    <3>3. Heads(c, r, event[e][r].rev)' = Heads(c, r, u)'
      BY <3>1, <3>2 DEF Heads, On
    <3> QED
      BY <3>1, <3>2, <3>3
  <2> QED
    BY <1>1, <2>1 DEF Previous
<1>5. StateOf(c, r, v)' = StateOf(c, r, v)
  <2>1. PICK head : head = HeadOf(c, r, v)
    OBVIOUS
  <2>2. HeadOf(c, r, v)' = head
    BY <1>3, <2>1
  <2>3. head \notin {None, Conflict} => event'[head] = event[head]
    BY <1>1, <2>1, HeadTyped
  <2> QED
    BY <1>4, <2>1, <2>2, <2>3 DEF StateOf
<1> QED
  BY <1>3, <1>5 DEF Expected

\* A record nobody touches stays as viewed as it was.
LEMMA ViewedStays ==
    ASSUME Inv, NEW p \in Proc, Others(p), NEW c \in Clone, NEW r \in Record, Viewed(c, r),
           views'[c][r] = views[c][r], current'[c][r] = current[c][r],
           r \in Present(c) => Expected(c, r, current[c][r])' = Expected(c, r, current[c][r]),
           Home[p] = c /\ Refreshes(p, r) => Refreshes(p, r)'
    PROVE  Viewed(c, r)'
<1>1. Present(c)' \cap {r} = Present(c) \cap {r}
  BY DEF Present
<1>2. r \in Present(c) => Canonical(c, r)' = Canonical(c, r)
  <2>1. PICK v : v = current[c][r]
    OBVIOUS
  <2>2. ASSUME r \in Present(c) PROVE Expected(c, r, v)' = Expected(c, r, v)
    BY <2>1, <2>2
  <2> QED
    BY <2>1, <2>2 DEF Canonical
<1>3. ASSUME NEW q \in Proc, Home[q] = c, Refreshes(q, r)
      PROVE  Refreshes(q, r)'
  <2>1. CASE q = p
    BY <1>3, <2>1
  <2>2. CASE q # p
    BY <1>3, <2>2 DEF Refreshes, Shown, Others
  <2> QED
    BY <2>1, <2>2
<1> QED
  BY <1>1, <1>2, <1>3 DEF Viewed

\* A published decision is owed to the views of its records, and changes no other.
LEMMA PublishesViewed ==
    ASSUME Inv, Sound, Grows, Still, AllViewed, NEW p \in Proc, Publishes(p)
    PROVE  AllViewed'
<1> USE ConstantsAssumption
<1>1. TypeOK /\ Others(p) /\ pc[p] = "rename" /\ UNCHANGED <<current, views, procVars>>
  BY PublishesKeeps DEF Inv, Publishes
<1>2. ASSUME NEW c \in Clone, NEW r \in Record PROVE Viewed(c, r)'
  <2>1. Viewed(c, r) /\ ~Refreshes(p, r)
    BY <1>1 DEF AllViewed, Refreshes
  <2>2. CASE c = Home[p] /\ r \in Planned(p)
    <3>1. pc'[p] = "view" /\ task'[p] = NoTask /\ plan'[p] = plan[p]
      BY <1>1 DEF Publishes, procVars, TypeOK
    <3>2. Shown(p, r)' = [rev |-> card'[p][r].rev, head |-> new'[p], state |-> Outcome(plan'[p][r])]
      BY <2>2, <3>1 DEF Shown, NoTask, Planned
    <3>3. Shown(p, r)' # None
      <4>1. Deciding(p) /\ card[p][r] \in Line /\ plan[p][r] \in Decision /\ new[p] \in Id
        BY <1>1, <2>2, ContentTyped DEF Publishes, Planned, TypeOK
      <4>2. [rev |-> card[p][r].rev, head |-> new[p], state |-> Outcome(plan[p][r])] \in Heading
        BY <4>1 DEF Line, Heading, Outcome, State, Decision
      <4> QED
        BY <1>1, <3>2, <4>2, NoneAssumption DEF procVars
    <3>4. Refreshes(p, r)'
      BY <3>1, <3>3 DEF Refreshes
    <3> QED
      BY <1>1, <2>1, <2>2, <3>4 DEF Viewed
  <2>3. CASE ~(c = Home[p] /\ r \in Planned(p))
    <3>1. ASSUME r \in Present(c)
          PROVE  Expected(c, r, current[c][r])' = Expected(c, r, current[c][r])
      <4>1. PICK v \in Rev : v = current[c][r]
        BY <1>1, <3>1 DEF Present, TypeOK
      <4>2. Expected(c, r, v)' = Expected(c, r, v)
        <5>1. CASE c = Home[p]
          BY <2>3, <5>1, PublishesElsewhere
        <5>2. CASE c # Home[p]
          <6>1. reviews'[c] = reviews[c]
            BY <1>1, <5>2 DEF Publishes, TypeOK
          <6> QED
            BY <1>1, <6>1, SameGraph
        <5> QED
          BY <5>1, <5>2
      <4>3. current'[c][r] = v
        BY <1>1, <4>1
      <4> QED
        BY <4>1, <4>2, <4>3
    <3> QED
      BY <1>1, <2>1, <3>1, ViewedStays
  <2> QED
    BY <2>2, <2>3
<1> QED
  BY <1>2 DEF AllViewed

\* A pointer that moves is owed to its view.
LEMMA MovesViewed ==
    ASSUME Inv, Grows, Still, AllViewed, NEW p \in Proc, Moves(p)
    PROVE  AllViewed'
<1> USE ConstantsAssumption
<1>1. /\ TypeOK /\ Others(p) /\ pc[p] = "pointer" /\ UNCHANGED <<reviews, views, procVars>>
      /\ current' = [current EXCEPT ![Home[p]][task[p].record] = task[p].rev]
      /\ pc'[p] = "view"
  BY MovesKeeps, ZenonT(60) DEF Inv, Moves, TypeOK
<1>2. /\ task[p].record \in Record /\ task[p].rev \in Rev /\ task[p] # NoTask
      /\ task[p] \in Draft
  BY <1>1, DraftTyped
<1>3. ASSUME NEW c \in Clone, NEW r \in Record PROVE Viewed(c, r)'
  <2>1. Viewed(c, r) /\ ~Refreshes(p, r)
    BY <1>1 DEF AllViewed, Refreshes
  <2>2. CASE c = Home[p] /\ r = task[p].record
    <3>1. task[p].kind = "draft" /\ task[p].shows = Expected(c, r, task[p].rev)
      BY <1>1, <1>2, <2>2 DEF Draft, Still, Unmoved
    <3>2. task[p].shows # None
      BY <1>1, <1>2, <3>1, StateTyped, NoneAssumption
    <3>3. Refreshes(p, r)'
      BY <1>1, <2>2, <3>1, <3>2 DEF Refreshes, Shown, procVars
    <3> QED
      BY <1>1, <2>1, <2>2, <3>3 DEF Viewed
  <2>3. CASE ~(c = Home[p] /\ r = task[p].record)
    <3>1. current'[c][r] = current[c][r]
      BY <1>1, <1>2, <2>3 DEF TypeOK
    <3>2. \A v \in Rev : Expected(c, r, v)' = Expected(c, r, v)
      BY <1>1, SameGraph
    <3>3. PICK v : v = current[c][r]
      OBVIOUS
    <3>4. r \in Present(c) => Expected(c, r, v)' = Expected(c, r, v)
      BY <1>1, <3>2, <3>3 DEF Present, TypeOK
    <3>5. r \in Present(c) => Expected(c, r, current[c][r])' = Expected(c, r, current[c][r])
      BY <3>1, <3>3, <3>4
    <3> QED
      BY <1>1, <2>1, <3>1, <3>5, ViewedStays
  <2> QED
    BY <2>2, <2>3
<1> QED
  BY <1>3 DEF AllViewed

\* Steps that leave pointers, reviews and views alone.
LEMMA QuietViewed ==
    ASSUME Inv, Grows, AllViewed, NEW p \in Proc, Others(p),
           UNCHANGED <<current, reviews, views>>, pc[p] # "view"
    PROVE  AllViewed'
<1>1. TypeOK
  BY DEF Inv
<1>2. ASSUME NEW c \in Clone, NEW r \in Record PROVE Viewed(c, r)'
  <2>1. Viewed(c, r) /\ ~Refreshes(p, r)
    BY DEF AllViewed, Refreshes
  <2>2. PICK v : v = current[c][r]
    OBVIOUS
  <2>3. Expected(c, r, v)' = Expected(c, r, v)
    BY <1>1, SameGraph
  <2>4. Expected(c, r, current[c][r])' = Expected(c, r, current[c][r])
    BY <2>2, <2>3
  <2> QED
    BY <2>1, <2>4, ViewedStays
<1> QED
  BY <1>2 DEF AllViewed

\* A process that writes the views it owes leaves them showing their records.
LEMMA ViewViewed ==
    ASSUME "fail" \notin Acts, Inv, Still, AllViewed, Edited \notin Heading,
           NEW p \in Proc, View(p)
    PROVE  AllViewed'
<1> USE ConstantsAssumption
<1>1. TypeOK /\ Others(p) /\ UNCHANGED repoVars /\ pc[p] = "view" /\ Home[p] \in Clone
      /\ pc'[p] = "idle"
  BY ViewKeeps DEF Inv, View, At, Goto, TypeOK
<1>2. \A c \in Clone, r \in Record :
          views'[c][r] = IF c # Home[p] \/ Shown(p, r) = None \/ views[c][r] = Edited
                         THEN views[c][r] ELSE Shown(p, r)
  BY <1>1 DEF View, TypeOK
<1>3. ASSUME NEW c \in Clone, NEW r \in Record PROVE Viewed(c, r)'
  <2>1. Canonical(c, r)' = Canonical(c, r) /\ Present(c)' = Present(c)
    BY <1>1 DEF Canonical, Expected, HeadOf, Heads, On, StateOf, Previous, Present, repoVars
  <2>2. CASE c = Home[p] /\ Shown(p, r) # None
    <3>1. Shown(p, r) = Canonical(c, r) /\ r \in Present(c)
      BY <1>1, <2>2, ShownIsTrue DEF Refreshes
    <3>2. Canonical(c, r) \in Heading
      <4>1. current[c][r] \in Rev
        BY <1>1, <3>1 DEF Present, TypeOK
      <4> QED
        BY <1>1, <4>1, StateTyped DEF Canonical
    <3>3. CASE views[c][r] = Edited
      BY <1>2, <2>2, <3>3 DEF AllViewed, Viewed
    <3>4. CASE views[c][r] # Edited
      BY <1>2, <2>1, <2>2, <3>1, <3>2, <3>4 DEF Viewed
    <3> QED
      BY <3>3, <3>4
  <2>3. CASE c # Home[p] \/ Shown(p, r) = None
    <3>1. views'[c][r] = views[c][r] /\ Viewed(c, r)
      BY <1>2, <2>3 DEF AllViewed
    <3>2. ASSUME NEW q \in Proc, Home[q] = c, Refreshes(q, r) PROVE Refreshes(q, r)'
      <4>1. q # p
        BY <2>3, <3>2 DEF Refreshes
      <4> QED
        BY <1>1, <3>2, <4>1 DEF Refreshes, Shown, Others
    <3> QED
      BY <2>1, <3>1, <3>2 DEF Viewed
  <2> QED
    BY <2>2, <2>3
<1> QED
  BY <1>3 DEF AllViewed

\* The dashboard writes what is canonical.
LEMMA DashboardViewed ==
    ASSUME Inv, AllViewed, Edited \notin Heading, NEW p \in Proc, Dashboard(p)
    PROVE  AllViewed'
<1> USE ConstantsAssumption
<1>1. TypeOK /\ UNCHANGED <<repoVars, procVars, pc>>
  BY DEF Inv, Dashboard
<1>2. \A c \in Clone, r \in Record :
          views'[c][r] = IF c = Home[p] /\ r \in Present(c) THEN Canonical(c, r) ELSE views[c][r]
  BY <1>1 DEF Dashboard, TypeOK
<1>3. ASSUME NEW c \in Clone, NEW r \in Record PROVE Viewed(c, r)'
  <2>1. Canonical(c, r)' = Canonical(c, r) /\ Present(c)' = Present(c)
    BY <1>1 DEF Canonical, Expected, HeadOf, Heads, On, StateOf, Previous, Present, repoVars
  <2>2. \A q \in Proc : Refreshes(q, r)' = Refreshes(q, r)
    BY <1>1 DEF Refreshes, Shown, procVars
  <2>3. CASE c = Home[p] /\ r \in Present(c)
    <3>1. current[c][r] \in Rev
      BY <1>1, <2>3 DEF Present, TypeOK
    <3>2. Canonical(c, r) \in Heading
      BY <1>1, <3>1, StateTyped DEF Canonical
    <3> QED
      BY <1>2, <2>1, <2>3, <3>2 DEF Viewed
  <2>4. CASE ~(c = Home[p] /\ r \in Present(c))
    BY <1>2, <2>1, <2>2, <2>4 DEF Viewed, AllViewed
  <2> QED
    BY <2>3, <2>4
<1> QED
  BY <1>3 DEF AllViewed

\* The owner edits views.
LEMMA EditViewed ==
    ASSUME Inv, AllViewed, NEW d \in Clone, NEW s \in Record, EditView(d, s)
    PROVE  AllViewed'
<1>1. TypeOK /\ UNCHANGED <<repoVars, procVars, pc>> /\ "edit" \in Acts
  BY DEF Inv, EditView
<1>2. \A c \in Clone, r \in Record :
          views'[c][r] = views[c][r] \/ views'[c][r] \in {None, Edited}
  BY <1>1 DEF EditView, TypeOK
<1>3. ASSUME NEW c \in Clone, NEW r \in Record PROVE Viewed(c, r)'
  <2>1. Canonical(c, r)' = Canonical(c, r) /\ Present(c)' = Present(c)
    BY <1>1 DEF Canonical, Expected, HeadOf, Heads, On, StateOf, Previous, Present, repoVars
  <2>2. \A q \in Proc : Refreshes(q, r)' = Refreshes(q, r)
    BY <1>1 DEF Refreshes, Shown, procVars
  <2> QED
    BY <1>1, <1>2, <2>1, <2>2 DEF Viewed, AllViewed
<1> QED
  BY <1>3 DEF AllViewed

\* Nobody fails to write a view, and git brings none.
Attended == {"merge", "fail"} \cap Acts = {} /\ MayCrash = {}

\* No step leaves a view stale that nobody owes.
LEMMA NextViewed ==
    ASSUME Attended, Inv, Sound, Still, AllViewed, [Next]_vars
    PROVE  AllViewed'
<1>1. CASE UNCHANGED vars
  <2>1. ASSUME NEW c \in Clone, NEW r \in Record PROVE Viewed(c, r)'
    <3>1. Canonical(c, r)' = Canonical(c, r) /\ Present(c)' = Present(c)
      BY <1>1 DEF Canonical, Expected, HeadOf, Heads, On, StateOf, Previous, Present, vars, repoVars
    <3>2. \A q \in Proc : Refreshes(q, r)' = Refreshes(q, r)
      BY <1>1 DEF Refreshes, Shown, vars, procVars
    <3> QED
      BY <1>1, <3>1, <3>2 DEF Viewed, AllViewed, vars
  <2> QED
    BY <2>1 DEF AllViewed
<1>2. ASSUME Next PROVE AllViewed'
  <2>1. Grows
    BY <1>2, Growth
  <2>2. ASSUME NEW p \in Proc, Publishes(p) \/ Moves(p) \/ View(p) \/ Dashboard(p)
        PROVE  AllViewed'
    BY <2>1, <2>2, PublishesViewed, MovesViewed, ViewViewed, DashboardViewed, EditedAssumption
       DEF Attended
  <2>3. ASSUME NEW p \in Proc, Step(p), ~Publishes(p), ~Moves(p), ~View(p), ~Dashboard(p)
        PROVE  AllViewed'
    <3>1. Others(p)
      BY <2>3, StepKeeps
    <3>2. UNCHANGED <<current, reviews, views>> /\ pc[p] # "view"
      BY <2>3, RenameIs, WritePointerIs
         DEF Step, Show, GiveUp, EnterReview, EnterResolve, LockFile, Resolves, BeginDraft,
             EnterDraft, WriteRevision, Yields, At, repoVars
    <3> QED
      BY <2>1, <3>1, <3>2, QuietViewed
  <2>4. ASSUME NEW c \in Clone, Recover(c) PROVE AllViewed'
    <3>1. UNCHANGED <<repoVars, procVars, views, pc>>
      BY <2>4 DEF Recover
    <3>2. ASSUME NEW d \in Clone, NEW r \in Record PROVE Viewed(d, r)'
      <4>1. Canonical(d, r)' = Canonical(d, r) /\ Present(d)' = Present(d)
        BY <3>1 DEF Canonical, Expected, HeadOf, Heads, On, StateOf, Previous, Present, repoVars
      <4>2. \A q \in Proc : Refreshes(q, r)' = Refreshes(q, r)
        BY <3>1 DEF Refreshes, Shown, procVars
      <4> QED
        BY <3>1, <4>1, <4>2 DEF Viewed, AllViewed
    <3> QED
      BY <3>2 DEF AllViewed
  <2>5. \A p \in Proc : ~Crash(p)
    BY DEF Crash, Attended
  <2>6. \A c, d \in Clone : ~Merge(c, d)
    BY DEF Merge, Attended
  <2> QED
    BY <1>2, <2>2, <2>3, <2>4, <2>5, <2>6, EditViewed DEF Next
<1> QED
  BY <1>1, <1>2

\* There is nothing to view at first.
LEMMA InitViewed == Init => AllViewed /\ Filed
BY EditedAssumption DEF Init, AllViewed, Viewed, Present, NoCard, Filed

\* A decision is published after the revision it is on.
LEMMA NextFiled ==
    ASSUME Attended, Inv, Sound, Still, Filed, [Next]_vars
    PROVE  Filed'
<1>4. ASSUME Next PROVE Grows
  BY <1>4, Growth
<1> USE ConstantsAssumption
<1>0. TypeOK
  BY DEF Inv
<1>1. CASE UNCHANGED vars
  BY <1>1 DEF Filed, vars, repoVars
<1>2. ASSUME Next, Grows, UNCHANGED reviews PROVE Filed'
  BY <1>2 DEF Filed, Grows
<1>3. ASSUME NEW p \in Proc, Publishes(p), Grows PROVE Filed'
  <2>1. PICK x \in Id : x = new[p]
    BY <1>3, ContentTyped DEF Publishes
  <2>2. /\ event'[x] = Content(p) /\ Deciding(p) /\ pc[p] = "rename" /\ Unmoved(p)
        /\ UNCHANGED revs /\ Home[p] \in Clone
        /\ \A c \in Clone : reviews'[c] = IF c = Home[p] THEN reviews[c] \cup {x} ELSE reviews[c]
    BY <1>0, <1>3, <2>1, ContentTyped DEF Publishes, TypeOK, Still
  <2>3. ASSUME NEW r \in Record, event'[x][r] # None
        PROVE  <<r, event'[x][r].rev>> \in revs[Home[p]]
    <3>1. /\ r \in Planned(p) /\ card[p][r] \in Line
          /\ event'[x][r].rev = card[p][r].rev
      BY <1>3, <2>2, <2>3, ContentTyped DEF Publishes
    <3>2. current[Home[p]][r] = card[p][r].rev /\ card[p][r].rev \in Rev
      BY <2>2, <3>1 DEF Unmoved, Line
    <3>3. r \in Present(Home[p])
      BY <3>2 DEF Present
    <3> QED
      BY <2>2, <3>1, <3>2, <3>3 DEF Sound, PointerResolves
  <2>4. ASSUME NEW c \in Clone, NEW e \in reviews'[c], NEW r \in Record, event'[e][r] # None
        PROVE  <<r, event'[e][r].rev>> \in revs'[c]
    <3>1. CASE e \in reviews[c]
      BY <1>3, <2>4, <3>1 DEF Filed, Grows
    <3>2. CASE e \notin reviews[c]
      <4>1. c = Home[p] /\ e = x
        BY <2>2, <2>4, <3>2
      <4> QED
        BY <2>2, <2>3, <2>4, <4>1
    <3> QED
      BY <3>1, <3>2
  <2> QED
    BY <2>4 DEF Filed
<1>5. ASSUME NEW p \in Proc, Step(p) \/ Crash(p), ~Publishes(p) PROVE UNCHANGED reviews
  BY <1>5, RenameIs, WritePointerIs
     DEF Step, Crash, Show, GiveUp, EnterReview, EnterResolve, LockFile, Resolves, BeginDraft,
         EnterDraft, WriteRevision, Moves, Yields, View, Dashboard, repoVars
<1>6. ASSUME NEW c \in Clone, Recover(c) \/ \E s \in Record : EditView(c, s)
      PROVE  UNCHANGED reviews
  BY <1>6 DEF Recover, EditView, repoVars
<1>7. \A c, d \in Clone : ~Merge(c, d)
  BY DEF Merge, Attended
<1>8. Next => UNCHANGED reviews \/ \E p \in Proc : Publishes(p)
  BY <1>5, <1>6, <1>7 DEF Next
<1> QED
  BY <1>1, <1>2, <1>3, <1>4, <1>8

-----------------------------------------------------------------------------
(* The scan *)

\* What the scan makes of a record before it looks at its view; nobody holds the
\* lock while it is quiet.
Follows ==
    /\ ScanOK
    /\ quiet => holder[Of] = None
    /\ at = "views" => \A r \in Scanned : state[r] = seen[r].state
    /\ at = "more views" => \A r \in Scanned \ First : state[r] = seen[r].state

\* The scan has the records of S, each with its pointer.
Lists(S) ==
    /\ Scanned = S \cap bare[Of]
    /\ \A r \in Scanned : r \in Present(Of) /\ seen[r].rev = current[Of][r]

\* While it is quiet the scan has what is canonical.
Faithful ==
    quiet =>
        /\ at = "sources" => seen = NoCard
        /\ at = "knowledge" => Lists(First)
        /\ at \in {"reviews", "views", "more views"} => Lists(Record)
        /\ at \in {"views", "more views"} =>
               \A r \in Scanned : seen[r] = Canonical(Of, r) /\ state[r] = seen[r].state

\* Nobody changes a repository whose lock nobody holds.
LEMMA Unlocked ==
    ASSUME Attended, Inv, NEW c \in Clone, holder[c] = None, [Next]_vars
    PROVE  /\ current'[c] = current[c] /\ bare'[c] = bare[c] /\ revs'[c] = revs[c]
           /\ reviews'[c] = reviews[c]
<1> USE ConstantsAssumption
<1>1. TypeOK /\ \A p \in Proc : pc[p] \in Holding => Home[p] # c
  BY DEF Inv, HasLock
<1>2. ASSUME NEW p \in Proc, Publishes(p) \/ Moves(p) \/ WriteRevision(p)
      PROVE  /\ current'[c] = current[c] /\ bare'[c] = bare[c] /\ revs'[c] = revs[c]
             /\ reviews'[c] = reviews[c]
  <2>1. Home[p] # c
    BY <1>1, <1>2 DEF Publishes, Moves, WriteRevision, Holding, At
  <2> QED
    BY <1>1, <1>2, <2>1 DEF Publishes, Moves, WriteRevision, TypeOK
<1>3. ASSUME NEW p \in Proc, Step(p), ~Publishes(p), ~Moves(p), ~WriteRevision(p)
      PROVE  UNCHANGED <<current, bare, revs, reviews>>
  BY <1>3, RenameIs, WritePointerIs
     DEF Step, Show, GiveUp, EnterReview, EnterResolve, LockFile, Resolves, BeginDraft,
         EnterDraft, Yields, View, Dashboard, repoVars
<1>4. ASSUME NEW d \in Clone, Recover(d) \/ \E s \in Record : EditView(d, s)
      PROVE  UNCHANGED <<current, bare, revs, reviews>>
  BY <1>4 DEF Recover, EditView, repoVars
<1>5. (\A p \in Proc : ~Crash(p)) /\ (\A b, d \in Clone : ~Merge(b, d))
  BY DEF Merge, Crash, Attended
<1>6. CASE UNCHANGED vars
  BY <1>6 DEF vars, repoVars
<1> QED
  BY <1>2, <1>3, <1>4, <1>5, <1>6 DEF Next

\* What is canonical for r in clone c stays so as long as the clone's lock is free.
LEMMA UnlockedCanonical ==
    ASSUME Attended, Inv, Grows, NEW c \in Clone, holder[c] = None, [Next]_vars, NEW r \in Record
    PROVE  Canonical(c, r)' = Canonical(c, r) /\ Present(c)' = Present(c)
<1>1. /\ TypeOK /\ current'[c] = current[c] /\ reviews'[c] = reviews[c]
  BY Unlocked DEF Inv
<1>2. PICK v : v = current[c][r]
  OBVIOUS
<1>3. Expected(c, r, v)' = Expected(c, r, v)
  BY <1>1, SameGraph
<1> QED
  BY <1>1, <1>2, <1>3 DEF Canonical, Present

\* A view read while the lock is free is the record's, or was edited.
LEMMA FreeViews ==
    ASSUME Inv, Still, AllViewed, NEW c \in Clone, holder[c] = None, NEW r \in Record
    PROVE  /\ views[c][r] \in {None, Edited, Canonical(c, r)}
           /\ "edit" \notin Acts /\ r \in Present(c) => views[c][r] = Canonical(c, r)
<1> USE ConstantsAssumption
<1>1. \A p \in Proc : Home[p] = c => pc[p] # "view"
  BY DEF Inv, HasLock, Holding
<1> QED
  BY <1>1 DEF AllViewed, Viewed, Refreshes

\* The writers leave the scan's conclusions alone.
LEMMA WritersFollow ==
    ASSUME QueueAssumption, Attended, Inv, Follows, Next, quiet' = (quiet /\ holder'[Of] = None),
           UNCHANGED <<at, seen, state>>
    PROVE  Follows'
<1>1. ScanOK'
  BY DEF Follows, ScanOK
<1>2. Scanned' = Scanned
  BY DEF Scanned
<1> QED
  BY <1>1, <1>2 DEF Follows

\* While it is quiet no writer changes what the scan has read.
LEMMA WritersUndisturbing ==
    ASSUME QueueAssumption, Attended, Inv, Follows, Faithful, Next,
           quiet' = (quiet /\ holder'[Of] = None), UNCHANGED <<at, seen, state>>
    PROVE  Faithful'
<1> SUFFICES ASSUME quiet' PROVE Faithful'
  BY DEF Faithful
<1>1. quiet /\ holder[Of] = None /\ Of \in Clone
  BY DEF Follows, QueueAssumption
<1>2. current'[Of] = current[Of] /\ bare'[Of] = bare[Of]
  BY <1>1, Unlocked
<1>3. ASSUME NEW r \in Record
      PROVE  Canonical(Of, r)' = Canonical(Of, r) /\ Present(Of)' = Present(Of)
  BY <1>1, Growth, UnlockedCanonical
<1>4. Scanned' = Scanned
  BY DEF Scanned
<1>5. ASSUME NEW S, Lists(S) PROVE Lists(S)'
  BY <1>2, <1>3, <1>4, <1>5 DEF Lists, Scanned
<1>6. NoCard' = NoCard
  BY DEF NoCard
<1> QED
  BY <1>1, <1>3, <1>4, <1>5, <1>6 DEF Faithful, Scanned

\* A record read has its pointer.
LEMMA RecordsRead ==
    ASSUME QueueAssumption, Inv, ScanOK, NEW S \in SUBSET Record, ReadRecords(S)
    PROVE  /\ seen' \in [Record -> Heading \cup {None}]
           /\ Scanned' = (Scanned \ (S \cap bare[Of])) \cup (S \cap bare[Of])
           /\ \A r \in S \cap bare[Of] : r \in Present(Of) /\ seen'[r].rev = current[Of][r]
           /\ \A r \in Record \ (S \cap bare[Of]) : seen'[r] = seen[r]
<1>1. TypeOK /\ Of \in Clone /\ seen \in [Record -> Heading \cup {None}]
  BY DEF Inv, QueueAssumption, ScanOK
<1>2. ASSUME NEW r \in S \cap bare[Of]
      PROVE  /\ r \in Present(Of) /\ seen'[r].rev = current[Of][r]
             /\ seen'[r] \in Heading
  <2>1. <<r, current[Of][r]>> \in revs[Of] /\ revs[Of] \subseteq Record \X Rev
    BY <1>1, <1>2 DEF ReadRecords, Legible, TypeOK
  <2>2. current[Of][r] \in Rev
    BY <2>1
  <2>3. seen'[r] = [rev |-> current[Of][r], head |-> None, state |-> "unconfirmed"]
    BY <1>2 DEF ReadRecords
  <2>4. r \in Record /\ r \in Present(Of)
    BY <1>2, <2>2, ConstantsAssumption DEF Present
  <2> QED
    BY <2>2, <2>3, <2>4 DEF Heading, State
<1>3. \A r \in Record \ (S \cap bare[Of]) : seen'[r] = seen[r]
  BY DEF ReadRecords
<1>4. seen' \in [Record -> Heading \cup {None}]
  BY <1>1, <1>2, <1>3 DEF ReadRecords
<1>5. Scanned' = (Scanned \ (S \cap bare[Of])) \cup (S \cap bare[Of])
  BY <1>2, <1>3, NoneAssumption DEF Scanned
<1> QED
  BY <1>2, <1>3, <1>4, <1>5

\* What was read of the reviews is what is expected.
LEMMA ReviewsRead ==
    ASSUME QueueAssumption, Inv, ScanOK, ReadReviews
    PROVE  /\ seen' \in [Record -> Heading \cup {None}]
           /\ state' \in [Record -> State \cup {None}]
           /\ Scanned' = Scanned
           /\ \A r \in Scanned : seen'[r] = Expected(Of, r, seen[r].rev) /\ state'[r] = seen'[r].state
<1> USE NoneAssumption
<1>1. TypeOK /\ Of \in Clone /\ seen \in [Record -> Heading \cup {None}]
  BY DEF Inv, QueueAssumption, ScanOK
<1>2. ASSUME NEW r \in Scanned
      PROVE  /\ seen'[r] = Expected(Of, r, seen[r].rev) /\ seen'[r] \in Heading
             /\ state'[r] = seen'[r].state /\ state'[r] \in State
  <2>1. r \in Record /\ seen[r].rev \in Rev
    BY <1>1, <1>2 DEF Scanned, Heading
  <2>2. Expected(Of, r, seen[r].rev) \in Heading
    BY <1>1, <2>1, StateTyped
  <2>3. seen'[r] = Expected(Of, r, seen[r].rev) /\ state'[r] = seen'[r].state
    BY <1>2, <2>1 DEF ReadReviews
  <2> QED
    BY <2>2, <2>3 DEF Heading
<1>3. \A r \in Record \ Scanned : seen'[r] = None /\ state'[r] = None
  BY DEF ReadReviews
<1>4. Scanned' = Scanned
  BY <1>2, <1>3 DEF Scanned
<1>5. seen' \in [Record -> Heading \cup {None}] /\ state' \in [Record -> State \cup {None}]
  BY <1>2, <1>3 DEF ReadReviews
<1> QED
  BY <1>2, <1>4, <1>5

\* What was made of the views of S.
LEMMA ViewsRead ==
    ASSUME ScanOK, NEW S \in SUBSET Record, ReadViews(S)
    PROVE  /\ state' \in [Record -> State \cup {None}]
           /\ Scanned' = Scanned
           /\ \A r \in Record \ S : state'[r] = state[r]
           /\ \A r \in Scanned \cap S : state'[r] = Verdict(r)
<1>1. ASSUME NEW r \in Record PROVE Verdict(r) \in State \cup {None}
  BY DEF Verdict, State, ScanOK
<1> QED
  BY <1>1 DEF ReadViews, Scanned, ScanOK

\* Each step of the scan keeps its types.
LEMMA ScanTyped ==
    ASSUME QueueAssumption, Inv, ScanOK, Scan, quiet' \in BOOLEAN
    PROVE  ScanOK'
<1>1. at' \in Steps
  BY DEF Scan, BeginScan, ReadSources, ReadKnowledge, ListTopics, ReadReviews, ReadSourceViews,
         ReadKnowledgeViews, FailScan, Steps
<1>2. NoCard \in [Record -> Heading \cup {None}] /\ NoCard \in [Record -> State \cup {None}]
  BY DEF NoCard
<1>3. First \in SUBSET Record /\ Record \ First \in SUBSET Record
  BY DEF QueueAssumption
<1>4. CASE BeginScan \/ ListTopics \/ FailScan
  BY <1>1, <1>2, <1>4 DEF BeginScan, ListTopics, FailScan, ScanOK
<1>5. CASE ReadSources \/ ReadKnowledge
  BY <1>1, <1>3, <1>5, RecordsRead DEF ReadSources, ReadKnowledge, ReadRecords, ScanOK
<1>6. CASE ReadReviews
  BY <1>1, <1>6, ReviewsRead DEF ScanOK
<1>7. CASE ReadSourceViews \/ ReadKnowledgeViews
  <2>1. PICK S \in SUBSET Record : ReadViews(S)
    BY <1>3, <1>7 DEF ReadSourceViews, ReadKnowledgeViews
  <2>2. seen' = seen
    BY <2>1 DEF ReadViews
  <2> QED
    BY <1>1, <2>1, <2>2, ViewsRead DEF ScanOK
<1> QED
  BY <1>4, <1>5, <1>6, <1>7 DEF Scan

\* Each step of the scan makes of a record what the step before it allows.
LEMMA ScanFollows ==
    ASSUME QueueAssumption, Inv, Follows, Scan,
           quiet' = ((quiet \/ at' = "sources") /\ holder[Of] = None), UNCHANGED vars
    PROVE  Follows'
<1>1. ScanOK /\ ScanOK' /\ (quiet' => holder'[Of] = None)
  BY ScanTyped DEF Follows, vars
<1>2. CASE at' \notin {"views", "more views"}
  BY <1>1, <1>2 DEF Follows
<1>3. CASE ReadReviews
  BY <1>1, <1>3, ReviewsRead DEF ReadReviews, Follows
<1>4. CASE ReadSourceViews
  <2>1. at = "views" /\ at' = "more views" /\ ReadViews(First) /\ seen' = seen
    BY <1>4 DEF ReadSourceViews, ReadViews
  <2>2. First \in SUBSET Record /\ \A r \in Scanned \ First : r \in Record
    BY DEF QueueAssumption, Scanned
  <2>3. Scanned' = Scanned /\ \A r \in Scanned \ First : state'[r] = state[r]
    BY <1>1, <2>1, <2>2, ViewsRead
  <2> QED
    BY <1>1, <2>1, <2>3 DEF Follows
<1> QED
  BY <1>2, <1>3, <1>4
     DEF Scan, BeginScan, ReadSources, ReadKnowledge, ListTopics, ReadKnowledgeViews, FailScan

\* Views agree while it is quiet, so nothing is made of them.
LEMMA QuietViews ==
    ASSUME QueueAssumption, "edit" \notin Acts, Inv, Still, AllViewed, Follows, Faithful,
           quiet, at \in {"views", "more views"}, NEW S \in SUBSET Record, ReadViews(S)
    PROVE  \A r \in Scanned : state'[r] = state[r] /\ views[Of][r] = Canonical(Of, r)
<1>1. Of \in Clone /\ holder[Of] = None
  BY DEF QueueAssumption, Follows
<1>2. ASSUME NEW r \in Scanned
      PROVE  state'[r] = state[r] /\ views[Of][r] = Canonical(Of, r)
  <2>1. r \in Record /\ r \in Present(Of) /\ seen[r] = Canonical(Of, r)
    BY <1>2 DEF Scanned, Faithful, Lists
  <2>2. views[Of][r] = Canonical(Of, r)
    BY <1>1, <2>1, FreeViews
  <2> QED
    BY <1>2, <2>1, <2>2, ViewsRead DEF Verdict, Follows
<1> QED
  BY <1>2

\* Each step of a quiet scan reads what is canonical.
LEMMA ScanUndisturbed ==
    ASSUME QueueAssumption, "edit" \notin Acts, Inv, Still, AllViewed, Follows, Faithful, Scan,
           quiet' = ((quiet \/ at' = "sources") /\ holder[Of] = None), UNCHANGED vars
    PROVE  Faithful'
<1> SUFFICES ASSUME quiet' PROVE Faithful'
  BY DEF Faithful
<1>1. quiet \/ at' = "sources"
  OBVIOUS
<1>2. /\ bare' = bare /\ current' = current /\ Present(Of)' = Present(Of)
      /\ \A r \in Record : Canonical(Of, r)' = Canonical(Of, r)
  BY DEF vars, repoVars, Present, Canonical, Expected, HeadOf, Heads, On, StateOf, Previous
<1>3. First \in SUBSET Record /\ Record \ First \in SUBSET Record /\ ScanOK
  BY DEF QueueAssumption, Follows
<1>4. CASE BeginScan \/ ListTopics \/ FailScan
  BY <1>4 DEF BeginScan, ListTopics, FailScan, Faithful, NoCard
<1>5. CASE ReadSources
  <2>1. at = "sources" /\ at' = "knowledge" /\ ReadRecords(First)
    BY <1>5 DEF ReadSources
  <2>2. Scanned = {}
    BY <1>1, <2>1 DEF Faithful, Scanned, NoCard
  <2>3. Scanned' = First \cap bare[Of]
    BY <1>3, <2>1, <2>2, RecordsRead
  <2>4. \A r \in First \cap bare[Of] : r \in Present(Of) /\ seen'[r].rev = current[Of][r]
    BY <1>3, <2>1, RecordsRead
  <2>5. Lists(First)'
    BY <1>2, <2>3, <2>4 DEF Lists
  <2> QED
    BY <2>1, <2>5 DEF Faithful
<1>6. CASE ReadKnowledge
  <2>1. at = "knowledge" /\ at' = "reviews" /\ ReadRecords(Record \ First)
    BY <1>6 DEF ReadKnowledge
  <2>2. Lists(First)
    BY <1>1, <2>1 DEF Faithful
  <2>3. bare[Of] \subseteq Record
    BY DEF Inv, TypeOK, QueueAssumption
  <2>4. /\ Scanned' = (Scanned \ ((Record \ First) \cap bare[Of])) \cup ((Record \ First) \cap bare[Of])
        /\ \A r \in (Record \ First) \cap bare[Of] :
               r \in Present(Of) /\ seen'[r].rev = current[Of][r]
        /\ \A r \in Record \ ((Record \ First) \cap bare[Of]) : seen'[r] = seen[r]
    BY <1>3, <2>1, RecordsRead
  <2>5. Scanned' = Record \cap bare[Of]
    BY <1>3, <2>2, <2>4 DEF Lists
  <2>6. ASSUME NEW r \in Record \cap bare[Of]
        PROVE  r \in Present(Of) /\ seen'[r].rev = current[Of][r]
    BY <2>2, <2>4, <2>6 DEF Lists
  <2>7. Lists(Record)'
    BY <1>2, <2>5, <2>6 DEF Lists
  <2> QED
    BY <2>1, <2>7 DEF Faithful
<1>7. CASE ReadReviews
  <2>1. at = "reviews" /\ at' = "views"
    BY <1>7 DEF ReadReviews
  <2>2. Lists(Record)
    BY <1>1, <2>1 DEF Faithful
  <2>3. /\ Scanned' = Scanned
        /\ \A r \in Scanned : seen'[r] = Expected(Of, r, seen[r].rev) /\ state'[r] = seen'[r].state
    BY <1>3, <1>7, ReviewsRead
  <2>4. ASSUME NEW r \in Scanned
        PROVE  seen'[r] = Canonical(Of, r) /\ seen'[r].rev = current[Of][r] /\ r \in Present(Of)
    BY <2>2, <2>3 DEF Lists, Canonical, Expected
  <2>5. Lists(Record)'
    BY <1>2, <2>2, <2>3, <2>4 DEF Lists
  <2>6. \A r \in Scanned' : seen'[r] = Canonical(Of, r)' /\ state'[r] = seen'[r].state
    BY <1>2, <2>3, <2>4 DEF Scanned
  <2> QED
    BY <2>1, <2>5, <2>6 DEF Faithful
<1>8. CASE ReadSourceViews
  <2>1. at = "views" /\ at' = "more views" /\ ReadViews(First) /\ seen' = seen
    BY <1>8 DEF ReadSourceViews, ReadViews
  <2>2. \A r \in Scanned : state'[r] = state[r]
    BY <1>1, <1>3, <2>1, QuietViews
  <2>3. Lists(Record) /\ \A r \in Scanned : seen[r] = Canonical(Of, r) /\ state[r] = seen[r].state
    BY <1>1, <2>1 DEF Faithful
  <2>4. Scanned' = Scanned
    BY <2>1 DEF Scanned
  <2>5. Lists(Record)'
    BY <1>2, <2>1, <2>3, <2>4 DEF Lists
  <2>6. \A r \in Scanned' : seen'[r] = Canonical(Of, r)' /\ state'[r] = seen'[r].state
    BY <1>2, <2>1, <2>2, <2>3, <2>4 DEF Scanned
  <2> QED
    BY <2>1, <2>5, <2>6 DEF Faithful
<1>9. CASE ReadKnowledgeViews
  BY <1>9 DEF ReadKnowledgeViews, Faithful
<1> QED
  BY <1>4, <1>5, <1>6, <1>7, <1>8, <1>9 DEF Scan

-----------------------------------------------------------------------------
(* The verdicts *)

\* What is labelled confirmed was confirmed in the reviews, and its view shows it.
LEMMA ScanIsFresh ==
    ASSUME QueueAssumption, Attended, Inv, Still, AllViewed, Follows, Scan, UNCHANGED vars
    PROVE  FreshVerdict
<1> SUFFICES ASSUME NEW S \in {First, Record \ First}, Looking(S), holder[Of] = None,
                    NEW match \in Found("confirmed", S, FALSE)'
             PROVE  match.rev = current[Of][match.record] /\ Confirmed(Of, match.record)
  BY DEF FreshVerdict
<1>1. /\ \/ at = "views" /\ S = First
         \/ at = "more views" /\ S = Record \ First
      /\ ReadViews(S) /\ seen' = seen /\ S \in SUBSET Record
  <2>1. CASE at = "views" /\ at' = "more views" /\ S = First
    <3>1. ReadSourceViews
      BY <2>1 DEF Scan, BeginScan, ReadSources, ReadKnowledge, ListTopics, ReadReviews,
                  ReadKnowledgeViews, FailScan
    <3> QED
      BY <2>1, <3>1 DEF ReadSourceViews, ReadViews, QueueAssumption
  <2>2. CASE at = "more views" /\ at' = "listed" /\ S = Record \ First
    <3>1. ReadKnowledgeViews
      BY <2>2 DEF Scan, BeginScan, ReadSources, ReadKnowledge, ListTopics, ReadReviews,
                  ReadSourceViews, FailScan
    <3> QED
      BY <2>2, <3>1 DEF ReadKnowledgeViews, ReadViews
  <2> QED
    BY <2>1, <2>2 DEF Looking
<1>2. PICK r \in Scanned' \cap S :
          /\ Label(r)' = "confirmed"
          /\ match = [record |-> r, rev |-> seen'[r].rev, label |-> Label(r)']
  BY DEF Found
<1>3. r \in Scanned \cap S /\ r \in Record /\ state'[r] = "confirmed" /\ seen[r] \in Heading
  BY <1>1, <1>2, NoneAssumption DEF Label, Scanned, Follows, ScanOK
<1>4. Verdict(r) = "confirmed"
  BY <1>1, <1>3, ViewsRead DEF Follows
<1>5. views[Of][r] = seen[r] /\ state[r] = "confirmed"
  BY <1>4 DEF Verdict
<1>6. seen[r].state = "confirmed"
  BY <1>1, <1>3, <1>5 DEF Follows
<1>7. views[Of][r] \in {None, Edited, Canonical(Of, r)}
  BY <1>3, FreeViews DEF QueueAssumption
<1>8. seen[r] = Canonical(Of, r)
  BY <1>3, <1>5, <1>7, NoneAssumption, EditedAssumption
<1>9. seen[r].rev = current[Of][r] /\ current[Of][r] \in Rev
  BY <1>3, <1>8 DEF Canonical, Expected, Heading
<1> QED
  BY <1>1, <1>2, <1>6, <1>8, <1>9, ConstantsAssumption DEF Confirmed

\* What an undisturbed scan lists is what is canonical.
LEMMA Listed ==
    ASSUME QueueAssumption, "edit" \notin Acts, Inv, Still, AllViewed, Follows, Faithful, Scan,
           UNCHANGED vars, Looking(Record \ First),
           quiet' = ((quiet \/ at' = "sources") /\ holder[Of] = None), quiet'
    PROVE  /\ seen' = seen /\ Scanned' = Scanned /\ Scanned = bare[Of] /\ Scanned \subseteq Record
           /\ \A r \in Scanned :
                  /\ r \in Present(Of) /\ current[Of][r] \in Rev /\ seen[r].rev = current[Of][r]
                  /\ state'[r] = Canonical(Of, r).state /\ views[Of][r] = Canonical(Of, r)
<1>1. /\ ReadViews(First) \/ ReadViews(Record \ First)
      /\ seen' = seen /\ at \in {"views", "more views"} /\ at' # "sources"
  <2>1. CASE at = "views" /\ at' = "more views"
    <3>1. ReadSourceViews
      BY <2>1 DEF Scan, BeginScan, ReadSources, ReadKnowledge, ListTopics, ReadReviews,
                  ReadKnowledgeViews, FailScan
    <3> QED
      BY <2>1, <3>1 DEF ReadSourceViews, ReadViews
  <2>2. CASE at = "more views" /\ at' = "listed"
    <3>1. ReadKnowledgeViews
      BY <2>2 DEF Scan, BeginScan, ReadSources, ReadKnowledge, ListTopics, ReadReviews,
                  ReadSourceViews, FailScan
    <3> QED
      BY <2>2, <3>1 DEF ReadKnowledgeViews, ReadViews
  <2> QED
    BY <2>1, <2>2 DEF Looking
<1>2. quiet
  BY <1>1
<1>3. First \in SUBSET Record /\ Record \ First \in SUBSET Record
  BY DEF QueueAssumption
<1>4. \A r \in Scanned : state'[r] = state[r] /\ views[Of][r] = Canonical(Of, r)
  BY <1>1, <1>2, <1>3, QuietViews
<1>5. Lists(Record) /\ \A r \in Scanned : seen[r] = Canonical(Of, r) /\ state[r] = seen[r].state
  BY <1>1, <1>2 DEF Faithful
<1>6. TypeOK /\ Of \in Clone
  BY DEF Inv, QueueAssumption
<1>7. bare[Of] \subseteq Record
  BY <1>6 DEF TypeOK
<1>8. Scanned' = Scanned /\ Scanned \subseteq Record
  BY <1>1 DEF Scanned
<1>9. Scanned = bare[Of]
  BY <1>5, <1>7 DEF Lists
<1>10. ASSUME NEW r \in Scanned
       PROVE  /\ r \in Present(Of) /\ current[Of][r] \in Rev /\ seen[r].rev = current[Of][r]
              /\ state'[r] = Canonical(Of, r).state /\ views[Of][r] = Canonical(Of, r)
  <2>1. r \in Present(Of) /\ seen[r].rev = current[Of][r]
    BY <1>5, <1>10 DEF Lists
  <2>2. current[Of][r] \in Rev
    BY <1>6, <2>1 DEF Present, TypeOK
  <2> QED
    BY <1>4, <1>5, <1>10, <2>1, <2>2
<1> QED
  BY <1>1, <1>8, <1>9, <1>10

\* A record is blocked by a conflict, and by nothing else.
LEMMA BlockedIsConflict ==
    ASSUME TypeOK, NEW c \in Clone, NEW r \in Record, NEW v \in Rev
    PROVE  StateOf(c, r, v) = "blocked" <=> HeadOf(c, r, v) = Conflict
<1> PICK head : head = HeadOf(c, r, v)
  OBVIOUS
<1>1. ASSUME head # Conflict, head # None PROVE Outcome(event[head][r].decision) # "blocked"
  <2>1. head \in On(c, r, v) /\ head \in Id
    BY <1>1, HeadTyped
  <2>2. event[head][r] \in Target
    BY <2>1 DEF On, TypeOK
  <2> QED
    BY <2>2 DEF Target, Decision, Outcome
<1> QED
  BY <1>1 DEF StateOf

\* The most pressing state is one of those found, or nothing presses.
LEMMA AggregateFound ==
    /\ Aggregate \in {"blocked", "changes", "revised", "unconfirmed", "deferred"}
    /\ Aggregate = "blocked" => \E r \in Scanned : state[r] = "blocked"
<1> DEFINE found == {state[r] : r \in Scanned}
           ranks == {n \in 1..5 : Pressing[n] \in found}
           least == CHOOSE n \in ranks : \A k \in ranks : n <= k
<1>1. CASE ranks = {}
  BY <1>1 DEF Aggregate
<1>2. CASE ranks # {}
  <2>1. \E n \in ranks : \A k \in ranks : n <= k
    <3> HIDE DEF found
    <3>1. CASE 1 \in ranks
      BY <3>1
    <3>2. CASE 1 \notin ranks /\ 2 \in ranks
      BY <3>2
    <3>3. CASE 1 \notin ranks /\ 2 \notin ranks /\ 3 \in ranks
      BY <3>3
    <3>4. CASE 1 \notin ranks /\ 2 \notin ranks /\ 3 \notin ranks /\ 4 \in ranks
      BY <3>4
    <3>5. CASE 1 \notin ranks /\ 2 \notin ranks /\ 3 \notin ranks /\ 4 \notin ranks
      BY <1>2, <3>5
    <3> QED
      BY <3>1, <3>2, <3>3, <3>4, <3>5
  <2>2. least \in ranks
    <3> HIDE DEF ranks
    <3> QED
      BY <2>1
  <2>3. Aggregate = Pressing[least]
    BY <1>2 DEF Aggregate
  <2> HIDE DEF least
  <2>4. least \in 1..5 /\ Pressing[least] \in found
    BY <2>2
  <2> HIDE DEF found, ranks
  <2>5. /\ Pressing[least] \in {"blocked", "changes", "revised", "unconfirmed", "deferred"}
        /\ Pressing[least] \in found
    BY <2>4 DEF Pressing
  <2> QED
    BY <2>3, <2>5 DEF found
<1> QED
  BY <1>1, <1>2

\* The home screen has nothing for the owner exactly if nothing waits.
LEMMA NothingWaits == Summary.pending + Summary.changes + Summary.blocked = 0 <=> ~Waits
<1> DEFINE Is(states) == IF Waits /\ Aggregate \in states THEN 1 ELSE 0
<1>1. /\ Summary.pending = Is({"unconfirmed", "deferred", "revised"})
      /\ Summary.changes = Is({"changes"}) /\ Summary.blocked = Is({"blocked"})
  BY DEF Summary
<1>2. Waits => \/ Is({"unconfirmed", "deferred", "revised"}) = 1
               \/ Is({"changes"}) = 1 \/ Is({"blocked"}) = 1
  BY AggregateFound
<1>3. ~Waits => /\ Is({"unconfirmed", "deferred", "revised"}) = 0
                /\ Is({"changes"}) = 0 /\ Is({"blocked"}) = 0
  OBVIOUS
<1>4. \A states : Is(states) \in {0, 1}
  OBVIOUS
<1> HIDE DEF Is
<1>5. PICK a, b, c \in {0, 1} :
          /\ a = Is({"unconfirmed", "deferred", "revised"})
          /\ b = Is({"changes"}) /\ c = Is({"blocked"})
  BY <1>4
<1>6. CASE Waits
  <2>1. a = 1 \/ b = 1 \/ c = 1
    BY <1>2, <1>5, <1>6
  <2>2. a + b + c # 0
    BY <2>1
  <2> QED
    BY <1>1, <1>5, <1>6, <2>2
<1>7. CASE ~Waits
  BY <1>1, <1>3, <1>7
<1> QED
  BY <1>6, <1>7

\* The verdict of a quiet scan.
LEMMA ScanIsQuiet ==
    ASSUME QueueAssumption, "edit" \notin Acts, Inv, Still, Filed, AllViewed, Follows, Faithful,
           Scan, UNCHANGED vars, quiet' = ((quiet \/ at' = "sources") /\ holder[Of] = None)
    PROVE  QuietVerdict
<1> SUFFICES ASSUME Looking(Record \ First), quiet' PROVE QuietVerdict
  BY DEF QuietVerdict
<1>1. /\ seen' = seen /\ Scanned' = Scanned /\ Scanned = bare[Of] /\ Scanned \subseteq Record
      /\ \A r \in Scanned :
             /\ r \in Present(Of) /\ current[Of][r] \in Rev /\ seen[r].rev = current[Of][r]
             /\ state'[r] = Canonical(Of, r).state /\ views[Of][r] = Canonical(Of, r)
  BY Listed
<1>2. TypeOK /\ Of \in Clone
  BY DEF Inv, QueueAssumption
<1>3. ASSUME NEW r \in Scanned
      PROVE  /\ state'[r] = "blocked" <=> HeadOf(Of, r, current[Of][r]) = Conflict
             /\ state'[r] = "confirmed" <=> Confirmed(Of, r)
             /\ state'[r] = "blocked" <=> Blocked(Of, r)
             /\ state'[r] \in State
  <2>1. PICK v \in Rev : v = current[Of][r]
    BY <1>1, <1>3
  <2>2. state'[r] = StateOf(Of, r, v) /\ Canonical(Of, r) = Expected(Of, r, v) /\ r \in Record
    BY <1>1, <1>3, <2>1 DEF Canonical, Expected
  <2>3. StateOf(Of, r, v) = "blocked" <=> HeadOf(Of, r, v) = Conflict
    BY <1>2, <2>2, BlockedIsConflict
  <2>4. StateOf(Of, r, v) \in State
    BY <1>2, <2>2, StateTyped
  <2>5. Canonical(Of, r).head = HeadOf(Of, r, v) /\ Canonical(Of, r).state = StateOf(Of, r, v)
    BY <2>2 DEF Expected
  <2>6. Confirmed(Of, r) <=> StateOf(Of, r, v) = "confirmed"
    BY <1>1, <1>3, <2>5, ConstantsAssumption DEF Confirmed
  <2>7. Blocked(Of, r) <=> HeadOf(Of, r, v) = Conflict
    BY <1>1, <1>3, <2>5 DEF Blocked
  <2> QED
    BY <2>1, <2>2, <2>3, <2>4, <2>6, <2>7
<1>4. /\ (Aggregate = "blocked" => \E r \in Scanned : state[r] = "blocked")'
      /\ (Summary.pending + Summary.changes + Summary.blocked = 0 <=> ~Waits)'
  <2>1. (/\ Aggregate \in {"blocked", "changes", "revised", "unconfirmed", "deferred"}
         /\ Aggregate = "blocked" => \E r \in Scanned : state[r] = "blocked")'
    BY AggregateFound, PTL
  <2>2. (Summary.pending + Summary.changes + Summary.blocked = 0 <=> ~Waits)'
    BY NothingWaits, PTL
  <2> QED
    BY <2>1, <2>2
<1>5. ASSUME NextAction' = "diagnose"
      PROVE  \E r \in Record : HeadOf(Of, r, current[Of][r]) = Conflict
  <2>1. Aggregate' = "blocked"
    BY <1>5 DEF NextAction
  <2> QED
    BY <1>1, <1>3, <1>4, <2>1
<1>6. Waits' <=> \E r \in bare[Of] : ~Confirmed(Of, r)
  BY <1>1, <1>3 DEF Waits
<1>7. ASSUME NEW r \in Scanned
      PROVE  /\ Shows(r)
             /\ "confirm" \in Effects(r)' <=> ~Blocked(Of, r) /\ ~Confirmed(Of, r)
  <2>1. Shows(r)
    BY <1>1, <1>2, <1>7 DEF Shows, Previous, Filed
  <2>2. "confirm" \in Effects(r)' <=> state'[r] \notin {"blocked", "confirmed"}
    BY DEF Effects
  <2> QED
    BY <1>3, <1>7, <2>1, <2>2
<1> QED
  BY <1>4, <1>5, <1>6, <1>7 DEF QuietVerdict

-----------------------------------------------------------------------------

\* The verdicts are about steps of the scan.
LEMMA WritersLookAway ==
    ASSUME UNCHANGED <<at, seen, state>>
    PROVE  FreshVerdict /\ QuietVerdict
BY DEF FreshVerdict, QuietVerdict, Looking

\* What holds of the repository, the views and the scan.
QueueInv == Inv /\ Sound /\ Still /\ AllViewed /\ Filed /\ Follows

\* The types of the scan are kept, whatever fails, is killed or merged.
LEMMA NextScanTyped == Inv /\ ScanOK /\ [NextQueue]_queueVars => ScanOK'
<1> SUFFICES ASSUME Inv, ScanOK, [NextQueue]_queueVars PROVE ScanOK'
  OBVIOUS
<1>1. CASE UNCHANGED <<at, seen, state>>
  BY <1>1 DEF NextQueue, queueVars, scanVars, ScanOK
<1>2. CASE Scan /\ quiet' = ((quiet \/ at' = "sources") /\ holder[Of] = None)
  BY <1>2, QueueAssumption, ScanTyped
<1> QED
  BY <1>1, <1>2 DEF NextQueue, queueVars, scanVars

\* The types of the scan hold at first.
LEMMA InitScanTyped == InitQueue => ScanOK
BY DEF InitQueue, ScanOK, Steps, NoCard

\* The invariant of the scan holds at first.
LEMMA InitScans == Attended /\ InitQueue => QueueInv /\ Faithful
<1> SUFFICES ASSUME Attended, InitQueue PROVE QueueInv /\ Faithful
  OBVIOUS
<1>1. Inv /\ Sound /\ Still /\ AllViewed /\ Filed
  BY InitInv, InitSound, InitStill, InitViewed DEF InitQueue
<1>2. Follows
  BY QueueAssumption DEF InitQueue, Follows, ScanOK, Steps, NoCard, Init
<1>3. Faithful
  BY DEF InitQueue, Faithful
<1> QED
  BY <1>1, <1>2, <1>3 DEF QueueInv

\* The invariant of the scan is kept.
LEMMA NextScans == Attended /\ QueueInv /\ [NextQueue]_queueVars => QueueInv'
<1> SUFFICES ASSUME Attended, QueueInv, [NextQueue]_queueVars PROVE QueueInv'
  OBVIOUS
<1> USE QueueAssumption
<1>1. [Next]_vars
  BY DEF NextQueue, queueVars
<1>2. (Inv /\ Sound /\ Still /\ AllViewed /\ Filed)'
  BY <1>1, NextInv, NextSound, NextStill, NextViewed, NextFiled DEF Attended, QueueInv
<1>3. CASE UNCHANGED queueVars
  BY <1>2, <1>3 DEF QueueInv, queueVars, scanVars, vars, Follows, ScanOK, Scanned
<1>4. CASE /\ Scan /\ UNCHANGED vars
           /\ quiet' = ((quiet \/ at' = "sources") /\ holder[Of] = None)
  BY <1>2, <1>4, ScanFollows DEF QueueInv
<1>5. CASE /\ Next /\ UNCHANGED <<at, seen, state>>
           /\ quiet' = (quiet /\ holder'[Of] = None)
  BY <1>2, <1>5, WritersFollow DEF QueueInv
<1> QED
  BY <1>3, <1>4, <1>5 DEF NextQueue

\* While writers write the views they owe, what a scan finds confirmed is.
LEMMA FreshStep == Attended /\ QueueInv /\ [NextQueue]_queueVars => [FreshVerdict]_queueVars
<1> SUFFICES ASSUME Attended, QueueInv, NextQueue PROVE FreshVerdict
  OBVIOUS
<1> QED
  BY QueueAssumption, ScanIsFresh, WritersLookAway DEF NextQueue, QueueInv

\* While it is quiet the scan goes on having what is canonical.
LEMMA NextFaithful ==
    ASSUME "edit" \notin Acts, Attended
    PROVE  QueueInv /\ Faithful /\ [NextQueue]_queueVars => Faithful'
<1> SUFFICES ASSUME QueueInv, Faithful, [NextQueue]_queueVars PROVE Faithful'
  OBVIOUS
<1>1. CASE UNCHANGED queueVars
  <2>1. /\ UNCHANGED <<at, seen, state, quiet, bare>> /\ Present(Of)' = Present(Of)
        /\ current' = current /\ Scanned' = Scanned
    BY <1>1 DEF queueVars, scanVars, vars, repoVars, Present, Scanned
  <2>2. \A r \in Record : Canonical(Of, r)' = Canonical(Of, r)
    BY <1>1 DEF queueVars, vars, repoVars, Canonical, Expected, HeadOf, Heads, On, StateOf,
                Previous
  <2>3. \A S : Lists(S)' = Lists(S)
    BY <2>1 DEF Lists
  <2>4. Scanned \subseteq Record
    BY DEF Scanned
  <2> QED
    BY <2>1, <2>2, <2>3, <2>4 DEF Faithful, NoCard
<1>2. CASE /\ Scan /\ UNCHANGED vars
           /\ quiet' = ((quiet \/ at' = "sources") /\ holder[Of] = None)
  BY <1>2, QueueAssumption, ScanUndisturbed DEF QueueInv
<1>3. CASE /\ Next /\ UNCHANGED <<at, seen, state>>
           /\ quiet' = (quiet /\ holder'[Of] = None)
  BY <1>3, QueueAssumption, WritersUndisturbing DEF QueueInv
<1> QED
  BY <1>1, <1>2, <1>3 DEF NextQueue

\* A scan that nobody disturbs is right.
LEMMA QuietStep ==
    ASSUME "edit" \notin Acts, Attended
    PROVE  QueueInv /\ Faithful /\ [NextQueue]_queueVars => [QuietVerdict]_queueVars
<1> SUFFICES ASSUME QueueInv, Faithful, NextQueue PROVE QuietVerdict
  OBVIOUS
<1> QED
  BY QueueAssumption, ScanIsQuiet, WritersLookAway DEF NextQueue, QueueInv

\* Every command that lists or searches: as long as writers write the view they
\* owe before they return, a record found confirmed is confirmed when its view
\* is looked at, whatever was written during the scan.
THEOREM ConfirmedIsFresh == Attended => (QueueSpec => [][FreshVerdict]_queueVars)
<1> SUFFICES ASSUME Attended PROVE QueueSpec => [][FreshVerdict]_queueVars
  OBVIOUS
<1> QED
  BY FreshStep, InitScans, NextScans, PTL DEF QueueSpec

\* A scan that nobody disturbs sends the owner to diagnose only a conflict,
\* leaves nothing out of what waits, and offers what can be decided.
THEOREM QuietScansAreRight ==
    ASSUME "edit" \notin Acts PROVE Attended => (QueueSpec => [][QuietVerdict]_queueVars)
<1> SUFFICES ASSUME Attended PROVE QueueSpec => [][QuietVerdict]_queueVars
  OBVIOUS
<1> QED
  BY NextFaithful, QuietStep, InitScans, NextScans, PTL DEF QueueSpec
=============================================================================

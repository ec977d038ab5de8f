-------------------------------- MODULE Logs ---------------------------------
(***************************************************************************)
(* What a v2 base keeps beside its records and only adds to:               *)
(*   recall_log_v2.rs   logs/recall.jsonl, a line for each search, appended*)
(*                      under the repository lock in writes of its own;    *)
(*   quick_note_v2.rs   notes/, a file for each note, found by searches;   *)
(*   judgment_v2.rs     knowledge/<id>/judgments/, a file for each text;   *)
(*   attempt_v2.rs, question_v2.rs  assets/attempts, assets/questions, a   *)
(*                      file for each event, written without a lock.       *)
(* A process may be killed between any two steps; a repository lock it     *)
(* leaves is recovered (LockFiles), a publication's file stays             *)
(* (Publication).                                                          *)
(***************************************************************************)
EXTENDS Naturals, FiniteSets, Sequences, Functions

CONSTANTS Proc,
          Texts,      \* what notes and judgments say, what events are about
          MaxTail,    \* pieces of the recall log that are read back
          MaxSearches, MaxWrites, MaxTime, MaxKills,
          None

VARIABLES
    recall,     \* pieces of the log: search and part of its line
    notes,      \* notes on file: text and time
    left,       \* other files in notes/, that publishers who died left there
    judgments,  \* judgments[t]: when the one that says t was made, 0: none
    events,     \* attempts and questions on file
    written,    \* ghost: what commands have said is written
    logged,     \* ghost: the searches whose line was appended whole
    kills,      \* ghost: processes killed at work on the recall log
    searches, writes, now,
    holder, pc, job

files == <<recall, notes, left, judgments, events>>
bounds == <<searches, writes, now>>
ghosts == <<written, logged, kills>>
vars == <<files, ghosts, bounds, holder, pc, job>>

\* A line: the first bytes of its JSON, the others, the line break.
Part == 1..3
Item == [what : {"note", "judgment", "attempt", "question"}, text : Texts, at : 1..MaxTime]
Pc == {"idle", "searched", "append", "confirmed", "publish", "saved"}
Job == [search : 0..MaxSearches, part : Part, text : Texts \cup {None},
        at : 0..MaxTime]
NoJob == [search |-> 0, part |-> 1, text |-> None, at |-> 0]

\* What is assumed of the constants.
LogsAssumption ==
    /\ None \notin Proc \cup Texts
    /\ {MaxTail, MaxSearches, MaxWrites, MaxKills} \subseteq Nat /\ MaxTime \in Nat \ {0}

TypeOK ==
    /\ recall \in Seq((1..MaxSearches) \X Part)
    /\ notes \in SUBSET (Texts \X (1..MaxTime))
    /\ left \in SUBSET Proc
    /\ judgments \in [Texts -> 0..MaxTime]
    /\ events \in SUBSET Item
    /\ written \in SUBSET Item
    /\ logged \in SUBSET (1..MaxSearches)
    /\ kills \in 0..MaxKills
    /\ searches \in 0..MaxSearches /\ writes \in 0..MaxWrites /\ now \in 1..MaxTime
    /\ holder \in Proc \cup {None}
    /\ pc \in [Proc -> Pc]
    /\ job \in [Proc -> Job]

Init ==
    /\ recall = <<>> /\ notes = {} /\ left = {} /\ events = {}
    /\ judgments = [t \in Texts |-> 0]
    /\ written = {} /\ logged = {} /\ kills = 0
    /\ searches = 0 /\ writes = 0 /\ now = 1
    /\ holder = None
    /\ pc = [p \in Proc |-> "idle"]
    /\ job = [p \in Proc |-> NoJob]

Goto(p, s) == pc' = [pc EXCEPT ![p] = s]
Set(p, j) == job' = [job EXCEPT ![p] = j]
Quit(p) == Goto(p, "idle") /\ Set(p, NoJob)
Write == writes < MaxWrites /\ writes' = writes + 1
Said(what, t, at) == [what |-> what, text |-> t, at |-> at]

-----------------------------------------------------------------------------
(* read_tail, recall_metrics_v2 *)

LineBreaks(log) == {i \in DOMAIN log : log[i][2] = 3}

\* Read from the middle, the log begins after its first line break.
LogTail(log) ==
    IF Len(log) <= MaxTail THEN log
    ELSE LET end == SubSeq(log, Len(log) - MaxTail + 1, Len(log))
             first == {i \in LineBreaks(end) : \A j \in LineBreaks(end) : i <= j}
         IN  IF first = {} THEN <<>>
             ELSE SubSeq(end, (CHOOSE i \in first : TRUE) + 1, Len(end))

\* The searches whose line begins there.
Begun(log) == {log[i][1] : i \in {j \in DOMAIN log : log[j][2] = 1}}

\* The searches whose line parses: the whole JSON and nothing else. The last
\* line need not be ended.
Counted(log) ==
    {s \in 1..MaxSearches :
        \E i \in 1..(Len(log) - 1) :
            /\ log[i] = <<s, 1>> /\ log[i + 1] = <<s, 2>>
            /\ i = 1 \/ i - 1 \in LineBreaks(log)
            /\ i + 1 = Len(log) \/ i + 2 \in LineBreaks(log)}

-----------------------------------------------------------------------------
(* cli.rs find, ui.rs search *)

\* What is at work in notes/ or was left there.
Publishing == {p \in Proc : pc[p] \in {"publish", "saved"}}

\* search_quick_notes_v2: any entry that is not a note fails the search, unless
\* it is for a perspective, which no note has.
Find(p) ==
    /\ pc[p] = "idle"
    /\ searches < MaxSearches
    /\ \E perspective \in BOOLEAN : perspective \/ Publishing \cup left = {}
    /\ searches' = searches + 1
    /\ Set(p, [NoJob EXCEPT !.search = searches + 1])
    /\ Goto(p, "searched")
    /\ UNCHANGED <<files, ghosts, writes, now, holder>>

\* The log is busy: the results are returned and the search is not counted.
Uncounted(p) ==
    /\ pc[p] = "searched"
    /\ holder # None
    /\ Quit(p)
    /\ UNCHANGED <<files, ghosts, bounds, holder>>

\* Mutant of EnterAppend: the line is appended without the lock.
EnterAppendAnyway(p) ==
    /\ pc[p] = "searched"
    /\ Goto(p, "append")
    /\ UNCHANGED <<files, ghosts, bounds, holder, job>>

\* append_recall_log_v2
EnterAppend(p) ==
    /\ pc[p] = "searched"
    /\ holder = None
    /\ holder' = p
    /\ Goto(p, "append")
    /\ UNCHANGED <<files, ghosts, bounds, job>>

\* write_all may take several writes; each goes to the end of the file.
AppendPart(p) ==
    LET s == job[p].search  part == job[p].part IN
    /\ pc[p] = "append"
    /\ recall' = Append(recall, <<s, part>>)
    /\ IF part < 3
       THEN Set(p, [job[p] EXCEPT !.part = part + 1]) /\ UNCHANGED <<logged, holder, pc>>
       ELSE /\ logged' = logged \cup {s}
            /\ holder' = None
            /\ Quit(p)
    /\ UNCHANGED <<notes, left, judgments, events, written, kills, bounds>>

-----------------------------------------------------------------------------
(* cli.rs remember *)

\* prepare_quick_note_v2: named by the text and the moment it was prepared.
Note(t, at) == <<t, at>>

\* The owner is shown the text and agrees.
Remember(p) ==
    /\ pc[p] = "idle"
    /\ Write
    /\ \E t \in Texts : Set(p, [NoJob EXCEPT !.text = t, !.at = now])
    /\ Goto(p, "confirmed")
    /\ UNCHANGED <<files, ghosts, searches, now, holder>>

\* publish_quick_note_v2: under the lock, in notes/ itself.
EnterPublish(p) ==
    /\ pc[p] = "confirmed"
    /\ IF holder = None
       THEN holder' = p /\ Goto(p, "publish") /\ UNCHANGED job
       ELSE Quit(p) /\ UNCHANGED holder
    /\ UNCHANGED <<files, ghosts, bounds>>

Publish(p) ==
    /\ pc[p] = "publish"
    /\ notes' = notes \cup {Note(job[p].text, job[p].at)}
    /\ Goto(p, "saved")
    /\ UNCHANGED <<recall, left, judgments, events, ghosts, bounds, holder, job>>

Saved(p) ==
    /\ pc[p] = "saved"
    /\ written' = written \cup {Said("note", job[p].text, job[p].at)}
    /\ holder' = None
    /\ Quit(p)
    /\ UNCHANGED <<files, logged, kills, bounds>>

-----------------------------------------------------------------------------

\* Mutant of Judge: the same judgment made again replaces the first.
JudgeAgain(t) ==
    /\ Write
    /\ holder = None
    /\ judgments' = [judgments EXCEPT ![t] = now]
    /\ written' = written \cup {Said("judgment", t, now)}
    /\ UNCHANGED <<recall, notes, left, events, logged, kills, searches, now, holder, pc, job>>

\* prepare_judgment_v2 and publish_judgment_v2: the name says nothing of when,
\* the content does; made again later, a judgment conflicts with itself.
Judge(t) ==
    /\ Write
    /\ holder = None
    /\ IF judgments[t] = 0
       THEN /\ judgments' = [judgments EXCEPT ![t] = now]
            /\ written' = written \cup {Said("judgment", t, now)}
       ELSE UNCHANGED <<judgments, written>>
    /\ UNCHANGED <<recall, notes, left, events, logged, kills, searches, now, holder, pc, job>>

\* Events are named by all they say, and added without a lock.
AddEvent(event) ==
    /\ Write
    /\ events' = events \cup {event}
    /\ written' = written \cup {event}
    /\ UNCHANGED <<recall, notes, left, judgments, logged, kills, searches, now, holder, pc, job>>

\* record_preparation_attempt_v2
AddAttempt(t) == AddEvent(Said("attempt", t, now))

\* append_question_v2
AddQuestion(t) == AddEvent(Said("question", t, now))

About(what, t) == {e \in events : e.what = what /\ e.text = t}

\* latest_preparation_attempts_v2
LatestAttempts(t) == {e \in About("attempt", t) : \A o \in About("attempt", t) : o.at <= e.at}

\* questions_for_asset_v2: oldest first. Those of one moment, about one Asset,
\* that say the same are one.
QuestionsFor(t) ==
    LET all == About("question", t) IN
    CHOOSE list \in [1..Cardinality(all) -> all] :
        \A i, j \in DOMAIN list : i < j => list[i].at < list[j].at

Tick ==
    /\ now < MaxTime
    /\ now' = now + 1
    /\ UNCHANGED <<files, ghosts, searches, writes, holder, pc, job>>

Killed(p) ==
    /\ kills < MaxKills
    /\ pc[p] \in {"append", "publish", "saved"}
    /\ kills' = IF pc[p] = "append" THEN kills + 1 ELSE kills
    /\ left' = IF pc[p] = "append" THEN left ELSE left \cup {p}
    /\ holder' = IF holder = p THEN None ELSE holder
    /\ Quit(p)
    /\ UNCHANGED <<recall, notes, judgments, events, written, logged, bounds>>

\* The owner removes what a publisher left in notes/.
Tidy ==
    /\ left # {}
    /\ left' = {}
    /\ UNCHANGED <<recall, notes, judgments, events, ghosts, bounds, holder, pc, job>>

Next ==
    \/ \E p \in Proc :
           \/ Find(p) \/ Uncounted(p) \/ EnterAppend(p) \/ AppendPart(p)
           \/ Remember(p) \/ EnterPublish(p) \/ Publish(p) \/ Saved(p)
           \/ Killed(p)
    \/ \E t \in Texts : Judge(t) \/ AddAttempt(t) \/ AddQuestion(t)
    \/ Tick
    \/ Tidy

Spec == Init /\ [][Next]_vars

-----------------------------------------------------------------------------
(* Properties *)

\* What a command has said is written stays as it was written, whoever writes
\* the same text again and however many processes are killed: notes, judgments
\* and events always. Of the searches that end within what is read back, at
\* most one is lost for each process that was killed while it appended: the one
\* whose line followed the torn one.
WrittenStays ==
    /\ \A t \in Texts, at \in 1..MaxTime :
           /\ Said("note", t, at) \in written => Note(t, at) \in notes
           /\ Said("judgment", t, at) \in written => judgments[t] = at
           /\ Said("attempt", t, at) \in written =>
                  /\ Said("attempt", t, at) \in events
                  /\ \A e \in LatestAttempts(t) : at <= e.at
           /\ Said("question", t, at) \in written =>
                  Said("question", t, at) \in Range(QuestionsFor(t))
    /\ LET log == LogTail(recall) IN
       Cardinality((logged \cap Begun(log)) \ Counted(log)) <= kills
=============================================================================

------------------------------ MODULE AtomicFile ------------------------------
(***************************************************************************)
(* What the publication of a file (mko-core/src/atomic.rs) promises to the *)
(* callers of write_new, write_replace and the compare-exchange: the file  *)
(* holds one whole content, and a call changes it in one step, at an       *)
(* instant where the file is as the call demands (Fits), or refuses for a  *)
(* reason that is true at an instant of the call; only a compare-exchange  *)
(* that has taken the content out also calls it changed when it cannot     *)
(* read it. Nothing here knows of locks, retries, scans, temporary files   *)
(* or quarantines.                                                         *)
(*                                                                         *)
(* A compare-exchange may take the content out for a while: readers of the *)
(* name then find nothing, and another program may put something else      *)
(* there. `file` is what the name holds or, when it holds nothing, what is *)
(* taken out.                                                              *)
(***************************************************************************)

CONSTANTS Proc,    \* callers; p publishes content p
          Edit,    \* contents of other programs
          Old,
          Ops,     \* commits in use
          None

VARIABLES
    file,      \* the content, or None
    out,       \* what each compare-exchange has taken out
    beside,    \* contents set aside beside the file, for the owner to find
    op,        \* of each call: what it does,
    expected,  \* the content it has read and means to replace,
    answer     \* and how far it is

vars == <<file, out, beside, op, expected, answer>>

Init ==
    /\ file \in {Old, None}
    /\ out = [p \in Proc |-> None]
    /\ beside = {}
    /\ op = [p \in Proc |-> "new"]
    /\ expected = [p \in Proc |-> None]
    /\ answer = [p \in Proc |-> "none"]

\* (The first conjunct only spares TLC the second where it is false.)
Answer(p, r) ==
    /\ answer'[p] = r
    /\ answer' = [answer EXCEPT ![p] = r]

\* A caller asks for a replacement of what it has just read.
Ask(p) ==
    /\ answer[p] = "none"
    /\ \E o \in Ops :
         /\ o # "new" => file # None
         /\ op' = [op EXCEPT ![p] = o]
         /\ expected' = [expected EXCEPT ![p] =
                            IF o \in {"checked", "cas"} THEN file ELSE None]
    /\ Answer(p, "asked")
    /\ UNCHANGED <<file, out, beside>>

\* What was taken out goes back, or aside, or both, but not away.
GivesBack(p) ==
    /\ out[p] # None
    /\ out' = [out EXCEPT ![p] = None]
    /\ file' = file \/ (file' = None /\ file = out[p])
    /\ beside' \in {beside, beside \cup {out[p]}}
    /\ out[p] \in beside' \cup {file'}

KeepsOut == UNCHANGED <<file, out, beside>>

\* A refusal is true of the file at that instant, but that a compare-exchange
\* takes what it has taken out and cannot read for changed; a failure says
\* nothing.
Refuse(p) ==
    /\ answer[p] = "asked"
    /\ \/ op[p] = "new" /\ file # None /\ Answer(p, "existing")
       \/ op[p] # "new" /\ file = None /\ Answer(p, "missing")
       \/ /\ op[p] \in {"checked", "cas"}
          /\ file # expected[p] \/ out[p] # None
          /\ Answer(p, "changed")
       \/ Answer(p, "failed")
    /\ KeepsOut \/ GivesBack(p)
    /\ UNCHANGED <<op, expected>>

\* Only a compare-exchange takes the content out, one at a time.
TakeOut(p) ==
    /\ answer[p] = "asked" /\ op[p] = "cas"
    /\ \A q \in Proc : out[q] = None
    /\ file # None
    /\ out' = [out EXCEPT ![p] = file]
    /\ UNCHANGED answer \/ Answer(p, "failed")
    /\ UNCHANGED <<file, beside, op, expected>>

\* A refused compare-exchange gives back what it took out.
Return(p) ==
    /\ answer[p] \in {"changed", "failed"}
    /\ GivesBack(p)
    /\ UNCHANGED answer \/ Answer(p, "failed")
    /\ UNCHANGED <<op, expected>>

\* The file is what the call demands. A creation and a checked replacement may
\* still run over what another program has put there since the last look; a
\* compare-exchange replaces nothing but what its caller expected.
Fits(p) ==
    CASE op[p] = "new"     -> file \in Edit \cup {None}
      [] op[p] = "checked" -> file \in Edit \cup {None, expected[p]}
      [] op[p] = "cas"     -> file = expected[p] /\ out[p] = file
      [] OTHER             -> TRUE

\* The effect of a call: one step.
Publish(p) ==
    /\ answer[p] = "asked"
    /\ file' = p
    /\ Fits(p)
    /\ \A q \in Proc \ {p} : out[q] = None
    /\ out' = [out EXCEPT ![p] = None]
    /\ IF op[p] = "cas" THEN Answer(p, "published")
                        ELSE Answer(p, "ok") \/ Answer(p, "failed")
    /\ UNCHANGED <<beside, op, expected>>

\* What a compare-exchange replaced is dropped, or a failure leaves it beside.
Settle(p) ==
    /\ answer[p] = "published"
    /\ \/ Answer(p, "ok") /\ UNCHANGED beside
       \/ Answer(p, "failed") /\ beside' = beside \cup {expected[p]}
    /\ UNCHANGED <<file, out, op, expected>>

\* The call returns, or its process dies. One that was only asked, or that died
\* with the content taken out, has had no effect but to leave it aside.
End(p) ==
    /\ answer[p] # "none"
    /\ Answer(p, "none")
    /\ \/ out[p] = None /\ KeepsOut
       \/ GivesBack(p)
       \/ /\ answer[p] = "published"
          /\ beside' = beside \cup {expected[p]}
          /\ UNCHANGED <<file, out>>
    /\ UNCHANGED <<op, expected>>

\* Another program writes the name,
Put(e) ==
    /\ file' = e
    /\ UNCHANGED <<out, beside, op, expected, answer>>

\* or removes it: what was taken out is then all there is.
Remove ==
    /\ \/ (\A p \in Proc : out[p] = None) /\ file' = None
       \/ \E p \in Proc : out[p] # None /\ file' = out[p]
    /\ UNCHANGED <<out, beside, op, expected, answer>>

Next ==
    \/ \E p \in Proc : \/ End(p) \/ Ask(p) \/ Settle(p) \/ Publish(p)
                       \/ Return(p) \/ TakeOut(p) \/ Refuse(p)
    \/ \E e \in Edit : Put(e)
    \/ Remove

Spec == Init /\ [][Next]_vars
=============================================================================

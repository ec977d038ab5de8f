------------------------------ MODULE MCCommands ------------------------------
(* Bounds, symmetry and a view for checking Commands. *)
EXTENDS Commands, TLC

CONSTANTS p1, p2, planner, owner, c1, c2, s1, s2, s3, base1, base2,
          inbox1, inbox2

EachRuns == planner :> {"plan", "apply", "direct"} @@ owner :> {"legacy"}
Left == {<<"processed", "approved">>, <<"superseded", "absent">>}
UnitKinds == {{}, {"counterargument", "open_question"}}
Perspectives == {{"life"}, {"investment"}}

\* Machines with two knowledge bases and two Inboxes, of which the second is
\* fine, and at most one thing wrong around them.
Fine == [read |-> "allowed", write |-> "allowed", entries |-> {},
         backup |-> "remote", hook |-> "no_git", locks |-> {}]
Around ==
    {Fine} \cup {[Fine EXCEPT !.read = "denied"], [Fine EXCEPT !.write = "unclear"],
               [Fine EXCEPT !.backup = "local"]}
    \cup {[Fine EXCEPT !.entries = {kind}] : kind \in {"placeholder", "corrupt", "unclear"}}
    \cup {[Fine EXCEPT !.hook = hook] : hook \in {"missing", "managed", "conflict"}}
    \cup {[Fine EXCEPT !.locks = {lock_state}] : lock_state \in {"stale", "active"}}
AnyProfile == [repository : {base1, base2}, provider : {inbox1, inbox2}]
AnyProfiles ==
    [state : {"absent", "unreadable", "malformed"}, default : {1}, named : {<<>>}]
    \cup [state : {"valid"}, default : {1},
          named : {<<x, y>> : x \in AnyProfile, y \in AnyProfile \cup {None}}]
    \cup [state : {"valid"}, default : {2},
          named : {<<[repository |-> base1, provider |-> inbox2],
                     [repository |-> base1, provider |-> inbox1]>>}]
AnyMachine ==
    [asked : {None, base1}, inside : {None, base1, base2},
     config : {base1 :> version @@ base2 :> "v2" :
                   version \in {"v1", "v2", "damaged", "bare", "gone"}},
     profiles : AnyProfiles, env : {None, inbox1, inbox2},
     inbox : {inbox1 :> state @@ inbox2 :> "ready" : state \in {"ready", "link", "gone"}},
     around : Around]

\* Two texts an image may be prepared with, and answers about them: a fact with
\* each citation that is near a boundary of a block, a unit of each kind and
\* basis, alone and beside the units that a high-risk note needs.
Prepared == {
    [text |-> [is |-> "text", length |-> 3, ends |-> {0, 1, 3}],
     table |-> [is |-> "table", columns |-> 2, rows |-> <<2, 1>>]],
    [text |-> [is |-> "text", length |-> 1, ends |-> {0, 1}],
     table |-> [is |-> "image"]]}
Cite(b, s, cells) == [block |-> b, span |-> s, range |-> cells]
Spans == [start : 0..3, end : 0..4]
Ranges == [row : 0..1, toRow : 0..3, column : 0..1, toColumn : 0..3]
Whole == Cite("text", None, None)
Refs == {Whole, Cite("image", None, None), Cite("text", [start |-> 0, end |-> 1],
             [row |-> 0, toRow |-> 1, column |-> 0, toColumn |-> 1])}
        \cup {Cite(b, s, None) : b \in {"text", "table"}, s \in Spans}
        \cup {Cite(b, None, cells) : b \in {"text", "table"}, cells \in Ranges}
AnyUnit ==
    [kind : {"fact"}, basis : {"evidence"}, refs : {{ref} : ref \in Refs}]
    \cup [kind : {"fact", "result", "interpretation", "hypothesis", "background",
                  "counterargument", "uncertainty", "open_question"},
          basis : {"evidence", "missing", "conflicting", "model"}, refs : {{}, {Whole}}]
Companions == [kind : {"counterargument", "open_question"}, basis : {"missing"}, refs : {{}}]
AnyResponse == {{u} : u \in AnyUnit} \cup {{u} \cup Companions : u \in AnyUnit}
AnyAnswer == {{c} : c \in [kind : {"claim", "limitation"}, basis : {"stated", "observed"},
                           refs : {{}} \cup {{ref} : ref \in Refs}]}

\* Which process is which does not matter, nor which text, plan or content.
Symmetric == Permutations(Proc) \cup Permutations(Content)
=============================================================================

------------------------------ MODULE Grounding ------------------------------
(***************************************************************************)
(* mko-core/src/records_v2.rs, what an agent's draft must be like before it*)
(* is published, config_v2.rs and perspective_v2.rs, the policy it is under*)
(* then and later, and queue_v2.rs, the layer a search shows each part in. *)
(*                                                                         *)
(* A draft cites blocks of the prepared text it was made from, which are   *)
(* narrowed to bytes of a text or to cells of a table. The image of one    *)
(* Asset may be prepared again, with other blocks.                         *)
(***************************************************************************)
EXTENDS Naturals, Sequences

CONSTANTS Bundles,    \* prepared texts
          Responses,  \* what agents answer, sets of units
          Answers,    \* and for a Source, sets of claims and limitations
          None

\* A block: a text or transcript of so many bytes, and where its characters
\* begin and end; a table; or an image.
TextBlock == [is : {"text"}, length : Nat, ends : SUBSET Nat]
Table == [is : {"table"}, columns : Nat, rows : Seq(Nat)]
Image == [is : {"image"}]
Blocks == TextBlock \cup Table \cup Image

Span == [start : Nat, end : Nat]
Range == [row : Nat, toRow : Nat, column : Nat, toColumn : Nat]
Ref == [block : STRING, span : Span \cup {None}, range : Range \cup {None}]

OwnWords == {"fact", "definition", "formula", "result"}
Open == {"counterargument", "uncertainty", "open_question"}
Kind == OwnWords \cup Open \cup {"interpretation", "hypothesis", "background"}
Basis == {"evidence", "missing", "conflicting", "model"}
Unit == [kind : Kind, basis : Basis, refs : SUBSET Ref]
Claim == [kind : {"claim", "limitation"}, basis : {"stated", "observed"}, refs : SUBSET Ref]

\* validate_bundle_self_digest: block ids are unique, so a bundle is a function.
GroundingAssumption ==
    /\ None \notin Span /\ None \notin Range
    /\ \A b \in Bundles : b \in [DOMAIN b -> Blocks]
    /\ Responses \subseteq SUBSET Unit
    /\ Answers \subseteq SUBSET Claim

Policy == {"standard", "high_risk"}
Perspective == {"investment", "other"}

VARIABLES default,  \* domain_policies.default, which the owner may edit
          filed     \* the revision written last, or None

vars == <<default, filed>>

Revision == [is : {"source", "knowledge"}, units : Responses \cup Answers,
             basis : Bundles, policy : Policy, perspectives : SUBSET Perspective]

TypeOK == default \in Policy /\ filed \in Revision \cup {None}

Init == default = "standard" /\ filed = None

-----------------------------------------------------------------------------
(* validate_evidence_refs *)

\* Mutant of SpanInside: the last byte is one too far.
SpanInsideLonger(text, s) ==
    s.start <= s.end /\ s.end <= text.length /\ {s.start, s.end} \subseteq text.ends

SpanInside(text, s) ==
    s.start < s.end /\ s.end <= text.length /\ {s.start, s.end} \subseteq text.ends

\* Every row must reach as far as the range, also where rows differ in length.
RangeInside(table, r) ==
    /\ r.row < r.toRow /\ r.toRow <= Len(table.rows)
    /\ r.column < r.toColumn /\ r.toColumn <= table.columns
    /\ \A i \in (r.row + 1) .. r.toRow : r.toColumn <= table.rows[i]

Resolves(bundle, ref) ==
    /\ ref.block \in DOMAIN bundle
    /\ ref.span = None \/ ref.range = None
    /\ ref.span # None =>
           bundle[ref.block].is = "text" /\ SpanInside(bundle[ref.block], ref.span)
    /\ ref.range # None =>
           bundle[ref.block].is = "table" /\ RangeInside(bundle[ref.block], ref.range)

-----------------------------------------------------------------------------
(* validate_knowledge_response, validate_source_response *)

\* Mutant of Grounded: what the model knows may have any kind.
GroundedLoosely(u) ==
    /\ u.kind = "background" => u.basis = "model" /\ u.refs = {}
    /\ u.kind \in OwnWords => u.basis \in {"evidence", "model"}
    /\ u.basis \in {"missing", "conflicting"} => u.kind \in Open
    /\ u.refs = {} => u.basis # "evidence"

\* What the document says itself cites it; what the model knows is background or
\* a counterargument, and background is nothing else.
Grounded(u) ==
    /\ u.basis = "model" => u.kind \in {"background", "counterargument"}
    /\ u.kind = "background" => u.basis = "model" /\ u.refs = {}
    /\ u.kind \in OwnWords => u.basis = "evidence" /\ u.refs # {}
    /\ u.basis \in {"missing", "conflicting"} => u.kind \in Open
    /\ u.refs = {} => u.basis # "evidence"

\* validate_knowledge_policy, and the gate of the queue.
Meets(units, policy) ==
    policy = "high_risk" =>
        {"counterargument", "open_question"} \subseteq {u.kind : u \in units}

Acceptable(bundle, units, policy) ==
    /\ \A u \in units : Grounded(u) /\ \A ref \in u.refs : Resolves(bundle, ref)
    /\ Meets(units, policy)

AcceptableSource(bundle, claims) ==
    \A c \in claims :
        /\ c.kind = "claim" \/ c.basis = "stated" => c.refs # {}
        /\ \A ref \in c.refs : Resolves(bundle, ref)

-----------------------------------------------------------------------------

File(is, units, bundle, policy, perspectives) ==
    filed' = [is |-> is, units |-> units, basis |-> bundle, policy |-> policy,
              perspectives |-> perspectives]

\* write_knowledge_record_v2: under the default policy and no perspective.
WriteKnowledge(bundle, units) ==
    /\ Acceptable(bundle, units, default)
    /\ File("knowledge", units, bundle, default, {})
    /\ UNCHANGED default

WriteSource(bundle, claims) ==
    /\ AcceptableSource(bundle, claims)
    /\ File("source", claims, bundle, "standard", {})
    /\ UNCHANGED default

\* policy_for_perspectives
PolicyFor(perspectives) ==
    IF "investment" \in perspectives THEN "high_risk" ELSE default

\* Mutant of Confirm: the policy is not asked for again.
ConfirmAnyway(perspectives) ==
    /\ filed # None /\ filed.is = "knowledge" /\ perspectives # {}
    /\ File("knowledge", filed.units, filed.basis, PolicyFor(perspectives), perspectives)
    /\ UNCHANGED default

\* replace_knowledge_perspectives_v2: the same response, under a policy that may
\* be another one.
Confirm(perspectives) ==
    /\ filed # None /\ filed.is = "knowledge" /\ perspectives # {}
    /\ Meets(filed.units, PolicyFor(perspectives))
    /\ File("knowledge", filed.units, filed.basis, PolicyFor(perspectives), perspectives)
    /\ UNCHANGED default

EditDefault ==
    /\ default' \in Policy \ {default}
    /\ UNCHANGED filed

Next ==
    \/ \E bundle \in Bundles, units \in Responses : WriteKnowledge(bundle, units)
    \/ \E bundle \in Bundles, claims \in Answers : WriteSource(bundle, claims)
    \/ \E perspectives \in SUBSET Perspective : Confirm(perspectives)
    \/ EditDefault

Spec == Init /\ [][Next]_vars

-----------------------------------------------------------------------------
(* search_layer *)

Layer(kind) ==
    CASE kind \in OwnWords -> "grounded_evidence"
      [] kind \in {"interpretation", "hypothesis", "background"} -> "llm_analysis"
      [] kind \in Open -> "counterargument_or_uncertainty"

-----------------------------------------------------------------------------
(* Properties *)

\* What a reference names: bytes of a text, cells of a table.
Bytes(s) == s.start .. (s.end - 1)
Cells(r) == (r.row .. (r.toRow - 1)) \X (r.column .. (r.toColumn - 1))
Has(block, s) == Bytes(s) # {} /\ \A k \in Bytes(s) : k < block.length
HasCells(block, r) ==
    Cells(r) # {} /\ \A x \in Cells(r) : x[1] < Len(block.rows) /\ x[2] < block.rows[x[1] + 1]

Names(bundle, ref) ==
    /\ ref.block \in DOMAIN bundle
    /\ ref.span # None => Has(bundle[ref.block], ref.span)
    /\ ref.range # None => HasCells(bundle[ref.block], ref.range)

\* Whatever agents answer, and whatever policies and perspectives are chosen
\* afterwards: what a search shows as grounded evidence, and each claim of a Source,
\* cites the text the draft was made from, what the model knows is never among
\* it, every citation names something that is there, and a high-risk revision has a
\* counterargument and an open question, so that the queue never blocks it.
GroundedInText ==
    filed # None =>
        /\ \A u \in filed.units :
               /\ u.kind \in Kind /\ Layer(u.kind) = "grounded_evidence" =>
                      u.refs # {} /\ u.basis # "model"
               /\ u.kind = "claim" => u.refs # {}
               /\ \A ref \in u.refs : Names(filed.basis, ref)
        /\ Meets(filed.units, filed.policy)
=============================================================================

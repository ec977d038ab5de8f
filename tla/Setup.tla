-------------------------------- MODULE Setup --------------------------------
(***************************************************************************)
(* mko-core/src/setup_plan_v2.rs, setup_v2.rs, scaffold_v2.rs, profile.rs  *)
(* and setup.rs: how a knowledge base, the Inbox in the provider folder,   *)
(* the dashboard and the machine profile come to be.                       *)
(*                                                                         *)
(* Setup runs in three ways: at once (`mko setup`), from a plan that a     *)
(* program made and the owner approves at a terminal (`mko setup plan` and *)
(* `apply`), and as before for a knowledge base of the first version. The  *)
(* first two hold the setup lock throughout; the operating system drops it *)
(* when its process dies. The owner, editors and other programs hold no    *)
(* lock. Permissions, the identity of paths and the pre-commit hook are    *)
(* left out.                                                               *)
(***************************************************************************)
EXTENDS Naturals, FiniteSets

CONSTANTS Proc,
          Runs,       \* which commands each process runs
          Plan,       \* the plans ever made
          MaxPlans,   \* open plans kept
          Edit,       \* what the owner may write into profiles.yaml, each once
          MayCrash,   \* processes that may be killed
          None

\* What profiles.yaml may say: the Personal profile is the knowledge base set up
\* here, one of the first version, or what the owner wrote. The code compares
\* bytes, so an edit that is undone again was none: each is made once.
Profile == {"mine", "legacy"} \cup Edit

VARIABLES
    edits,      \* the edits still to come
    world,      \* what setup is about: the targets of its steps
    plan,       \* plan[q]: where the file of plan q is, and whether it is whole
    stored,     \* stored[q]: what an open plan says
    holder,     \* who holds setup-profile.lock
    pc,
    job         \* job[p]: what p works on

vars == <<edits, world, plan, stored, holder, pc, job>>
plans == <<plan, stored>>

World == [inbox : BOOLEAN,
          repo : {"missing", "partial", "kb", "gappy"},
          dash : {"missing", "ours", "edited"},
          profile : Profile \cup {None}]
Stored == [seen : World, replace : BOOLEAN, expired : BOOLEAN]
NoJob == [plan |-> None, stored |-> None, replace |-> FALSE, profile |-> None]
Steps == {"inbox", "scaffold", "marker", "dashboard", "profile", "compared"}
LegacySteps == {"refreshed", "legacyProfile"}

\* What is assumed of the constants.
SetupAssumption ==
    /\ None \notin Proc \cup Plan \cup Stored \cup Profile
    /\ {"mine", "legacy"} \cap Edit = {}

TypeOK ==
    /\ edits \in SUBSET Edit
    /\ world \in World
    /\ plan \in [Plan -> {"none", "partial", "open", "consumed"}]
    /\ stored \in [Plan -> Stored \cup {None}]
    /\ holder \in Proc \cup {None}
    /\ pc \in [Proc -> {"idle", "planning", "asked", "approved", "valid"} \cup Steps \cup LegacySteps]
    /\ job \in [Proc -> [plan : Plan \cup {None}, stored : Stored \cup {None},
                      replace : BOOLEAN, profile : Profile \cup {None}]]

Init ==
    /\ world \in {w \in World : /\ ~w.inbox /\ w.dash = "missing" /\ w.repo = "missing"
                                /\ w.profile \in {None} \cup Edit}
    /\ edits = Edit \ {world.profile}
    /\ plan = [q \in Plan |-> "none"]
    /\ stored = [q \in Plan |-> None]
    /\ holder = None
    /\ pc = [p \in Proc |-> "idle"]
    /\ job = [p \in Proc |-> NoJob]

At(p, s) == pc[p] = s
Idle(p, command) == At(p, "idle") /\ command \in Runs[p]
Goto(p, s) == pc' = [pc EXCEPT ![p] = s]
Lock(p) == holder = None /\ holder' = p
End(p) ==
    /\ Goto(p, "idle")
    /\ job' = [job EXCEPT ![p] = NoJob]
    /\ holder' = IF holder = p THEN None ELSE holder
Change(p, field, value, next) ==
    /\ world' = [world EXCEPT ![field] = value]
    /\ Goto(p, next)
    /\ UNCHANGED <<edits, plans, holder, job>>

-----------------------------------------------------------------------------
(* Plans *)

\* validate_repository_destination and dashboard_effect: a directory is empty or
\* a whole knowledge base, and the dashboard is not the owner's.
Usable == world.repo # "partial" /\ world.dash # "edited"

\* inspect_setup: whether setup would refuse this world.
Inspectable(r) == Usable /\ (world.profile \in {None, "mine"} \/ r)

\* What a plan is about: every path it would touch, byte for byte.
Observed == world

\* cleanup_expired_open_plans: a plan that cannot be read stops it.
Readable == \A q \in Plan : plan[q] # "partial"
Outdated == {q \in Plan : plan[q] = "open" /\ stored[q].expired}
CleanUp ==
    /\ Readable
    /\ stored' = [q \in Plan |-> IF q \in Outdated THEN None ELSE stored[q]]
Cleaned == [q \in Plan |-> IF q \in Outdated THEN "consumed" ELSE plan[q]]

\* enforce_open_plan_bound, after the cleanup.
Room == Cardinality({q \in Plan : Cleaned[q] = "open"}) < MaxPlans

\* create_setup_plan_v2, up to the file of the plan.
BeginPlan(p, q, r) ==
    /\ Idle(p, "plan") /\ plan[q] = "none"
    /\ Lock(p)
    /\ CleanUp
    /\ Room /\ Inspectable(r)
    /\ plan' = [Cleaned EXCEPT ![q] = "partial"]
    /\ job' = [job EXCEPT ![p].plan = q,
                         ![p].stored = [seen |-> Observed, replace |-> r, expired |-> FALSE]]
    /\ Goto(p, "planning")
    /\ UNCHANGED <<edits, world>>

WritePlan(p) ==
    /\ At(p, "planning")
    /\ plan' = [plan EXCEPT ![job[p].plan] = "open"]
    /\ stored' = [stored EXCEPT ![job[p].plan] = job[p].stored]
    /\ End(p)
    /\ UNCHANGED <<edits, world>>

\* The same call when it refuses: what it cleaned stays cleaned.
RefusePlan(p) ==
    /\ Idle(p, "plan")
    /\ holder = None
    /\ CleanUp
    /\ plan' = Cleaned
    /\ UNCHANGED <<edits, world, holder, pc, job>>

\* validate_stored_plan_current
Current(c) == Inspectable(c.replace) /\ Observed = c.seen

\* prepare_setup_approval: the card the owner sees says what the plan says.
Approval(q) == [NoJob EXCEPT !.plan = q, !.stored = stored[q], !.replace = stored[q].replace]

\* apply_setup_plan_with_terminal shows the card and keeps the lock.
Ask(p, q) ==
    /\ Idle(p, "apply")
    /\ Lock(p)
    /\ plan[q] = "open" /\ ~stored[q].expired /\ Current(stored[q])
    /\ job' = [job EXCEPT ![p] = Approval(q)]
    /\ Goto(p, "asked")
    /\ UNCHANGED <<edits, world, plans>>

\* The owner types the phrase: the plan is read again, and the profile.
Approve(p) ==
    /\ At(p, "asked")
    /\ stored[job[p].plan] = job[p].stored
    /\ job' = [job EXCEPT ![p].profile = world.profile]
    /\ Goto(p, "approved")
    /\ UNCHANGED <<edits, world, plans, holder>>

\* Mutant of Recheck: the owner has just seen the card.
RecheckNothing(p) ==
    /\ At(p, "approved")
    /\ Goto(p, "valid")
    /\ UNCHANGED <<edits, world, plans, holder, job>>

Recheck(p) ==
    /\ At(p, "approved")
    /\ Current(job[p].stored)
    /\ Goto(p, "valid")
    /\ UNCHANGED <<edits, world, plans, holder, job>>

\* consume_plan, before the first effect.
Consume(p) ==
    /\ At(p, "valid")
    /\ plan' = [plan EXCEPT ![job[p].plan] = "consumed"]
    /\ stored' = [stored EXCEPT ![job[p].plan] = None]
    /\ Goto(p, "inbox")
    /\ UNCHANGED <<edits, world, holder, job>>

-----------------------------------------------------------------------------
(* Setup *)

\* setup_personal_v2
Direct(p, r) ==
    /\ Idle(p, "direct")
    /\ Lock(p)
    /\ job' = [job EXCEPT ![p] = [NoJob EXCEPT !.replace = r, !.profile = world.profile]]
    /\ Goto(p, "inbox")
    /\ UNCHANGED <<edits, world, plans>>

\* setup_personal_v2_locked: the profile read first decides about a conflict.
EnsureInbox(p) ==
    /\ At(p, "inbox")
    /\ job[p].profile \in {None, "mine"} \/ job[p].replace
    /\ Change(p, "inbox", TRUE, "scaffold")

\* scaffold_personal_kb_v2: directories first, and the marker last.
Scaffold(p) ==
    /\ At(p, "scaffold")
    /\ \/ world.repo = "missing" /\ Change(p, "repo", "partial", "marker")
       \/ world.repo \in {"kb", "gappy"} /\ Change(p, "repo", "kb", "dashboard")

WriteMarker(p) ==
    /\ At(p, "marker")
    /\ Change(p, "repo", "kb", "dashboard")

\* ensure_dashboard_v2 refuses what the owner edited (Projection).
EnsureDashboard(p) ==
    /\ At(p, "dashboard")
    /\ world.dash # "edited"
    /\ Change(p, "dash", "ours", "profile")

\* profile_changed: there is nothing to write.
KeepProfile(p) ==
    /\ At(p, "profile")
    /\ job[p].profile = "mine"
    /\ End(p)
    /\ UNCHANGED <<edits, world, plans>>

\* Mutant of CompareProfile: the snapshot taken before the approval is not used.
CompareNothing(p) ==
    /\ At(p, "profile")
    /\ job[p].profile # "mine"
    /\ Goto(p, "compared")
    /\ UNCHANGED <<edits, world, plans, holder, job>>

\* write_if_unchanged reads the profile once more, and compares.
CompareProfile(p) ==
    /\ At(p, "profile")
    /\ job[p].profile # "mine" /\ world.profile = job[p].profile
    /\ Goto(p, "compared")
    /\ UNCHANGED <<edits, world, plans, holder, job>>

\* ... then writes a temporary file beside it, and renames that over whatever
\* the profile is by now.
ReplaceProfile(p) ==
    /\ At(p, "compared")
    /\ world' = [world EXCEPT !.profile = "mine"]
    /\ End(p)
    /\ UNCHANGED <<edits, plans>>

\* preflight_setup and refresh_preflight: another profile is not a conflict here.
Refresh(p) ==
    /\ Idle(p, "legacy")
    /\ job' = [job EXCEPT ![p].profile = world.profile]
    /\ Goto(p, "refreshed")
    /\ UNCHANGED <<edits, world, plans, holder>>

\* apply_setup: each step only if it is needed; create_dir_all.
LegacyInbox(p) ==
    /\ At(p, "refreshed")
    /\ Change(p, "inbox", TRUE, "legacyProfile")

\* ProfileStore::write reads the profile again under the lock, so nothing of
\* what the preflight saw is compared.
LegacyProfile(p) ==
    /\ At(p, "legacyProfile")
    /\ job[p].profile # "legacy" => holder = None
    /\ world' = IF job[p].profile = "legacy" THEN world ELSE [world EXCEPT !.profile = "legacy"]
    /\ End(p)
    /\ UNCHANGED <<edits, plans>>

-----------------------------------------------------------------------------

\* An error, a refusal at the terminal or a step that does not apply.
Fail(p) ==
    /\ ~At(p, "idle") /\ ~At(p, "planning")
    /\ End(p)
    /\ UNCHANGED <<edits, world, plans>>

Crash(p) ==
    /\ p \in MayCrash
    /\ ~At(p, "idle")
    /\ End(p)
    /\ UNCHANGED <<edits, world, plans>>

Expire(q) ==
    /\ plan[q] = "open"
    /\ stored' = [stored EXCEPT ![q].expired = TRUE]
    /\ UNCHANGED <<edits, world, plan, holder, pc, job>>

\* The owner, or a program, changes what setup made.
Meddle ==
    /\ \/ \E e \in edits : edits' = edits \ {e} /\ world' = [world EXCEPT !.profile = e]
       \/ /\ \/ world.repo = "kb" /\ world' = [world EXCEPT !.repo = "gappy"]
             \/ world.dash = "ours" /\ world' = [world EXCEPT !.dash = "edited"]
          /\ UNCHANGED edits
    /\ UNCHANGED <<plans, holder, pc, job>>

Next ==
    \/ \E p \in Proc, q \in Plan, r \in BOOLEAN : BeginPlan(p, q, r)
    \/ \E p \in Proc, q \in Plan : Ask(p, q)
    \/ \E p \in Proc, r \in BOOLEAN : Direct(p, r)
    \/ \E p \in Proc :
           \/ WritePlan(p) \/ RefusePlan(p) \/ Approve(p) \/ Recheck(p) \/ Consume(p)
           \/ EnsureInbox(p) \/ Scaffold(p) \/ WriteMarker(p) \/ EnsureDashboard(p)
           \/ KeepProfile(p) \/ CompareProfile(p) \/ ReplaceProfile(p)
           \/ Refresh(p) \/ LegacyInbox(p) \/ LegacyProfile(p)
           \/ Fail(p) \/ Crash(p)
    \/ \E q \in Plan : Expire(q)
    \/ Meddle

Spec == Init /\ [][Next]_vars

-----------------------------------------------------------------------------
(* Properties *)

\* Setup replaces the profile of this machine only after a comparison, and what
\* that saw is what was there when the owner approved: another knowledge base only
\* where replacing was asked for. No other command changes the profile between the
\* two. A program without the lock may: what it saves then is overwritten.
ReplacedAsApproved ==
    /\ \A p \in Proc : At(p, "profile") /\ pc'[p] = "compared" =>
           /\ job[p].plan # None => world.profile = job[p].stored.seen.profile
           /\ world.profile \in {None, "mine"} \/ job[p].replace
    /\ \A p \in Proc : At(p, "compared") /\ world'.profile # world.profile =>
           world'.profile \in Edit \/ pc'[p] = "idle"
    /\ world'.profile = "mine" /\ world.profile # "mine" => \E p \in Proc : At(p, "compared")
ProfileAsApproved == [][ReplacedAsApproved]_vars
=============================================================================

-------------------------------- MODULE Doctor ---------------------------------
(***************************************************************************)
(* mko-core/src/context.rs, doctor.rs, hooks.rs, config.rs, config_v2.rs,  *)
(* profile.rs: which knowledge base and which Inbox a command works on, and*)
(* what `mko doctor` says of them.                                         *)
(*                                                                         *)
(* Commands ask resolve_personal_context. Doctor looks at the same machine *)
(* step by step, to say what is wrong with it, and setup ends with some of *)
(* doctor's checks. Three codes answer one question and may disagree.      *)
(*                                                                         *)
(* One environment variable names the Inbox, whatever the knowledge base.  *)
(***************************************************************************)
EXTENDS Naturals, Sequences, FiniteSets, FiniteSetsExt

CONSTANTS Bases,    \* directories of knowledge bases
          Inboxes,  \* paths of Inboxes
          Machines, \* the machines doctor is run on
          None

VARIABLES machine,  \* the machine
          report    \* what doctor found on it: the codes of its issues, or None

vars == <<machine, report>>

Profile == [repository : Bases, provider : Inboxes]
Access == {"allowed", "denied", "unclear"}

\* The profiles file: in the order of names what each profile says, or None.
Profiles == [state : {"absent", "unreadable", "malformed", "valid"},
             default : Nat, named : Seq(Profile \cup {None})]

\* What else there is: the process's access to the Inbox, the kinds of files in
\* it that are not fit to be read, Git and its remote, the hook, lock files.
Surroundings ==
    [read : Access, write : Access,
     entries : SUBSET {"placeholder", "corrupt", "denied", "unclear"},
     backup : {"none", "local", "remote"},
     hook : {"no_git", "missing", "managed", "conflict", "unreadable"},
     locks : SUBSET {"stale", "active", "unreadable"}]

Machine ==
    [asked : Bases \cup {None},    \* the knowledge base of --repo
     inside : Bases \cup {None},   \* the one whose directory the command is run in
     config : [Bases -> {"v1", "v2", "damaged", "bare", "gone"}],
     profiles : Profiles,
     env : Inboxes \cup {None},    \* the Inbox that the variable names
     inbox : [Inboxes -> {"ready", "link", "elsewhere", "gone"}],
     around : Surroundings]

\* issue_priority
Priority == <<
    "profile_missing", "profile_unreadable", "repository_incompatible",
    "provider_root_invalid", "provider_missing",
    "provider_unreadable", "provider_read_inspection_failed",
    "provider_unwritable", "provider_write_inspection_failed",
    "provider_pdf_unreadable", "provider_pdf_corrupt", "provider_inspection_failed",
    "provider_hydration_failed",
    "hook_conflict", "hook_incompatible", "hook_missing", "hook_unreadable",
    "stale_lock", "lock_unreadable", "lock_active",
    "git_remote_missing", "git_backup_missing">>
Codes == {Priority[i] : i \in DOMAIN Priority}

\* What is assumed of the constants: a valid file has the default it names.
DoctorAssumption ==
    /\ Machines \subseteq Machine
    /\ None \notin Bases \cup Inboxes \cup Profile \cup [at : Bases, provider : Inboxes]
    /\ "error" \notin Inboxes
    /\ \A m \in Machines :
           m.profiles.state = "valid" => /\ m.profiles.default \in DOMAIN m.profiles.named
                                         /\ m.profiles.named[m.profiles.default] # None

TypeOK ==
    /\ machine \in Machines
    /\ report # None => report \subseteq Codes

-----------------------------------------------------------------------------
(* Resolution *)

\* KnowledgeConfigV2::read, or else KnowledgeConfig::read. A contract of before
\* the migration is damaged.
Compatible(m, r) == m.config[r] \in {"v1", "v2"}

\* canonical_directory follows links.
Directory(m, p) == m.inbox[p] # "gone"

\* ProfileStore::read
Profiled(m) == m.profiles.state = "valid"
Default(m) == m.profiles.named[m.profiles.default]

Selection(is, at, provider) == [is |-> is, at |-> at, provider |-> provider]
Repository(r) == Selection("repository", r, None)

\* ancestor_knowledge_base: a marker that is there must be good.
Ancestor(m) == IF m.inside # None /\ m.config[m.inside] # "bare" THEN m.inside ELSE None

\* select_personal_context: --repo, the knowledge base around the directory, the
\* default profile.
Selected(m) ==
    IF m.asked # None THEN Repository(m.asked)
    ELSE IF Ancestor(m) # None
    THEN IF Compatible(m, Ancestor(m)) THEN Repository(Ancestor(m))
         ELSE Selection("error", None, None)
    ELSE IF m.profiles.state = "malformed" THEN Selection("error", None, None)
    ELSE IF ~Profiled(m) THEN Selection("unconfigured", None, None)
    ELSE Selection("profile", Default(m).repository, Default(m).provider)

\* Mutant of Ordered: the profiles are asked in the order of their names.
OrderedByName(m) == m.profiles.named

\* profile_for_repository: the default one first, then by name,
Ordered(m) == <<Default(m)>> \o m.profiles.named

\* and the first whose directory is there and is r.
ProfileOf(m, r) ==
    LET found == {k \in DOMAIN Ordered(m) : /\ Ordered(m)[k] # None
                                            /\ Ordered(m)[k].repository = r
                                            /\ m.config[r] # "gone"}
    IN  IF found = {} THEN None ELSE Ordered(m)[Min(found)]

\* The Inbox a profile holds for r, None, or an error.
ProfiledInbox(m, r) ==
    CASE m.profiles.state = "absent" -> None
      [] m.profiles.state \in {"unreadable", "malformed"} -> "error"
      [] Profiled(m) -> LET found == ProfileOf(m, r) IN
                        IF found = None THEN None
                        ELSE IF Directory(m, found.provider) THEN found.provider
                        ELSE "error"

\* resolve_unprofiled_context: the variable counts when it is set, good or not.
InboxOf(m, r) ==
    IF m.env = None THEN ProfiledInbox(m, r)
    ELSE IF Directory(m, m.env) THEN m.env ELSE "error"

\* resolve_profile_context: a profile that was selected names its own.
InboxOfProfile(m, s) == IF Directory(m, s.provider) THEN s.provider ELSE "error"

\* resolve_personal_context: what a command works on, or None, an error.
Resolved(m) ==
    LET s == Selected(m)
        provider == CASE s.is = "repository" -> InboxOf(m, s.at)
                      [] s.is = "profile" -> InboxOfProfile(m, s)
                      [] OTHER -> "error"
    IN  IF s.at # None /\ Compatible(m, s.at) /\ provider \notin {None, "error"}
        THEN [at |-> s.at, provider |-> provider] ELSE None

-----------------------------------------------------------------------------
(* Diagnosis *)

\* profile_check
ProfileIssues(m) ==
    CASE m.profiles.state = "absent" -> {"profile_missing"}
      [] m.profiles.state \in {"unreadable", "malformed"} -> {"profile_unreadable"}
      [] Profiled(m) -> {}

\* Mutant of Examined: doctor asks the variable only.
ExaminedVariable(m) ==
    LET s == Selected(m) IN
    CASE s.is = "repository" -> IF Compatible(m, s.at) THEN m.env ELSE None
      [] s.is = "profile" -> s.provider
      [] OTHER -> None

\* The Inbox diagnose looks at: the variable, used as it is, or the profile's.
Examined(m) ==
    LET s == Selected(m) IN
    CASE s.is = "repository" ->
             IF ~Compatible(m, s.at) THEN None
             ELSE IF m.env # None THEN m.env
             ELSE IF ProfiledInbox(m, s.at) = "error" THEN None ELSE ProfiledInbox(m, s.at)
      [] s.is = "profile" -> s.provider
      [] OTHER -> None

\* inspect_repository, and what is said without one.
RepositoryIssues(m) ==
    LET s == Selected(m) IN
    CASE s.is = "unconfigured" -> {}
      [] s.is = "error" -> {"repository_incompatible"}
      [] s.is = "repository" /\ Compatible(m, s.at) ->
             IF Examined(m) = None THEN {"provider_missing"} ELSE {}
      [] s.is = "profile" /\ Compatible(m, s.at) -> {}
      [] OTHER -> {"repository_incompatible"}

\* provider_identity_check: the Inbox itself, no link to it and nothing else.
IdentityIssues(m, p) ==
    CASE m.inbox[p] = "ready" -> {}
      [] m.inbox[p] = "gone" -> {"provider_missing"}
      [] OTHER -> {"provider_root_invalid"}

AccessIssues(access, denied, unclear) ==
    CASE access = "allowed" -> {} [] access = "denied" -> {denied} [] OTHER -> {unclear}

\* provider_entry_checks: a kind of file that cannot be told from a placeholder
\* on this system is fit.
EntryIssue(kind) ==
    CASE kind = "placeholder" -> "provider_hydration_failed"
      [] kind = "corrupt" -> "provider_pdf_corrupt"
      [] kind = "denied" -> "provider_pdf_unreadable"
      [] OTHER -> "provider_inspection_failed"

\* provider_checks: the rest is only looked at in the right place.
ProviderIssues(m, p) ==
    IF IdentityIssues(m, p) # {} THEN IdentityIssues(m, p)
    ELSE AccessIssues(m.around.read, "provider_unreadable", "provider_read_inspection_failed")
         \cup AccessIssues(m.around.write, "provider_unwritable", "provider_write_inspection_failed")
         \cup {EntryIssue(kind) : kind \in m.around.entries}

\* git_backup_check: of the second version only.
BackupIssues(m, r) ==
    IF m.config[r] # "v2" THEN {}
    ELSE CASE m.around.backup = "none" -> {"git_backup_missing"}
           [] m.around.backup = "local" -> {"git_remote_missing"}
           [] OTHER -> {}

\* hook_check, over inspect_hook: the hook reads records of the first version.
HookIssues(m, r) ==
    CASE m.around.hook = "no_git" -> {}
      [] m.around.hook = "managed" -> IF m.config[r] = "v2" THEN {"hook_incompatible"} ELSE {}
      [] m.around.hook = "missing" -> IF m.config[r] = "v2" THEN {} ELSE {"hook_missing"}
      [] m.around.hook = "conflict" -> {"hook_conflict"}
      [] OTHER -> {"hook_unreadable"}

\* lock_checks
LockIssue(state) ==
    CASE state = "stale" -> "stale_lock"
      [] state = "active" -> "lock_active"
      [] OTHER -> "lock_unreadable"

RunningIssues(m, r) == HookIssues(m, r) \cup {LockIssue(state) : state \in m.around.locks}

Issues(m) ==
    LET s == Selected(m) IN
    ProfileIssues(m) \cup RepositoryIssues(m)
    \cup (IF Examined(m) = None THEN {} ELSE ProviderIssues(m, Examined(m)))
    \cup (IF s.at = None \/ ~Compatible(m, s.at) THEN {}
          ELSE BackupIssues(m, s.at) \cup RunningIssues(m, s.at))

\* final_setup_checks: setup ends with these, for what it has set up.
SetupIssues(m, r, p) ==
    (IF Compatible(m, r) THEN {} ELSE {"repository_incompatible"})
    \cup ProviderIssues(m, p) \cup RunningIssues(m, r)

-----------------------------------------------------------------------------
(* What to do about it *)

\* primary_issue
Primary(issues) == Priority[Min({i \in DOMAIN Priority : Priority[i] \in issues})]

\* action_for_issue
Action(code) ==
    CASE code \in {"profile_missing", "profile_unreadable", "repository_incompatible",
                   "provider_root_invalid", "provider_missing",
                   "git_remote_missing", "git_backup_missing"} -> "configure"
      [] code = "provider_hydration_failed" -> "hydrate"
      [] code = "lock_active" -> "retry"
      [] OTHER -> "repair"

NextAction(issues) == IF issues = {} THEN "none" ELSE Action(Primary(issues))

-----------------------------------------------------------------------------

Init == machine \in Machines /\ report = None

\* mko doctor
Diagnose ==
    /\ report = None
    /\ report' = Issues(machine)
    /\ UNCHANGED machine

Next == Diagnose

Spec == Init /\ [][Next]_vars

-----------------------------------------------------------------------------
(* Properties *)

\* Setup, which is for the first version, has just made the default profile of
\* this knowledge base, nothing was wrong, and neither the variable nor the
\* directory leads elsewhere.
JustSetUp(m) ==
    /\ Profiled(m) /\ m.config[Default(m).repository] = "v1"
    /\ SetupIssues(m, Default(m).repository, Default(m).provider) = {}
    /\ m.asked \in {None, Default(m).repository}
    /\ Ancestor(m) \in {None, Default(m).repository}
    /\ m.env \in {None, Default(m).provider}

\* Doctor answers what resolution answers. A machine called healthy gives every
\* command the knowledge base and the Inbox that were examined; a machine that
\* gives none has to be configured, and says so before anything else; what a
\* command can work on is never called missing; and what setup found in order
\* doctor finds in order, and commands use.
DoctorIsTrue ==
    report # None =>
        /\ report = {} => Resolved(machine) # None /\ Resolved(machine).provider = Examined(machine)
        /\ Resolved(machine) = None => NextAction(report) = "configure"
        /\ Resolved(machine) # None =>
               report \cap {"repository_incompatible", "provider_missing"} = {}
        /\ JustSetUp(machine) =>
               /\ report = {}
               /\ Resolved(machine) = [at |-> Default(machine).repository,
                                       provider |-> Default(machine).provider]
=============================================================================

CONSTANTS
    p1 = p1  p2 = p2  only = only  here = here  there = there
    source = source  knowledge = knowledge  source1 = source1  knowledge1 = knowledge1
    v1 = v1  v2 = v2  e1 = e1  e2 = e2  e3 = e3
    None = None  Dead = Dead  Conflict = Conflict  Edited = Edited
    Clone = {only}
    Proc = {p1, p2}
    Home <- InOneClone
    Record = {source1, knowledge1}
    Of = only
    First = {source1}
    Rev = {v1, v2}
    Id = {e1, e2, e3}
    Acts = {"draft", "approve", "session", "defer", "resolve", "dashboard", "edit", "fail", "recover"}
    MayCrash = {p1, p2}
    Clones = {here, there}
    HomeIn <- InTwoClones
    Shared = {source}
    MergeActs = {"draft", "approve", "resolve", "merge"}
    Writers = {p1}
    Desk <- AtItsDesk
    Queued = {source, knowledge}
    QueuedFirst = {source}
    WriteActs = {"draft", "approve", "defer", "dashboard"}
SPECIFICATION KindSpec
SYMMETRY Symmetric
CONSTRAINT ShortHistory
INVARIANTS TypesOK OneHead StillAsShown ReferencesResolve
PROPERTIES DraftsBuildOn ViewsTellTruth ClonesAndQueue

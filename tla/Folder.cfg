CONSTANTS
    p1 = p1  p2 = p2  first = first  second = second  d1 = d1  d2 = d2  f = f  t = t  i = i
    None = None
    Proc = {p1, p2}
    Content = {first, second}
    Draft = {d1, d2}
    Saves <- AnySave
    Edits = {"swap", "hand"}
    Pdf = {f}
    Prose = {t}
    Image = {i}
    Ttl = 1
    MaxTime = 1
    Removals = 1
    Scan = 2
    MayCrash = {p1, p2}
    MayDamage <- Damages
SPECIFICATION SideBySide
SYMMETRY Symmetric
INVARIANTS TypesOK RecordsValid OneStepApart ReportsRepairable EvidenceResolves
PROPERTIES ApprovalStands ApprovedAsShown
CHECK_DEADLOCK FALSE

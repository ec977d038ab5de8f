CONSTANTS
    a = a
    b = b
    c = c
    n1 = n1
    n2 = n2
    n3 = n3
    None = None
    Proc = {a, b}
    Nonce = {n1, n2, n3}
    MayClear = {a, b}
    MayCrash = {a, b}
    Overlap = FALSE
    Inspects = FALSE
    Faults = {"slow", "io", "young"}
SPECIFICATION Spec
SYMMETRY AllSymmetry
CHECK_DEADLOCK FALSE
INVARIANTS TypeOK MutualExclusion WorkProtected
PROPERTIES LiveFilesStay ImplementsExclusiveLock

CONSTANTS
    a = a
    b = b
    c = c
    e1 = e1
    e2 = e2
    None = None
    Old = Old
    Proc = {a, b}
    Edit = {e1}
    Ops = {"new", "replace", "checked", "cas"}
    MaxTries = 0
    MayCrash = {a, b}
    Faults = {"scan", "read", "io", "young"}
SPECIFICATION Spec
CHECK_DEADLOCK FALSE
SYMMETRY AllSymmetry
VIEW LiveState
INVARIANTS TypeOK NothingLost
PROPERTIES ImplementsAtomicFile

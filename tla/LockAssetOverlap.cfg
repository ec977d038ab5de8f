CONSTANTS
    a = a
    b = b
    c = c
    n1 = n1
    n2 = n2
    n3 = n3
    None = None
    Proc = {a, b, c}
    Nonce = {n1, n2, n3}
    MayClear = {a, b}
    MayCrash = {c}
    Overlap = TRUE
    Inspects = FALSE
    Faults = {}
SPECIFICATION Spec
SYMMETRY NonceSymmetry
CHECK_DEADLOCK FALSE
INVARIANTS MutualExclusion

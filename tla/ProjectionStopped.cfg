SPECIFICATION Spec
CONSTANTS
    p1 = p1  p2 = p2  s = s  k = k  home = home
    v1 = v1  v2 = v2  v3 = v3  m1 = m1  m2 = m2
    None = None  Claimed = Claimed
    Proc = {p1}
    MaxCuts = 0
    Record = {s}
    Fixed = {home}
    Version = {v1, v2}
    Mine = {m1}
    Ops = {"publish", "dashboard", "repair", "stop"}
SYMMETRY Symmetric
INVARIANT StaleIsKnown

CONSTANTS
    p1 = p1  s = s  home = home  v1 = v1  v2 = v2  m1 = m1
    a = a  b = b  n1 = n1  n2 = n2
    None = None  Claimed = Claimed
    Proc = {p1}
    MaxCuts = 1
    Record = {s}
    Fixed = {home}
    Version = {v1, v2}
    Mine = {m1}
    Ops = {"publish", "dashboard", "repair", "upgrade", "edit", "create", "stop"}
SPECIFICATION SideBySide
INVARIANTS TypeOK OwnedBeforeWritten
PROPERTIES OwnersTextSafe ViewsRestored LocksRecovered
CHECK_DEADLOCK FALSE

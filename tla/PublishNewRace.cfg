CONSTANTS
    a = a
    b = b
    c = c
    e1 = e1
    e2 = e2
    None = None
    Old = Old
    Proc = {a}
    Edit = {e1}
    Ops = {"new"}
    MaxTries = 0
    MayCrash = {}
    Faults = {}
SPECIFICATION Spec
CHECK_DEADLOCK FALSE
PROPERTIES NewNeverOverwrites

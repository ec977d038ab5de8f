CONSTANTS
    c1 = c1  c2 = c2
    None = None
    Files = 2
    Content = {c1, c2}
    MaxItems = 1
    Kept = {}
SPECIFICATION Spec
PROPERTY BatchesAdvance
CHECK_DEADLOCK FALSE

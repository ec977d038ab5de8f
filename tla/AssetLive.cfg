CONSTANTS
    p1 = p1
    p2 = p2
    a = a
    b = b
    d1 = d1
    d2 = d2
    None = None
    Proc = {p1, p2}
    Content = {a, b}
    Draft = {d1}
    Saves <- EditedThenGone
    Edits = {"remove"}
SPECIFICATION FairSpec
INVARIANT InterruptionReported
PROPERTIES ApprovalsArrive SuccessionsFinish
CHECK_DEADLOCK FALSE

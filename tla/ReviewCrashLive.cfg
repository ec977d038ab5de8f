CONSTANTS
    p1 = p1
    p2 = p2
    source = source
    v1 = v1
    e1 = e1
    e2 = e2
    here = here
    None = None
    Dead = Dead
    Conflict = Conflict
    Edited = Edited
    Clone = {here}
    Proc = {p1, p2}
    Home <- OneClone
    Record = {source}
    Rev = {v1}
    Id = {e1, e2}
    Acts = {"draft", "approve", "recover"}
    MayCrash = {p1, p2}
SPECIFICATION FairSpec
PROPERTY ReviewsResume

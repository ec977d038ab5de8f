CONSTANTS
    p1 = p1  p2 = p2  planner = planner  owner = owner
    c1 = c1  c2 = c2  s1 = s1  s2 = s2  s3 = s3
    base1 = base1  base2 = base2  inbox1 = inbox1  inbox2 = inbox2
    None = None
    Proc = {p1, p2}
    MayCrash = {p1, p2}
    Session = {s1, s2, s3}
    MaxOpen = 2
    MaxHead = 3
    Text = {c1, c2}
    User = {planner, owner}
    MayStop = {planner}
    Runs <- EachRuns
    Plan = {c1, c2}
    MaxPlans = 1
    Edit = {"edited"}
    Content = {c1, c2}
    Files = 2
    MaxItems = 1
    Kept <- Left
    Texts = {s1}
    MaxTail = 6
    MaxSearches = 3
    MaxWrites = 2
    MaxTime = 2
    MaxKills = 1
    Notes = {1, 2}
    Units <- UnitKinds
    Labels <- Perspectives
    Offers = 2
    MaxEntries = 2
    MaxCalls = 4
    Bases = {base1, base2}
    Inboxes = {inbox1, inbox2}
    Machines <- AnyMachine
    Bundles <- Prepared
    Responses <- AnyResponse
    Answers <- AnyAnswer
SPECIFICATION SideBySide
SYMMETRY Symmetric
INVARIANTS TypesOK WrittenStays LongestUnseenFirst ReportsAreTrue GroundedInText
PROPERTIES DecidesOnce MigrationCompletes ReplacedAsApproved AddedAsRead OnlyPerspectives
CHECK_DEADLOCK FALSE

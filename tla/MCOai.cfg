SPECIFICATION Spec
SYMMETRY Symmetry
CONSTANTS
    p1 = p1
    p2 = p2
    t1 = t1
    t2 = t2
    Proc = {p1, p2}
    Mode = {"initial"}
    Token = {t1, t2}
    None = None
    Gone = Gone
    Worker = Worker
    Lists <- AllLists
    MaxPages = 2
    MaxRequests = 2
    MaxJobs = 2
    MaxDay = 2
    MaxCrashes = 1
    MaxStalls = 1
    MaxMishaps = 1
    Timed = {1}
INVARIANTS
    TypeOK
    CursorExact
    BudgetHolds
    CompletedIsCovered
PROPERTIES
    WatermarkHonest
    BadTokenStops
    Mirrored
CHECK_DEADLOCK FALSE

SPECIFICATION FairSpec
CONSTANTS
    p1 = p1
    p2 = p2
    t1 = t1
    t2 = t2
    Proc = {p1, p2}
    Mode = {"initial", "incremental"}
    Token = {t1, t2}
    None = None
    Gone = Gone
    Worker = Worker
    Lists <- TwoLists
    MaxPages = 4
    MaxRequests = 4
    MaxJobs = 2
    MaxDay = 1
    MaxCrashes = 1
    MaxStalls = 0
    MaxMishaps = 1
    Timed = {1}
INVARIANTS
    NoPageTwice
PROPERTIES
    EveryHarvestSettles
CHECK_DEADLOCK FALSE

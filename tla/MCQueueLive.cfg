SPECIFICATION FairSpec
CONSTANTS
    w1 = w1
    w2 = w2
    r1 = r1
    r2 = r2
    k1 = k1
    b1 = b1
    b2 = b2
    Worker = {w1, w2}
    Item = {r1}
    Key = {k1}
    Budget = {b1, b2}
    Timed = {b1}
    MaxRequests = 2
    Nobody = Nobody
    Gone = Gone
    NoItem = NoItem
    NoBudget = NoBudget
    MaxAttempts = 3
    MaxCrashes = 1
INVARIANTS
    PaidBeforeSent
PROPERTIES
    EveryItemSettles
CHECK_DEADLOCK FALSE

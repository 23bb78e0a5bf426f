SPECIFICATION Spec
CONSTANTS
    w1 = w1
    w2 = w2
    r1 = r1
    r2 = r2
    k1 = k1
    b1 = b1
    b2 = b2
    Worker = {w1, w2}
    Item = {r1, r2}
    Key = {k1}
    Budget = {b1}
    Timed = {b1}
    MaxRequests = 2
    Nobody = Nobody
    Gone = Gone
    NoItem = NoItem
    NoBudget = NoBudget
    MaxAttempts = 2
    MaxCrashes = 1
INVARIANTS
    TypeOK
    PaidBeforeSent
    FetchOwnsClaim
SYMMETRY Symmetry
PROPERTIES
    NoRefetch
CHECK_DEADLOCK FALSE

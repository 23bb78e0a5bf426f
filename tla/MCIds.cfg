SPECIFICATION FairSpec
CONSTANTS
    a = a
    b = b
    c = c
    ab = ab
    bc = bc
    Worker = {w1, w2}
    Id = {a, b, c}
    Item = {ab, bc}
    Wants <- Lists
    Elsewhere = {b, c}
    None = None
    Gone = Gone
    MaxMishaps = 1
INVARIANTS
    TypeOK
    FetchReserved
    NothingLeaked
    CompletedWhole
PROPERTIES
    FetchedOnce
    EveryItemSettles
CHECK_DEADLOCK FALSE

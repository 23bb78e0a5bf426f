SPECIFICATION FairSpec
CONSTANTS
    w1 = w1
    h1 = h1
    w2 = w2
    Proc = {w1, w2, h1}
    Harvests = {h1}
    NoOwner = NoOwner
    Gone = Gone
    Interval = 3
    LeaseTimeout = 3
    ClaimTimeout = 6
    RequestTimeout = 1
    Slack = 5
    StepTime = 1
    Cooldown = 2
    MaxCooldown = 5
    Multiplier = 2
    Jitter = 0
    RetryAfter = {0, 3}
    Interruptible = {}
    MaxTime = 9
    MaxLimited = 2
INVARIANTS
    TypeOK
    SingleFlight
    CountersExact
PROPERTIES
    Paced
    StartsSpaced
    CrashedLeaseReclaimed

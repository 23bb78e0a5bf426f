SPECIFICATION FairSpec
CONSTANTS
    MaxPapers = 7
    Start = 0
    PageSize = 2
    Cap = 6
    MaxPages = 3
    MaxRequests = 2
    MaxMishaps = 2
INVARIANTS
    TypeOK
    CompleteCovers
    PagesAccounted
    AdmittedIsPaid
    AccountKept
PROPERTIES
    CallReturns
CHECK_DEADLOCK FALSE

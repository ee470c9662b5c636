\* Distinct ids, three requests, one restart.
CONSTANTS
    r1 = r1
    r2 = r2
    r3 = r3
    None = None
    Requests <- ThreeRequests
    CoarseClock = FALSE
    MaxCrashes = 1
SPECIFICATION FairSpec
INVARIANTS
    TypeOK
    CountExact
    EntriesAccounted
PROPERTIES
    EntriesReclaimed
    ImplementsLedger
CHECK_DEADLOCK FALSE

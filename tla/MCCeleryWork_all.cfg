\* Two requests, two workers, two deaths, one restart, one occurrence;
\* the configured count of workers is a text.
CONSTANTS
    r1 = r1
    r2 = r2
    w1 = w1
    w2 = w2
    n1 = n1
    Requests <- TwoRequests
    Workers <- TwoWorkers
    Names <- OneName
    CountIsText = TRUE
    MaxChecks = 1
    MaxRestarts = 1
    MaxDeaths = 2
    MaxFires = 1
SPECIFICATION Spec
INVARIANTS
    TypeOK
    KnownDownIsAvoided
    CancelHolds
PROPERTIES
    ImplementsDirectWork
SYMMETRY Symmetry
CHECK_DEADLOCK FALSE

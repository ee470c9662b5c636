\* One request; all workers may be down at once.
CONSTANTS
    r1 = r1
    r2 = r2
    w1 = w1
    w2 = w2
    n1 = n1
    Requests <- OneRequest
    Workers <- TwoWorkers
    Names <- OneName
    CountIsText = FALSE
    MaxChecks = 2
    MaxRestarts = 1
    MaxDeaths = 2
    MaxFires = 2
SPECIFICATION FairSpec
PROPERTIES
    AcceptedIsSettled
CHECK_DEADLOCK FALSE

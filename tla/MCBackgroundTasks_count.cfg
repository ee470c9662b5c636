\* A task that raises leaves the count of running tasks inflated.
CONSTANTS
    r1 = r1
    r2 = r2
    r3 = r3
    None = None
    Requests <- TwoRequests
    CoarseClock = FALSE
    MaxCrashes = 0
SPECIFICATION Spec
INVARIANTS
    IdleCountIsZero
CHECK_DEADLOCK FALSE

\* A coarse clock may repeat an id: three requests, no restart.
CONSTANTS
    r1 = r1
    r2 = r2
    r3 = r3
    None = None
    Requests <- ThreeRequests
    CoarseClock = TRUE
    MaxCrashes = 0
SPECIFICATION Spec
SYMMETRY RequestSymmetry
INVARIANTS
    CollisionIsContained
CHECK_DEADLOCK FALSE

\* Overlapping invalidations, deaths and failing saves.
CONSTANTS
    r1 = r1
    r2 = r2
    Requests <- TwoRequests
    MaxGenerations = 3
    MaxStarts = 3
SPECIFICATION Spec
INVARIANTS
    TypeOK
    OldStaysOld
    QuietIsSaved
    RegistrationIsKept
    BareIsNotServed
PROPERTIES
    LockedUntilCreated
CHECK_DEADLOCK FALSE

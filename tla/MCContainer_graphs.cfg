\* Three services, two registered afterwards and a client: the small graphs.
CONSTANTS
    s1 = s1
    s2 = s2
    s3 = s3
    t1 = t1
    t2 = t2
    c1 = c1
    abs = abs
    str = str
    Services <- ThreeServices
    Registered <- TwoLate
    Clients <- OneClient
    Abstract <- OneAbstract
    Signatures <- AnySignature
    PossibleSets <- AnyPossible
SPECIFICATION GraphSpec
INVARIANTS
    TypeOK
    CircularIffCyclic
    ReadyIsComplete
    ErrorsAreJustified
PROPERTIES
    BuildEnds
    ImplementsOrder
CHECK_DEADLOCK FALSE

\* Two paths whose run ids may coincide, two connections, two readings, a restart.
CONSTANTS
    s1 = s1
    s2 = s2
    chat = chat
    notify = notify
    NoToken = NoToken
    AuthToken = AuthToken
    Garbage = Garbage
    Sockets <- TwoSockets
    Paths <- MountedPaths
    Operation <- OperationIds
    Issuing <- OnlyChat
    Failing <- OnlyNotify
    MaxRestarts = 1
    Readings <- TwoReadings
SPECIFICATION Spec
INVARIANTS
    TypeOK
    ListedHaveWaited
PROPERTIES
    ImplementsTickets
CHECK_DEADLOCK FALSE

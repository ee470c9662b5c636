\* Every route of every class, six clients, two requests at a time.
CONSTANTS
    r1 = r1
    r2 = r2
    NoCall = NoCall
    NoClient = NoClient
    Requests <- TwoRequests
    Ressources <- Declarations
    Order <- ImportOrder
    Configured <- ImportOrder
    Middlewares <- AllMiddlewares
    Clients <- SomeClients
    RoutesOf <- EveryRoute
    Allowance = 1
    MaxWindows = 2
SPECIFICATION Spec
INVARIANTS
    TypeOK
    NothingBeforePermission
    AccessIsAsDeclared
    HandledErrorsAreTranslated
    LimitHolds
    FailureIsContained
CHECK_DEADLOCK FALSE

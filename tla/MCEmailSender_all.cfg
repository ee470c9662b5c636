\* Three threads, OAuth tokens, three issues, two starts.
CONSTANTS
    m1 = m1
    m2 = m2
    m3 = m3
    Messages <- ThreeMessages
    UsesPassword = FALSE
    MaxTokens = 3
    MaxStarts = 2
SPECIFICATION Spec
INVARIANTS
    TypeOK
    SilentLossIsNoticed
PROPERTIES
    OnlyRefusedSenderReopens
    DeadTokensStayDead
SYMMETRY MessageSymmetry
CHECK_DEADLOCK FALSE

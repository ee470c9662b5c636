\* Two requests over a directory with an unsound file.
CONSTANTS
    r1 = r1
    r2 = r2
    welcome = welcome
    invoice = invoice
    plain = plain
    broken = broken
    late = late
    report = report
    otp = otp
    call = call
    Unknown = Unknown
    None = None
    Requests <- TwoRequests
    Files <- Directories
    Sound <- SoundFiles
    Validated <- WithSchema
    Raising <- NestedSchema
    WindowsPaths = TRUE
SPECIFICATION Spec
INVARIANTS
    VerdictIsOwn
CHECK_DEADLOCK FALSE

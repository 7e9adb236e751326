SPECIFICATION Spec
CONSTANTS
    MaxAttempts = 1
    MaxLives = 2
    MaxChunks = 2
    MaxNet = 1
    MaxSweeps = 1
    MaxCrashes = 1
    DiskMayFill = TRUE
    LoginMayLapse = TRUE
    QuotaMayFill = TRUE
INVARIANTS TypeOK OpenRowsHaveBytes ReadyIsGapless AckedIsStored DoneIsHandedOver AssemblingHasJob
PROPERTIES ImplementsArchive StoredIsKept
CHECK_DEADLOCK FALSE

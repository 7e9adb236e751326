SPECIFICATION Spec
CONSTANTS
    MaxAttempts = 1
    MaxLives = 1
    MaxChunks = 2
    MaxNet = 1
    MaxSweeps = 0
    MaxCrashes = 1
    DiskMayFill = FALSE
    LoginMayLapse = FALSE
    QuotaMayFill = FALSE
INVARIANT DiscardingChunksIsSafe
CHECK_DEADLOCK FALSE

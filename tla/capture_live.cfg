SPECIFICATION LiveSpec
CONSTANTS
    MaxAttempts = 1
    MaxLives = 2
    MaxChunks = 2
    MaxNet = 1
    MaxSweeps = 1
    MaxCrashes = 0
    DiskMayFill = FALSE
    LoginMayLapse = FALSE
    QuotaMayFill = TRUE
PROPERTY UploadSettles
CHECK_DEADLOCK FALSE

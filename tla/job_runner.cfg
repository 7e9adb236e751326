SPECIFICATION LiveSpec
CONSTANTS
    Jobs = {j1, j2}
    NoJob = NoJob
    MaxAttempts = 3
    BackoffBase = 1
    BackoffMax = 2
    MaxLate = 2
    MaxCrashes = 2
    MaxBusy = 1
INVARIANTS AttemptsBounded RunningIsHeld
PROPERTIES ImplementsJobQueue EveryJobSettles
CHECK_DEADLOCK FALSE

SPECIFICATION MeterSpec
CONSTANTS
    FramesToOpen = 3
    FramesToClose = 4
    MaxFrames = 18
INVARIANTS CountsWhatWasHeard FitsTheClock
CHECK_DEADLOCK FALSE

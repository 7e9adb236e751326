SPECIFICATION LiveSpec
CONSTANTS
    Providers = {"deepgram", "vosk", "mistral", "whisper"}
    MaxSessions = 2
    MaxFeeds = 3
    QueueSize = 1
    PcmSize = 0
    MaxLines = 2
    DiskMayFail = TRUE
INVARIANTS TypeOK InOrder ProvisionalIsLast FileIsComplete
PROPERTIES FinalLinesStay FinishedIsWritten
CHECK_DEADLOCK FALSE

SPECIFICATION LiveSpec
CONSTANTS
    Recordings = {1, 2}
    Rooms = {1}
    RoomOf <- OneRoom
    Chat = Chat
    BatchEnabled = {TRUE}
    AnalysisReady = {TRUE, FALSE}
    CaptionsMayMiss = TRUE
    AssemblyMayFail = TRUE
    TranscriptionMayFail = TRUE
    AnalysisMayFail = FALSE
    MaxRaises = 1
    MaxSweeps = 1
    MaxCrashes = 0
    MaxRequests = 0
PROPERTY RoundGetsReviewed
CHECK_DEADLOCK FALSE

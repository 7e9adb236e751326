SPECIFICATION Spec
CONSTANTS
    Recordings = {1}
    Rooms = {1}
    RoomOf <- OneRoom
    Chat = Chat
    BatchEnabled = {TRUE, FALSE}
    AnalysisReady = {TRUE}
    CaptionsMayMiss = TRUE
    AssemblyMayFail = TRUE
    TranscriptionMayFail = TRUE
    AnalysisMayFail = TRUE
    MaxRaises = 2
    MaxSweeps = 1
    MaxCrashes = 1
    MaxRequests = 1
INVARIANTS OneClusteringJob ChainUnbroken
PROPERTY FinalTranscriptWins
CHECK_DEADLOCK FALSE

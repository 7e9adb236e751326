SPECIFICATION LiveSpec
CONSTANTS
    Rounds = {r1, r2}
    Sizes = {1, 2, 3}
    MaxRooms = 2
    Duration = 2
    MaxExtends = 1
    MaxFailedStarts = 1
    MaxRestarts = 1
    MaxCrashes = 1
INVARIANTS TypeOK OpenRoomsAreRunning ConversationsAccountedFor
PROPERTY ActiveRoundEnds

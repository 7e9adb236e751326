SPECIFICATION Spec
CONSTANTS
    People = {p1, p2}
    MaxRounds = 2
    MaxRooms = 2
SYMMETRY Symmetry
INVARIANTS TypeOK SeatsExist TalkFollowsPlan
PROPERTY IdsSurvive

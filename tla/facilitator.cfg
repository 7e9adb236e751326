SPECIFICATION Spec
CONSTANTS
    Rooms = {1, 2}
    People = {p1, p2}
    Nobody = Nobody
    Minutes = 6
    MAX_CONCURRENT_PHRASINGS = 1
    MaxExtends = 1
    MaxMeasures = 1
    MaxLosses = 1
INVARIANTS RepeatsAreLosses RecordedWasHeard
CHECK_DEADLOCK FALSE

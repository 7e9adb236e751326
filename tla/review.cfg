SPECIFICATION Spec
CONSTANTS
    Spoken = {"far"}
    Typed = {"chat"}
    Rooms = {"a", "b"}
    RoomOf <- Table
    Ids = {f1, f2, f3}
SYMMETRY Symmetry
INVARIANTS TypeOK QuotesAccountedFor CountCoversPassages
PROPERTIES DecisionsSurvive WhatWasReadStays

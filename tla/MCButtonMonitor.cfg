SPECIFICATION Spec
CONSTANTS
    DoubleClickMs = 1
    LongPressMs = 2
    Paths = {event5}
    Repeat = TRUE
    RescanMs = 3
    MaxQueue = 2
INVARIANTS
    TypeOK
    NoLostWake
    DownIsHeld
    SleepsUntilDue
PROPERTIES
    PenIsWatched
    PressIsDecided

SPECIFICATION MCSpec
CONSTANTS
    Pens = {p1, p2}
    NoMac = NoMac
    DiscoveryMs = 2
    MaxCalls = 4
INVARIANTS
    NoStuckAttempt
    TimerIsTheAttempts
    DiscoveryIsStopped
PROPERTIES
    ImplementsAttempts
    AttemptEnds

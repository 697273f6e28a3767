SPECIFICATION Spec
CONSTANTS
    DoubleClickMs = 30
    LongPressMs = 50
INVARIANTS OneGesturePerPress DeadlineExact
PROPERTIES EveryPressDecided ImplementsGestures

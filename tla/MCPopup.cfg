\* One tick is 100 ms: the shipped constants.
SPECIFICATION Spec
CONSTANTS
    DismissMs = 40
    ErrorHoldMs = 14
    ConnectTimeoutMs = 150
INVARIANTS
    ShownHasDeadline
    DeadlineOnlyWhileWaiting
    ErrorHoldIsTheErrors
PROPERTIES
    DeadlineNotPostponed
    ChatterNeverResurrects
    WaitEnds
    ImplementsStages

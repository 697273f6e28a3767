SPECIFICATION Spec
CONSTANTS
    DismissMs = 40
    ErrorHoldMs = 14
    ConnectTimeoutMs = 150
PROPERTY ConnectWaitEndsTheWait

SPECIFICATION Spec
CONSTANTS
    MaxRetries = 0
    MaxRequeues = 0
    Reapers = {w1}
    Operators = {o1}
    StopLifted = FALSE
    LostWrites = TRUE
    MaxDeliveries = 2
    MaxFaults = 1
    MaxOps = 3
CHECK_DEADLOCK FALSE
INVARIANT LockOrDisowned
PROPERTY NoStepAfterCancel
PROPERTY ImplementsLifecycle

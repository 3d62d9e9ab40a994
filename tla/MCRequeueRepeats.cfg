SPECIFICATION Spec
CONSTANTS
    MaxRetries = 0
    MaxRequeues = 1
    Reapers = {w1}
    Operators = {o1}
    StopLifted = FALSE
    LostWrites = FALSE
    MaxDeliveries = 2
    MaxFaults = 1
    MaxOps = 0
CHECK_DEADLOCK FALSE
PROPERTY RequeuedRanNoTool

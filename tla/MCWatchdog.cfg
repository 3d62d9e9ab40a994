SPECIFICATION FairSpec
CONSTANTS
    MaxRetries = 1
    MaxRequeues = 1
    Reapers = {w1, w2}
    Operators = {o1}
    StopLifted = TRUE
    LostWrites = FALSE
    MaxDeliveries = 2
    MaxFaults = 1
    MaxOps = 1
CHECK_DEADLOCK FALSE
INVARIANT TypeOK
INVARIANT LockOrDisowned
INVARIANT SlotWhileUnfinished
INVARIANT OneReaperPerRunner
PROPERTY UnfinishedGoalSettles
PROPERTY ImplementsLifecycle

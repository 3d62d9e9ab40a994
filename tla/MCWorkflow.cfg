SPECIFICATION FairSpec
CONSTANTS
    NSteps = 3
    GateSteps = {2}
    DefaultGates = {2}
    WaitSteps = {3}
    EventSteps = {3}
    TimeoutActions = {"escalate", "auto_approve", "auto_reject", "pause"}
    MaxTasks = 2
    MaxApprovals = 2
    MaxTrouble = 2
    OpCost = 1
    FaultCost = 2
    LossCost = 2
CHECK_DEADLOCK FALSE
INVARIANT TypeOK
INVARIANT OneExecutor
INVARIANT GateHolds
INVARIANT EffectsOnce
INVARIANT WaitsForSomebody
PROPERTY EndIsFinal
PROPERTY RunProgresses
PROPERTY OrphanApprovalExpires

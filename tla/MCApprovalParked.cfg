SPECIFICATION Spec
CONSTANTS
    Approvers = {a1, a2}
    Required = 1
    MaxCalls = 2
    MaxFaults = 0
CHECK_DEADLOCK FALSE
INVARIANT ExpiredNotParked

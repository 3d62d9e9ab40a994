SPECIFICATION FairSpec
CONSTANTS
    Callers = {c1, c2}
    Threshold = 2
    CutAt = {"set_opened_at"}
    MaxFaults = 1
PROPERTY CircuitRecovers

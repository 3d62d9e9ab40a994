SPECIFICATION FairSpec
CONSTANTS
    Callers = {c1, c2, c3}
    Threshold = 2
    CutAt = {"release_claim"}
    MaxFaults = 1
INVARIANT KeysExpire
PROPERTY CircuitRecovers

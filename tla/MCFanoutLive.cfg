SPECIFICATION FairSpec
CONSTANTS
    Workers = {w1}
    NoWorker = NoWorker
    Width = 2
    MaxParallel = 1
    Cancels = TRUE
    Stalls = TRUE
    MaxCopies = 1
    MaxFaults = 1
CHECK_DEADLOCK FALSE
PROPERTY ParkedParentResumes

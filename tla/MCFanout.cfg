SPECIFICATION Spec
CONSTANTS
    Workers = {w1, w2}
    NoWorker = NoWorker
    Width = 2
    MaxParallel = 1
    Cancels = FALSE
    Stalls = FALSE
    MaxCopies = 2
    MaxFaults = 2
CHECK_DEADLOCK FALSE
SYMMETRY Symmetric
INVARIANT TypeOK
INVARIANT OneChildPerTask
INVARIANT NoEarlySynthesis
INVARIANT ParallelBound
PROPERTY ImplementsLifecycle

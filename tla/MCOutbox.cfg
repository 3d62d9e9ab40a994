SPECIFICATION FairSpec
CONSTANTS
    Rows = {r1, r2}
    Dispatchers = {d1, d2}
    NoRow = NoRow
    MaxAttempts = 2
    MaxLength = 2
    MaxFaults = 3
CHECK_DEADLOCK FALSE
INVARIANT TypeOK
INVARIANT NothingLost
INVARIANT ClaimExcludes
INVARIANT StreamBound
INVARIANT PublishedOnce
PROPERTY SettledIsFinal
PROPERTY EventSettles

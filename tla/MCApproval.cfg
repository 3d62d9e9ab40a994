SPECIFICATION FairSpec
CONSTANTS
    Approvers = {a1, a2}
    Required = 2
    MaxCalls = 3
    MaxFaults = 1
CHECK_DEADLOCK FALSE
INVARIANT TypeOK
INVARIANT GrantedIsApproved
INVARIANT AnswersAreTrue
INVARIANT AbandonedIsDenied
INVARIANT QuorumResolves
PROPERTY DecisionReachesAgent
PROPERTY ImplementsDecision

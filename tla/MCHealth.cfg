SPECIFICATION FairSpec
CONSTANTS
    NoCancel = NoCancel
    Liveness = {"goroutines"}
    Readiness = {"postgres"}
    Starts = {"s1"}
    Requests = {"r1"}
    failureThreshold = 2
    successThreshold = 1
INVARIANTS
    TypeOK
    FlagFollowsResults
PROPERTIES
    FailureReported
    RecoveryReported
    DrainSeen
    RunnersEnd

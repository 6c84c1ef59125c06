SPECIFICATION Spec
CONSTANTS
    Requests = {r1, r2, r3}
    Delay = 3
    Timeout = 2
    PollEvery = 2
INVARIANTS
    TypeOK
    PoolOutlivesRequests
    DrainedBeforeRefusing
PROPERTIES
    RunReturns

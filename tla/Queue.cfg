CONSTANTS
    j1 = j1
    j2 = j2
    w1 = w1
    w2 = w2
    p1 = p1
    p2 = p2
    Jobs = {j1, j2}
    Workers = {w1, w2}
    Processes = {p1, p2}
    ProcessOf <- TwoProcesses
    NoOwner = NoOwner
    BatchSize = 2
    Requests = {0, 1}
    DefaultMaxAttempts = 2
    Lease = 1
    RetryBase = 1
    RetryMax = 2
    TicksPerSecond = 2
    MaxFaults = 1
SPECIFICATION FairSpec
INVARIANTS
    TypeOK
    ExclusiveHold
    AttemptBudget
    StrandedOnlyByFault
PROPERTIES
    SettledIsFinal
    ImplementsLifecycle
    ClaimsInTimeOrder
    AcceptedJobSettles
CHECK_DEADLOCK FALSE

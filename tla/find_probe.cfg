SPECIFICATION Spec
CONSTANTS
    w1 = w1
    w2 = w2
    m1 = m1
    m2 = m2
    m3 = m3
    m4 = m4
    e1 = e1
    e2 = e2
    e3 = e3
    c1 = c1
    NoItem = NoItem
    None = None
    Workers = {w1}
    Events = {e1, e2}
    Customers = {c1}
    Messages = {m1, m2}
    Poison <- NoPoison
    EventOf <- OwnEvents
    CustomerOf <- OneCustomer
    Unreadable = {}
    InitialConfigs = {"active"}
    BatchSize = 2
    MaxReceiveCount = 4
    ReadLag = FALSE
    MaxFaults = 1
    MaxCrashes = 0
    RetryAttempts = 2
    BackoffBase = 1
    BackoffMax = 2
    BackoffMultiplier = 2
    JitterMax = 0
    FailureThreshold = 2
    RecoveryTimeout = 2
    MinVisibility = 1
    MaxVisibility = 3
    ProcessingOverhead = 1
CHECK_DEADLOCK FALSE
INVARIANTS NoProbeLeftBehind

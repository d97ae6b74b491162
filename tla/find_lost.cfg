SPECIFICATION RelaySpec
CONSTANTS
    w1 = w1
    c1 = c1
    k1 = k1
    p1 = p1
    o1 = o1
    o2 = o2
    NoItem = NoItem
    None = None
    Workers = {w1}
    Events <- Requests
    Customers = {c1}
    Messages <- Numbered
    Poison = {}
    EventOf <- FirstOf
    CustomerOf <- OneCustomer
    Unreadable = {}
    InitialConfigs = {"active"}
    BatchSize = 1
    MaxReceiveCount = 2
    ReadLag = TRUE
    MaxFaults = 0
    MaxCrashes = 0
    RetryAttempts = 2
    BackoffBase = 1
    BackoffMax = 2
    BackoffMultiplier = 2
    JitterMax = 0
    FailureThreshold = 2
    RecoveryTimeout = 1
    MinVisibility = 1
    MaxVisibility = 1
    ProcessingOverhead = 0
    Keys = {k1}
    Reconcilers = {p1}
    Limit = 1
    MaxRequests = 1
    MaxExpiries = 0
    MaxApiFaults = 0
    MaxApiCrashes = 0
    Operators = {o1}
    MaxSends = 2
CHECK_DEADLOCK FALSE
INVARIANTS AcceptedNotLost

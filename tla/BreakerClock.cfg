SPECIFICATION Spec
CONSTANTS
    None = None
    RetryAttempts = 5
    BackoffBase = 5
    BackoffMax = 300
    BackoffMultiplier = 2
    JitterMax = 1
    FailureThreshold = 5
    RecoveryTimeout = 60
    MinVisibility = 30
    MaxVisibility = 3600
    ProcessingOverhead = 15
    Step = 13
    MaxNow = 260
    MaxFailures = 7
INVARIANTS HoldsOff NotBeforeNextRetry  BackoffIsExponential
CHECK_DEADLOCK FALSE

SPECIFICATION Spec
CONSTANTS
    Keys = {k1}
    Reconcilers = {p1}
    Limit = 2
    MaxRequests = 2
    MaxFaults = 1
    MaxCrashes = 0
    MaxExpiries = 0
INVARIANTS RetryOf500IsSafe

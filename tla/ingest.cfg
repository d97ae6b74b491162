SPECIFICATION FairSpec
CONSTANTS
    Keys = {k1, k2}
    Reconcilers = {p1, p2}
    Limit = 2
    MaxRequests = 2
    MaxFaults = 2
    MaxCrashes = 1
    MaxExpiries = 1
INVARIANTS TypeOK OneEventPerKey QueuedHasEvent AcceptedIsQueued
PROPERTIES MarkerClearedAfterSend EveryOrphanRequeued

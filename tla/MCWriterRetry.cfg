SPECIFICATION Spec
CONSTANTS
    p1 = p1
    p2 = p2
    p3 = p3
    d1 = d1
    a1 = a1
    k1 = k1
    k2 = k2
    NoKey = NoKey
    NoId = NoId
    Shutdown = Shutdown
    KeyOf <- Repeated
    Publishers = {p1, p2, p3}
    Directs = {}
    Ackers = {}
    Cancellable = {p1}
    QueueSize = 1
    BatchSize = 1
    RecentCapacity = 2
    MaxCrashes = 0
CHECK_DEADLOCK FALSE
INVARIANTS
    RetriesSafe

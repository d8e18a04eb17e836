SPECIFICATION LiveSpec
CONSTANTS
    p1 = p1
    p2 = p2
    p3 = p3
    d1 = d1
    a1 = a1
    k1 = k1
    k2 = k2
    NoKey = NoKey
    NoId = NoId
    Shutdown = Shutdown
    KeyOf <- Repeated
    Publishers = {p1, p2, p3}
    Directs = {d1}
    Ackers = {a1}
    Cancellable = {p1}
    QueueSize = 2
    BatchSize = 3
    RecentCapacity = 1
    MaxCrashes = 1
CHECK_DEADLOCK FALSE
INVARIANTS
    TypeOK
    RecentIdsInStep
    AdmittedInOrder
    StoredExactlyOnce
PROPERTIES
    EveryCallEnds

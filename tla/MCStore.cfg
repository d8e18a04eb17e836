SPECIFICATION LiveSpec
CONSTANTS
    m1 = m1
    m2 = m2
    t1 = t1
    NoKey = NoKey
    Messages = {m1, m2}
    Topics = {t1}
    Shards = {1}
    TopicOf <- OneTopic
    KeyOf <- NoKeys
    ShardOf <- OneShard
    Visibility = 1
    MaxAttempts = 2
    BackoffSteps = 1
    MaxBackoff = 2
    ClaimLimit = 2
    MessageRetention = 1
    DeliveredRetention = 1
    MaxClock = 2
    MaxLag = 0
    MaxLease = 2
    MaxFailing = 1
INVARIANTS
    TypeOK
    ExclusiveHolders
    FailReadsStayCurrent
PROPERTIES
    LostLeaseStaysLost
    OnlyOwnCallSettles
    ImplementsLife
    EveryClaimEnds

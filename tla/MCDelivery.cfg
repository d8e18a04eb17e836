SPECIFICATION LiveSpec
CONSTANTS
    m1 = m1
    m2 = m2
    s1 = s1
    s2 = s2
    None = None
    Messages = {m1, m2}
    Subs = {s1, s2}
    TopicOf <- OnTopicA
    SessionOf <- OwnSession
    Scenes <- AllScenes
    ClaimBatch = 2
    MaxAttempts = 2
    MaxTrouble = 1
CHECK_DEADLOCK FALSE
INVARIANTS
    TypeOK
    NoLostWakeup
    InflightOwned
    NoAbandonedClaim
    LiveStreamRegistered
    OfferedAsCovered
PROPERTIES
    DeliveredMeansAcked
    ImplementsLife
    EveryMessageSettles

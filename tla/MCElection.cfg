SPECIFICATION Spec
CONSTANTS
    c1 = c1
    c2 = c2
    Nobody = Nobody
    Candidates = {c1, c2}
    TtlOf <- OtherTtl
    MaxClock = 3
    MaxTerm = 2
    MaxOrphans = 1
INVARIANTS
    TypeOK
    OneLeaderPerTerm
    ExclusiveLeaders

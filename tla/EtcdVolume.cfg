SPECIFICATION FairSpec
CONSTANTS
    Member = {m1}
    Increment = 256
    Buffer = 125
    FixedSizes = {384}
    UsedLevels = {0, 230, 460, 600}
    MaxFaults = 1
    MaxEdits = 1
INVARIANTS
    TypeOK
    DataFitsClaim
    NoRunawayGrowth
PROPERTIES
    DisarmOnlyAfterResize
    FullMemberRecovers

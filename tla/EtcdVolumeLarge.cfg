SPECIFICATION FairSpec
CONSTANTS
    Member = {m1}
    Increment = 256
    Buffer = 125
    FixedSizes = {}
    UsedLevels = {0, 230, 460, 691, 921, 1152, 1300}
    MaxFaults = 0
    MaxEdits = 0
PROPERTIES
    FullMemberRecovers

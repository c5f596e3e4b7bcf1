SPECIFICATION FairSpec
CONSTANTS
    Early = 1
    Instant = {}
    MaxEdits = 0
    MaxPauses = 2
    MaxFaults = 1
PROPERTIES
    DeletionCompletes
    Converges
CHECK_DEADLOCK FALSE

SPECIFICATION FairSpec
CONSTANTS
    Member = {m0, m1, m2}
    Labelings <- KeysChange
    MaxUpgrades = 1
    MaxGrowths = 1
    MaxFaults = 2
INVARIANTS
    TypeOK
    MembersKept
    ReadyMeansWanted
PROPERTIES
    SelectorConverges

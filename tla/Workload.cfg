SPECIFICATION Spec
CONSTANTS
    Replicas = 2
    MaxNodes = 2
    MaxEdits = 1
    MaxFaults = 1
INVARIANTS
    TypeOK
    ReportedComplete
PROPERTIES
    EventuallySetUp

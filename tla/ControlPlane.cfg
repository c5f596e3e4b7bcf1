SPECIFICATION Spec
CONSTANTS
    Early = 1
    Instant = {}
    MaxEdits = 1
    MaxPauses = 0
    MaxFaults = 2
INVARIANTS
    TypeOK
    SummaryAgrees
    NoVersionAhead
    ReportedVersionApplied
PROPERTIES
    BecomesReadyAfterFullRun
    NoObjectsForDeleted
    KeepsUpgradeContract
CHECK_DEADLOCK FALSE

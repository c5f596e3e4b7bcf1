SPECIFICATION FairSpec
CONSTANTS
    Period = 3
    Cooldown = 2
    Interval = 2
    Chunks = 1
    Readings <- MCReadings
    MaxTime = 5
    MaxFaults = 2
    MaxEdits = 1
INVARIANTS
    TypeOK
    RecordedBackupExists
    NextRunMatchesLastBackup
    RateLimited
PROPERTIES
    NoFalseStall
    BackupTerminates
    FirstBackupHappens

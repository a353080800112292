SPECIFICATION Spec
CONSTANTS
    NL = 2
    Keys = {k1, k2}
    MaxEpoch = 3
    MaxCommits = 3
    MaxLater = 1
    MaxCrashes = 2
INVARIANTS
    TypeOK
    RecoveredIsDurableState
    QuietLogsRecover

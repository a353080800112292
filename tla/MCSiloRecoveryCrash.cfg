SPECIFICATION Spec
CONSTANTS
    NL = 2
    Keys = {k1, k2}
    MaxEpoch = 3
    MaxCommits = 2
    MaxLater = 1
    MaxCrashes = 1
INVARIANTS
    CrashIsRecovered

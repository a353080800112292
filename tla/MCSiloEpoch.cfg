SPECIFICATION FairSpec
CONSTANTS
    N = 3
    InitialEpoch = 1
    MaxEpoch = 4
INVARIANTS
    TypeOK
    EpochLag
    CtidwBehindCommits
PROPERTIES
    RefinesEpochSync
    EpochAdvances

SPECIFICATION Spec
CONSTANTS
    NW = 3
    Keys = {1, 2, 3, 4}
    Existing = {1, 2, 3}
    Loads <- DisjointLoads
    MaxEpoch = 3
INVARIANTS
    TypeOK
    CleanReads
    Serializable
    EpochOrder
    TidOrder
    CommitInLocalEpoch
    NoLockLeft
PROPERTIES
    TidGrows

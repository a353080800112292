SPECIFICATION Spec
CONSTANTS
    NW = 3
    Keys = {1, 2, 3, 4}
    Existing = {1, 2, 3}
    Loads <- ConflictLoads
    MaxEpoch = 2
INVARIANT ConflictIsAborted

SPECIFICATION FairSpec
CONSTANTS
    NW = 2
    NL = 1
    LoggerOf <- MCLoggerOf
    NB = 1
    MaxLog = 0
    MaxEpoch = 3
    MaxTx = 1
INVARIANT DurableEpochClosed
PROPERTIES
    EpochKeepsMoving
    BufferReturns

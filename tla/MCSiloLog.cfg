SPECIFICATION Spec
CONSTANTS
    NW = 2
    NL = 2
    LoggerOf <- MCLoggerOf
    NB = 1
    MaxLog = 0
    MaxEpoch = 3
    MaxTx = 1
INVARIANTS
    TypeOK
    BufferOneHome
    CurrentBufferThere
    CommittedNotLost
    NotifiedIsSafe
    DurableEpochClosed
    DurableEpochBounded

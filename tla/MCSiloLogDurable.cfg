SPECIFICATION Spec
CONSTANTS
    NW = 2
    NL = 1
    LoggerOf <- MCLoggerOf
    NB = 2
    MaxLog = 0
    MaxEpoch = 3
    MaxTx = 1
INVARIANT DurableIsLogged

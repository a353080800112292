SPECIFICATION Spec
CONSTANTS
    NC = 2
    NW = 2
    Times <- MCTimes
    Lines <- MCLines
    MaxOps = 1
    MaxReq <- MCMaxReq
INVARIANTS
    TypeOK
    OwnAnswer
    RefusedIsOld
PROPERTIES
    ClosedSessionGoes
    EveryRequestAnswered

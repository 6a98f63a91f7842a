SPECIFICATION FairSpec
CONSTANTS
    KeyIds = {k1, k2}
    MaxCerts = 4
INVARIANTS
    TypeOK
    ReorderedIsChain
    CycleIsReal
    CompleteChainIsReordered
PROPERTY Returns
CHECK_DEADLOCK FALSE

SPECIFICATION FairSpec
CONSTANTS
    MaxReconnectDelay = 30
    MaxFaults = 3
INVARIANTS
    OneChain
PROPERTIES
    LossIsRetried
    StopQuiets
CHECK_DEADLOCK FALSE

SPECIFICATION FairSpec
CONSTANTS
    k1 = k1
    k2 = k2
    Keys = {k1, k2}
    NoKey = NoKey
    Messages <- MCMessages
    MaxOutbox = 2
    MaxSubscriptions = 1
    MaxMessages = 3
    MaxUpdates = 2
INVARIANTS
    WriteBufferStable
    FifoDelivery
    AckBeforeUpdate
    TableMatchesActive
PROPERTIES
    OutboxDrains
CHECK_DEADLOCK FALSE

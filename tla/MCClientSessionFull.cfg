SPECIFICATION FairSpec
CONSTANTS
    k1 = k1
    k2 = k2
    Keys = {k1, k2}
    NoKey = NoKey
    Messages <- MCMessages
    MaxOutbox = 1
    MaxSubscriptions = 1
    MaxMessages = 3
    MaxUpdates = 0
PROPERTY CloseCompletes
CHECK_DEADLOCK FALSE

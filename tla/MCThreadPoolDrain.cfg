SPECIFICATION FairSpec
CONSTANTS
    Workers = {w1}
    Clients = {c1}
    Owner = c1
    Tasks = {t1}
    NoTask = NoTask
    Free = Free
    MaxCalls = 1
    MaxSpurious = 0


PROPERTIES
    DrainReturns
CHECK_DEADLOCK FALSE

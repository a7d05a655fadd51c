SPECIFICATION FairSpec
CONSTANTS
    Workers = {w1, w2}
    Clients = {c1, c2}
    Owner = c1
    Tasks = {t1, t2}
    NoTask = NoTask
    Free = Free
    MaxCalls = 2
    MaxSpurious = 1
INVARIANTS
    TypeOK
    EachTaskOnce
    InFlightExact
    DrainWaitsForEarlierTasks
    NothingStranded
PROPERTIES
    TasksFinish
    StopCompletes
CHECK_DEADLOCK FALSE

SPECIFICATION FairSpec
CONSTANTS
    Producers = {"p1", "p2"}
    Streams <- MCStreams
    Clients = {"c1"}
    MaxFeedSessions = 1
    MaxWsSessions = 1
    BufSize = 2
    MaxLine = 1
    MaxPending = 3
INVARIANTS
    RegistryExact
    FramingExact
    StepsComplete
    StopReachesAll
PROPERTIES
    SignalEnds
CHECK_DEADLOCK FALSE

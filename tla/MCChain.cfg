SPECIFICATION FairSpec
CONSTANTS
    Pipelines <- MCPipelines
    HeadSymbol = "A"
    Threads = {w1, w2}
    MaxAcc = 2
    MaxFed = 3
    MaxThrows = 1
INVARIANTS
    ExactlyOnce
    OneChildPerSymbol
PROPERTIES
    SilentOnceDropped
    EveryValueSettles
CHECK_DEADLOCK FALSE

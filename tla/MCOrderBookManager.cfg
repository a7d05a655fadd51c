CONSTANTS
    Feed = Feed
    None = None
    Ids = {1, 2}
    Scopes = {Feed}
    Prices = {1, 2}
    Sizes = {1, 2}
    Quantities = {1}
    Priorities = {1}
    MaxSynthetic = 0
    MaxListed = 2
    SnapshotLists <- MCSnapshots
    LevelLists <- MCLevelLists
    SummaryLevels <- MCSummaryLevels
    Totals = {0, 1}
    Counts = {1}
    Epochs = {1}
    MaxSeq = 3
    MaxOps = 3
    MaxReads = 1
    TopN = 2
SPECIFICATION ManagerSpec
INVARIANTS NoHiddenGap SnapshotPlusDeltas
CHECK_DEADLOCK FALSE

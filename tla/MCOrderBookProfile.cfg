CONSTANTS
    Feed = Feed
    None = None
    Ids = {0, 1, 2}
    Scopes = {Feed}
    Prices = {1, 2}
    Sizes = {1, 2}
    Quantities = {0, 2, 3}
    Priorities = {0, 1}
    MaxSynthetic = 2
    MaxListed = 2
    SnapshotLists <- MCSnapshots
    DefPerLevels = 1
    LevelNumbers = {1, 2, 3}
    BandPrices = {1, 2, 1234567}
SPECIFICATION BookSpec
INVARIANT ProfileServed

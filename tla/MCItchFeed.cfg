SPECIFICATION FeedSpec
CONSTANTS
    None = None
    FeedScope = feed
    Scopes = {feed}
    Ids = {}
    Symbols = {"A"}
    Refs = {1, 2}
    VenuePrices = {1, 2}
    DefaultTick = 1
    DirectoryTick = 2
    Prices = {1, 2}
    Sizes = {2}
    Quantities = {1, 2}
    Priorities = {0}
    MaxTrades = 1
    MaxLost = 1
    MaxFaults = 1
    MaxReconnectDelay = 30
INVARIANTS
    TrackingExact
    BookWithinTracking
    ShortByVolumeAtMost
CHECK_DEADLOCK FALSE

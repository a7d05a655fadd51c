SPECIFICATION FairSpec
CONSTANTS
    l1 = l1
    l2 = l2
    l3 = l3
    l4 = l4
    l5 = l5
    Listeners = {l1, l2, l3, l4, l5}
    SymOf <- MCSymOf
    FieldOf <- MCFieldOf
    FieldSeq <- MCFieldSeq
    Indicators <- MCIndicators
    LightKeys <- MCLightKeys
    SkipFields <- MCSkip
    Steady = {l2, l3, l4, l5}
    Symbols = {"A", "B"}
    Events <- MCEvents
    Builtins = {"mean"}
    Failing = {}
    PriceFields = {"lastPrice"}
    BidField = "bid"
    AskField = "ask"
    TaEnabled = TRUE
    MaxHistory = 2
    MaxSymbols = 1
    MaxFieldsPerSymbol = 1
    MaxStreamKeys = 1
    MaxFieldsPerStreamKey = 5
    Workers = {w1, w2}
    NoTask = NoTask
    MaxTicks = 2
INVARIANTS
    TableExact
    AtMostOncePerTick
    StoreNotOlderThanDelivery
    WithinCaps
PROPERTIES
    StoppedStaysSilent
    PostedIsDelivered
CHECK_DEADLOCK FALSE

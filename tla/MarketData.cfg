SPECIFICATION FairSpec
CONSTANTS
    v1 = v1
    v2 = v2
    v3 = v3
    Venues <- TwoVenues
    Exchanges <- ThreeVenues
    MaxAttempts = 1
    Symbols <- OneSymbol
    Books <- SomeBooks
    TickCap = 1
    MaxQuoteAge = 0
    OppCooldown = 1
    MinSpreadBps = 15
    BaseNotional = 60
    MinPositionUSD = 75
    MaxPositionUSD = 100
INVARIANTS
    TypeOK
    CircuitFollowsFeed
    NeverTicksClosed
    ScanFindsTheBest
PROPERTIES
    FeedReconnects
    AllStop
CHECK_DEADLOCK FALSE

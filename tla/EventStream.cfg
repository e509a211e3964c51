SPECIFICATION FairSpec
CONSTANTS
    e1 = e1
    e2 = e2
    e3 = e3
    c1 = c1
    c2 = c2
    Events <- TwoEvents
    Clients <- OneClient
    SubCap = 1
    MaxLen = 1
    BatchSize = 2
    MaxStarts = 2
    MaxFails = 1
INVARIANTS
    TypeOK
    NeverSendsOnClosed
    CursorPassesInserted
PROPERTIES
    CopiedTwiceOnlyOnRetry
    CopiedUnlessReadBlocks
    PublishReturns
CHECK_DEADLOCK FALSE

SPECIFICATION FairSpec
CONSTANTS
    o1 = o1
    o2 = o2
    Orders <- OneOrder
    Quantity <- TwoLots
    SendBuf = 1
    MaxBeats = 1
INVARIANTS
    TypeOK
    SequenceAccounted
    ResultMatchesVenue
PROPERTIES
    SubmitReturns
    ReaderKeepsUp
    LossIsSeen
CHECK_DEADLOCK FALSE

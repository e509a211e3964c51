SPECIFICATION FairSpec
CONSTANTS
    o1 = o1
    binance = binance
    kraken = kraken
    alpaca = alpaca
    synthetic = synthetic
    unknown = unknown
    Orders = {o1}
    AnswerKinds = {"exact","early","unflagged"}
    Quantity <- TwoLots
    Names <- AllNames
    Adapters <- FourVenues
INVARIANTS
    TypeOK
    AnswersMeetContract
PROPERTIES
    CallsEnd
    SignalEndsProcess
CHECK_DEADLOCK FALSE

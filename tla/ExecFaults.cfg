SPECIFICATION FairSpec
CONSTANTS
    o1 = o1
    o2 = o2
    o3 = o3
    op1 = op1
    Procs <- Procs1Op
    Opps <- OneOpp
    Operators <- OneOperator
    Tokens = {""}
    SymbolOf <- SameSymbol
    Quantity <- TwoLots
    AvgPrice <- LosingPrices
    FeePct <- Fees
    DailyLossLimit = 100
    MaxDrawdownPct = 10
    LegTimeoutMs = 45
    WorstLoss = 238
    OppChCap = 1
    AnswerKinds = {"exact","early","unflagged"}
    MayShutdown = TRUE
INVARIANTS
    HedgeFitsLeg1
    ExposureIsUnseen
    UnhedgedMeansTripped
    ReasonMatchesSwitch
PROPERTIES
    FirstReasonSticks
    SymbolFreed
    QueuedResolves
CHECK_DEADLOCK FALSE

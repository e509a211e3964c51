SPECIFICATION Spec
CONSTANTS
    o1 = o1
    o2 = o2
    o3 = o3
    op1 = op1
    Procs <- Procs1
    Opps <- OneOpp
    Operators <- NoOperator
    Tokens = {""}
    SymbolOf <- SameSymbol
    Quantity <- TwoLots
    AvgPrice <- LosingPrices
    FeePct <- Fees
    DailyLossLimit = 100
    MaxDrawdownPct = 10
    LegTimeoutMs = 45
    WorstLoss = 238
    OppChCap = 1
    AnswerKinds = {"exact"}
    MayShutdown = FALSE
INVARIANT ReversedMeansFlat
CHECK_DEADLOCK FALSE

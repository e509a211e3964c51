SPECIFICATION Spec
CONSTANTS
    o1 = o1
    o2 = o2
    o3 = o3
    op1 = op1
    Procs <- Procs3
    Opps <- ThreeOpps
    Operators <- NoOperator
    Tokens = {""}
    SymbolOf <- TwoSymbols
    Quantity <- OneLot
    AvgPrice <- LosingPrices
    FeePct <- Fees
    DailyLossLimit = 100
    MaxDrawdownPct = 10
    LegTimeoutMs = 45
    WorstLoss = 119
    OppChCap = 1
    AnswerKinds = {"exact"}
    MayShutdown = FALSE
INVARIANTS
    TypeOK
    OneInFlightPerSymbol
    OvershootBoundedBySymbols
    BooksAgree
PROPERTIES
    TrippedAdmitsNobody
    RefinesLifecycle
CHECK_DEADLOCK FALSE

SPECIFICATION FairSpec
CONSTANTS
    e1 = e1
    e2 = e2
    op1 = op1
    Procs <- MCProcs
    Executors <- MCExecutors
    Operators <- MCOperators
    Tokens = {"", "operator"}
    DailyLossLimit = 2
    MaxDrawdownPct = 10
    LegTimeoutMs = 45
    CleanPnLs <- MCMixedPnL
    ReversalPnLs <- MCSlippage
    WorstLoss = 2
    MaxFills = 3
    MaxReversals = 2
INVARIANTS
    TypeOK
    LossOvershootBounded
    DrawdownOvershootBounded
    PeakMissesOnlyReversals
PROPERTY BreachTripsSwitch
CHECK_DEADLOCK FALSE

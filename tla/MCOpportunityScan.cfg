\* The scan, the decision and the backtest.
SPECIFICATION Spec
CONSTANTS
    u1 = u1
    u2 = u2
    u3 = u3
    d1 = d1
    WETH = WETH
    USDC = USDC
    DAI = DAI
    ZERO = ZERO
    PoolSeq <- PoolList
    Token0 <- First
    Token1 <- Second
    Levels <- LevelSet
    AmountIn = 100
    Scale = 100000
    Prices = {0, 2}
    GasCosts = {0, 1}
    Thresholds = {0, 2, 6}
    MaxRows = 1
    NoOpportunity = NoOpportunity
INVARIANTS
    TypeOK
    SpreadCoversFees
    BacktestAgrees
PROPERTIES
    ScanFindsAllRoutes

\* The contract's trades, on two pairs and every route.
SPECIFICATION Spec
CONSTANTS
    weth = weth
    usdc = usdc
    dai = dai
    uni = uni
    sushi = sushi
    Eth = Eth
    Tokens = {weth, usdc, dai}
    Pairs = {uni, sushi}
    Token0 <- UsdcFirst
    Token1 <- WethSecond
    Amounts = {10}
    Floors = {0, 4, 5}
    Premiums = {1}
    Markets <- MarketSet
    Deposits = {3}
    MaxHeld = 3
    MaxTxs = 2
    NoTx = NoTx
INVARIANTS
    NoStandingApproval
    SwapsGoThrough
PROPERTIES
    TradeEarns
    AgreesWithEstimate
    TradesAreAtomic

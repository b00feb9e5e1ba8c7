\* Two executions, with restarts in paper and live mode.
SPECIFICATION FairSpec
CONSTANTS
    r1 = r1
    r2 = r2
    Routes = {r1, r2}
    NoRoute = NoRoute
    BaseFees = {1}
    LastBlock = 5
    MaxTxs = 2
    MaxTurns = 2
INVARIANTS
    TypeOK
    LiveBundlesShareNonce
    OneTradePerBlock
    SuccessIsMined
    BundlesAreRecorded
PROPERTIES
    ExecutionEnds
    ImplementsLedger

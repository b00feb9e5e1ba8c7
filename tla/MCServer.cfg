\* Upgrades, failed starts, sessions and calls beside a scanner at work.
SPECIFICATION ServerFairSpec
CONSTANTS
    Batch = 2
    MaxTrades = 3
    ShownKeys <- MCKeys
    Values = {1, 2}
    Default = Default
    Unset = Unset
    Bad = Bad
    NoConfig = NoConfig
    NoMigration = NoMigration
    Limits = {1, 3}
    MaxLimit = 2
    Week = 2
    NoCall = NoCall
    NoPager = NoPager
    MaxDay = 2
    OldTables <- MCTables
INVARIANTS
    ServerTypeOK
    PushedInOrder
    UpgradeKeepsRows
    ShownConfigIsInForce
    PagingMissesNothing
    AnswersAreConsistent
PROPERTIES
    TradesReachClient
CHECK_DEADLOCK FALSE

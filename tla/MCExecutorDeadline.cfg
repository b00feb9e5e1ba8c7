\* What wait_for_inclusion answers when blocks pass between its two reads.
SPECIFICATION Spec
CONSTANTS
    r1 = r1
    r2 = r2
    Routes = {r1}
    NoRoute = NoRoute
    BaseFees = {1}
    LastBlock = 5
    MaxTxs = 1
    MaxTurns = 2
INVARIANTS
    FailedIsNotIncluded

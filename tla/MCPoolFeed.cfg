\* Bursts larger than the channel, lost logs, every retry used up.
SPECIFICATION FairSpec
CONSTANTS
    p1 = p1
    p2 = p2
    x = x
    y = y
    Pools = {p1, p2}
    Payloads = {x, y}
    NoPayload = NoPayload
    UpdatesCapacity = 2
    MaxAttempts = 3
    MaxLogs = 3
INVARIANTS
    TypeOK
    UnseenIsAnnounced
    ScannerIsCurrent
PROPERTIES
    UpdateIsScanned
    OutageEnds
CHECK_DEADLOCK FALSE

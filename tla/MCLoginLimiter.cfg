\* The sliding window over three of its lengths.
SPECIFICATION LimiterSpec
CONSTANTS
    a = a
    b = b
    IPs = {a, b}
    Window = 3
    Limit = 2
    MaxTime = 9
    MaxLogins = 5
SYMMETRY Symmetry
INVARIANTS
    LimiterTypeOK
    NoBurst
PROPERTIES
    RefusedForCause
CHECK_DEADLOCK FALSE

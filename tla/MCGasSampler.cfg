\* Failures and restarts between the three writes, blocks announced again.
SPECIFICATION Spec
CONSTANTS
    RingSize = 2
    Recent = 2
    MaxU64 = 3
    BaseFees = {0, 1}
    PriorityFees = {0, 1}
    MaxAttempts = 2
    MaxHeads = 3
    MaxBlock = 2
INVARIANTS
    TypeOK
    LastBlockIsSampled
    ViewsAgree
    FewSamplesUnshown

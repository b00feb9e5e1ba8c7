\* Rings that fill up and turn over; seven samples are the first number of
\* which the 90th percentile is not the maximum.
SPECIFICATION MCSpec
CONSTANTS
    RingSize = 8
    Recent = 7
    MaxU64 = 3
    BaseFees = {1}
    PriorityFees = {0, 1, 2, 4}
    MaxSamples = 9
INVARIANTS
    RecommendedIsP90

CONSTANTS
    Source = {s1}
    Proc = {p1, p2}
    BucketId = {b1, b2}
    Sizes = {0, 129}
    Burst = 2
    TTL = 3
    Second = 1
    MaxStall = 1
    MaxTime = 5
    None = None
SPECIFICATION FairSpec
INVARIANTS TypeOK HeldBucketIsCurrent EvictionForfeitsNothing EgressBudget
PROPERTIES PolicySpec IdleEntriesExpire
\* the clock stops at MaxTime
CHECK_DEADLOCK FALSE

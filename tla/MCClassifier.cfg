CONSTANTS
    Source = {s1, s2}
    Scanner = {s2}
    QueryType = {"A", "ANY"}
    rateWindow = 3
    rateThreshold = 2
    maxAge = 4
    Period = 2
    MaxCalls = 4
    MaxTime = 9
SPECIFICATION FairSpec
INVARIANTS WindowIsWhole
PROPERTIES LabelMatchesRate IdleSourcesForgotten
\* the clock stops at MaxTime
CHECK_DEADLOCK FALSE

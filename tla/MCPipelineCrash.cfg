CONSTANTS
    Proto = {"chargen"}
    Source = {s1}
    Worker = {1, 2}
    Query <- OnlyChargen
    Variant <- MCVariant
    Burst = 5
    Slack = 1
    SaveFailure = {FALSE}
    MaxRequests = 2
    MaxEarned = 0
    None = None
SPECIFICATION Spec
INVARIANTS ProbesDoNotCrash
\* the process exits
CHECK_DEADLOCK FALSE

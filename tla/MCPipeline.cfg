CONSTANTS
    Proto = {"dns", "ntp", "ssdp", "chargen"}
    Source = {s1}
    Worker = {1, 2}
    Query <- MCQuery
    Variant <- MCVariant
    Burst = 5
    Slack = 1
    SaveFailure = {TRUE, FALSE}
    MaxRequests = 2
    MaxEarned = 1
    None = None
SPECIFICATION FairSpec
INVARIANTS TypeOK WireWithinBudget WireIsAccountedFor
PROPERTY RequestsEnd
\* the process exits
CHECK_DEADLOCK FALSE

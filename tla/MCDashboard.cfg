CONSTANTS
    INTERVAL = 2
    Chart = {"timeseries"}
    MaxRefresh = 3
    MaxUnderWay = 2
    MaxFailures = 2
SPECIFICATION FairSpec
CHECK_DEADLOCK FALSE
INVARIANT LoneRefreshIsShown
PROPERTIES KeepsRefreshing SpinnerStops

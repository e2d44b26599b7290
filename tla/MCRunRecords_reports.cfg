SPECIFICATION Spec
CONSTANTS
    Server = Server
    CommandLines = {c1}
    Nobody = Nobody
    Absent = Absent
    Torn = Torn
    Foreign = Foreign
    Cron = TRUE
    Errors = {"full"}
    Retentions = {0, 2}
    Windows = {1, 2}
    MaxClock = 4
    MaxRuns = 3
    MaxFaults = 1
INVARIANTS PullIsTrue StateKept MetricsFileWhole DeliveryKeepsResult SeriesIsComplete
CHECK_DEADLOCK FALSE

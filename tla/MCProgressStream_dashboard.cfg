SPECIFICATION LiveSpec
CONSTANTS
    Dashboards = {d1}
    QueueMax = 2
    RetentionIsLong = TRUE
    HostMayReboot = FALSE
    MaxClock = 4
    MaxJobs = 2
    MaxFaults = 1
INVARIANTS NeverAbandoned OnlyBeginsLookStale
PROPERTIES CatchesUp ComesToRest
CHECK_DEADLOCK FALSE

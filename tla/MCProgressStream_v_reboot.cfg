SPECIFICATION LiveSpec
CONSTANTS
    Dashboards = {d1}
    QueueMax = 2
    RetentionIsLong = TRUE
    HostMayReboot = TRUE
    MaxClock = 2
    MaxJobs = 1
    MaxFaults = 1
PROPERTY CatchesUp
CHECK_DEADLOCK FALSE

SPECIFICATION LiveSpec
CONSTANTS
    Callers = {web, Scheduler}
    Scheduler = Scheduler
    Stoppers = {s1}
    Outsiders = {o1}
    Nobody = Nobody
    Server = Server
    MaxJobs = 2
    MaxEnds = 1
    ThreadsMayFail = TRUE
    CleaningIsQuick = TRUE
INVARIANTS MutualExclusion ResultShown StopIsNotLost
PROPERTIES BoardSpec LockIsReleased EndedIsForgotten

CONSTANTS
    f1 = f1
    r1 = r1
    f2 = f2
    s1 = s1
    s2 = s2
    g1 = g1
    g2 = g2
    NoRecording = NoRecording
    Recordings <- PairRecordings
    Shots <- PairShots
    ShotOf <- PairShotOf
    DayOf <- PairDayOf
    Groups <- PairGroups
    GroupOf <- PairGroupOf
    Rank <- PairRank
    Artifacts <- PairArtifacts
    Size = 1
    Grouped = TRUE
    Cutoffs <- NoRetention
    Options <- Plain
    Listings <- PairListing
    ServerSendsLength = TRUE
    DiskMayFail = FALSE
    MaxFaults = 2

SPECIFICATION Spec

PROPERTY SkippedUntilWindowPasses

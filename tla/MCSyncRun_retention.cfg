CONSTANTS
    f1 = f1
    r1 = r1
    f2 = f2
    s1 = s1
    s2 = s2
    g1 = g1
    g2 = g2
    NoRecording = NoRecording
    Recordings <- DaysRecordings
    Shots <- DaysShots
    ShotOf <- DaysShotOf
    DayOf <- DaysDayOf
    Groups <- DaysGroups
    GroupOf <- DaysGroupOf
    Rank <- DaysRank
    Artifacts <- DaysArtifacts
    Size = 2
    Grouped = TRUE
    Cutoffs <- Retention
    Options <- AnyOptions
    Listings <- DaysListings
    ServerSendsLength = FALSE
    DiskMayFail = TRUE
    MaxFaults = 3

SPECIFICATION Spec

INVARIANTS
    RetentionHolds
    PartialIsPrefix

PROPERTIES
    DryRunKeepsFiles
    ArchiveSpec

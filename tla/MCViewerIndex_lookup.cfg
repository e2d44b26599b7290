SPECIFICATION Spec
CONSTANTS
    root = root
    day = day
    v1 = v1
    v2 = v2
    gps1 = gps1
    k1 = k1
    k2 = k2
    Dirs <- TwoDirs
    Root = root
    Rank <- DirRank
    Names <- ThreeNames
    Keys = {k1, k2}
    KeyOf <- KeysOfNames
    Stored <- OneDay
    Sidecars = {gps1}
    TimeOf <- Times
    TypeOf <- Types
    Gap = 2
    Granule = 1
    Skew = 0
    Window = 1
    Requests = {r1}
    Indexes = {i1, i2}
    Nobody = Nobody
    MaxClock = 2
    MaxChanges = 2
    MaxLookups = 3
INVARIANTS TrustedIsTrue FoundIsCurrent GpsIsServed JourneyIsMaximal
CHECK_DEADLOCK FALSE

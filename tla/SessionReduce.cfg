SPECIFICATION FairSpec
CONSTANTS
    Keys = {"a", "b"}
    Inputs <- MCInputs
    Keyed = TRUE
    Timeout = 4
    Lateness = 1
    ChanCap = 2
    MaxFaults = 1
    Losses <- MCLosses
INVARIANTS
    TypeOK
    ResultIsSession
    GcContract
    WatermarkWaitsForSessions
PROPERTIES
    ClosedReleased
    EveryMessageReduced

SPECIFICATION FairSpec
CONSTANTS
    Inputs <- MCInputs
    Kinds = {"fixed", "sliding"}
    Length = 3
    Slide = 2
    Lateness = 1
    ChanCap = 1
    MaxFails = 1
    MaxStops = 1
    Losses <- MCLosses
INVARIANTS
    TypeOK
    ResultComplete
    GcContract
    NoSecondResult
    WatermarkWaitsForWindows
PROPERTY EveryMessageReduced

SPECIFICATION FairSpec
CONSTANTS
    Keys = {"a", "b"}
    Inputs <- MCLostInputs
    Keyed = TRUE
    Timeout = 4
    Lateness = 1
    ChanCap = 2
    MaxFaults = 0
    Losses <- MCLosses
PROPERTY NoMessageLost

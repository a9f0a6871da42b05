SPECIFICATION FairSpec
CONSTANTS
    Offsets = {1, 2}
    BatchSize = 2
    MaxRetries = 1
    Configs <- MCConfigs
    MaxOdd = 1
    MaxFaults = 1
INVARIANTS
    TypeOK
    AckedOnlyIfHandled
    NackHonoured
    EveryHandleHeld
PROPERTIES
    DrainTerminates
    EveryMessageAcked

SPECIFICATION Spec
CONSTANTS
    Offsets = {1, 2}
    BatchSize = 2
    MaxRetries = 1
    Configs <- MCConfigs
    MaxOdd = 1
    MaxFaults = 1
INVARIANT NackHonouredAlways

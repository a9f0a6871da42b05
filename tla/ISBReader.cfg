SPECIFICATION FairSpec
CONSTANTS
    Data = {d1}
    Ctrl = {c1}
    Tasks = {t1, t2, t3}
    NoOffset = NoOffset
    MaxAckPending = 3
    BatchSize = 2
    MaxForks = 1
    MaxStops = 1
INVARIANTS
    TypeOK
    AckedOnlyIfProcessed
    NoConcurrentDuplicate
    DrainedOnShutdown
PROPERTIES
    ShutdownTerminates
    EveryMessageAcked

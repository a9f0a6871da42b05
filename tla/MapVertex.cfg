SPECIFICATION Spec
CONSTANTS
    Data = {d1}
    Tasks = {t1}
    NoOffset = NoOffset
    MaxAckPending = 1
    BatchSize = 1
    MaxStops = 1
    Jobs = {j1}
    NoMsg = NoMsg
    NoTask = NoTask
    NStreams = 1
    Discard = {1}
    Forks = 2
    Fanout <- MCFanout
    RouteOf <- MCRoute
    TagOf <- MCTag
    Concurrency = 1
    DropOnFail = TRUE
INVARIANT EveryReferenceHeld
PROPERTY ImplementsAtLeastOnce

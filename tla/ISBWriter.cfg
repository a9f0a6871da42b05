SPECIFICATION FairSpec
CONSTANTS
    a = a
    b = b
    x = x
    n = n
    Msgs = {a, n}
    NoMsg = NoMsg
    Jobs = {j1}
    NStreams = 2
    Routes <- MCRoutes
    Tag <- MCTag
    Discard = {2}
    MaxCopies = 2
    MaxStops = 1
INVARIANTS
    TypeOK
    SuccessMeansStored
    DuplicatesExplained
PROPERTIES
    WritesEndOnShutdown
    EveryMessageWritten

SPECIFICATION Spec
CONSTANTS
    NMsgs = 2
    Keys = {k1}
    Key <- MCKey
    Et <- MCEt
    MaxTime = 2
    Faults = {"kill", "io"}
    MaxClock = 6
    MaxStops = 1
INVARIANTS
    TypeOK
    ReplayComplete
    ReplayInOrder
PROPERTY RetiredNotReplayed

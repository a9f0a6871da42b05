SPECIFICATION Spec
CONSTANTS
    Capacity = 3
    Procs = {p1, p2}
    Parts = {0}
    Hazards = {"cold", "throttle", "race", "nack", "silent", "stale"}
    MaxIn = 2
    MaxOut = 1
    MaxWm = 1
SYMMETRY SymProcs
PROPERTIES
    WatermarkBelowFloor
    PublishedNeverFalls

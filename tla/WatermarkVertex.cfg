SPECIFICATION Spec
CONSTANTS
    Capacity = 4
    Procs = {p1}
    Parts = {0}
    Hazards = {}
    MaxIn = 3
    MaxOut = 2
    MaxWm = 1
INVARIANT PublishedIsRight

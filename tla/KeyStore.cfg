CONSTANTS
    Procs = {p1, p2, p3}
    Keys = {k1, k2, k3}
    Absent = Absent
    Torn = Torn
    MaxCrashes = 2
SPECIFICATION Spec
INVARIANTS TypeOK Recoverable UsedWasSaved TornIsTransient
SYMMETRY SameProcs
CHECK_DEADLOCK FALSE

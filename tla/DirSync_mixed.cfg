CONSTANTS
    p1 = p1
    p2 = p2
    p3 = p3
    empty = empty
    little = little
    little2 = little2
    big = big
    big2 = big2
    Order <- ThreePaths
    Contents = {empty, little, little2, big, big2}
    Length <- Sizes
    Small = 2
    Absent = Absent
    Hidden = {}
    Modes = {FALSE}
    Locals <- MixedLocals
    Stores <- MixedStores
    Parallel = 2
    Faults = {}
    MaxFaults = 0
SPECIFICATION Spec
INVARIANTS VerifiedIsStored
CHECK_DEADLOCK FALSE

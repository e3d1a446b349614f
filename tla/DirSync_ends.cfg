CONSTANTS
    p1 = p1
    p2 = p2
    p3 = p3
    empty = empty
    little = little
    little2 = little2
    big = big
    big2 = big2
    Order <- ThreePaths
    Contents = {empty, little, little2, big, big2}
    Length <- Sizes
    Small = 2
    Absent = Absent
    Hidden = {p2}
    Modes = {FALSE, TRUE}
    Locals <- MixedLocals
    Stores <- MixedStores
    Parallel = 3
    Faults = {"die", "crash", "vanish", "unsent", "cut", "blind"}
    MaxFaults = 1
SPECIFICATION FairSpec
INVARIANTS NoMutualWait
PROPERTIES DirEnds
CHECK_DEADLOCK FALSE

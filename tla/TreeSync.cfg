CONSTANTS
    c1 = c1
    c2 = c2
    Clients = {c1, c2}
    d = d
    dx = dx
    de = de
    dey = dey
    one = one
    uno = uno
    none = none
    Top = Top
    Absent = Absent
    Dir = Dir
    Contents = {one, uno, none}
    Order <- FourPaths
    Parent <- Parents
    Length <- Sizes
    Nodes <- SameKinds
    Locals <- OneEach
    Stores <- FewStores
    MaxFaults = 1
SPECIFICATION FairSpec
INVARIANTS TypeOK Mirrored PlanIsExact
PROPERTIES SharedStay SharedArrive
CHECK_DEADLOCK FALSE

CONSTANTS
    Sessions = {s1, s2}
    Modes = {FALSE}
    Inodes = {i1, i2, i3, i4, i5, i6, i7}
    a = a
    b = b
    c = c
    d = d
    Block = {a, b, c, d}
    Hole = Hole
    NoInode = NoInode
    Versions <- TwoBlocks
    Bases <- Older
    MaxFaults = 1
SPECIFICATION Spec
INVARIANTS BranchesAgree NoAlias
PROPERTIES FileStays
SYMMETRY SameSessions

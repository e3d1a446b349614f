CONSTANTS
    Sessions = {s1}
    Modes = {FALSE}
    Inodes = {i1, i2, i3, i4}
    a = a
    b = b
    c = c
    d = d
    Block = {a, b, c, d}
    Hole = Hole
    NoInode = NoInode
    Versions <- Edited
    Bases <- Nothing
    MaxFaults = 2
SPECIFICATION Spec
INVARIANTS SuccessIsFaithful

CONSTANTS
    Sessions = {s1}
    Modes = {FALSE}
    Inodes = {i1, i2, i3, i4}
    a = a
    b = b
    c = c
    d = d
    Block = {a, b, c, d}
    Hole = Hole
    NoInode = NoInode
    Versions <- ThreeBlocks
    Bases <- OlderThree
    MaxFaults = 4
SPECIFICATION FairSpec
INVARIANTS TypeOK SuccessIsFaithful PartIsPrefix
PROPERTIES LooksAtomic RetriesSucceed

CONSTANTS
    Sessions = {s1}
    Modes = {TRUE, FALSE}
    Inodes = {i1, i2, i3, i4, i5}
    a = a
    b = b
    c = c
    d = d
    Block = {a, b, c, d}
    Hole = Hole
    NoInode = NoInode
    Versions <- Shrunk
    Bases <- Older
    MaxFaults = 3
SPECIFICATION FairStorageSpec
INVARIANTS FreshSuccessIsFaithful
PROPERTIES EverySyncEnds EveryTaskEnds OnlyStalePartsBlock

CONSTANTS
    MaxFile = 7
    MinSize = 1
    MaxSize = 3
    ReadSize = 4
    Files <- SmallFiles
SPECIFICATION FairSpec
INVARIANTS Tiles ContentDefined SizesInBounds
PROPERTIES Ends
CHECK_DEADLOCK FALSE

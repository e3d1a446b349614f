CONSTANTS
    Byte = {1, 2}
    Octet = {1, 2}
    BufferSize = 2
    MaxOld = 4
    MaxNew = 4
    Olds <- SmallOlds
    News <- SmallNews
    MaxChunk = 2
    MaxLiteral = 3
    MinMerge = 3
SPECIFICATION RoundTripSpec
INVARIANTS TypeOK Recreated PrefixApplied LiteralsBounded EqualIsEqual DifferIsReal RecreatedVerifies
CHECK_DEADLOCK FALSE

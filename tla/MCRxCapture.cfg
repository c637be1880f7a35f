CONSTANTS
    a = a
    b = b
    RF = {a, b}
    Chunk = 3
    NumChunks = 3
    Lengths = {0, 4, 9}
    ReadChunks = {1}
    MaxCaptures = 2
    MaxChanges = 1
    MaxLag = 1
SPECIFICATION FairSpec
INVARIANTS
    TypeOK
    Delivered
    OffsetsReset
    ReadOffsetReflectsCopy
    ReadPastThreshold
PROPERTIES
    CaptureEnds
CHECK_DEADLOCK FALSE

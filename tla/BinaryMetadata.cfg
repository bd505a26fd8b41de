\* One entry, whose value may have a zero byte.
CONSTANTS
    GroupBits = 2
    WordBits = 9
    MaxShift = 8
    MaxBytes = 5
    Keys <- MCKeys
    Values <- MCValues
    InitialCapacities = {0}
    DefaultCapacity = 1
    MaxEntries = 1
    BufferSizes = {40}
SPECIFICATION MetadataSpec
INVARIANT BinaryValuesSurvive
\* The receiver's array is destroyed at the end.
CHECK_DEADLOCK FALSE

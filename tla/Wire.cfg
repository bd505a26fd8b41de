\* Two streams and windows of 8 octets, held in 5-bit integers so that sends
\* and updates wrap around; received data of every length at an edge of the
\* window or of its threshold.  Messages and buffers around the 16 values of a
\* uInt.
CONSTANTS
    GroupBits = 2
    WordBits = 9
    MaxShift = 8
    MaxBytes = 5
    Rooms = {0, 1, 3, 6}
    MaxGroups = 6
    Keys <- MCKeys
    Values <- MCValues
    InitialCapacities = {0, 2}
    DefaultCapacity = 1
    MaxEntries = 2
    BufferSizes = {15, 40}
    Lengths = {0, 1, 7, 8, 9, 15, 16, 17}
    PackedLengths = {1, 2, 3, 4, 5, 17}
    UIntMod = 16
    MaxBuffer = 80
    Writers = {w1, w2}
    Nobody = Nobody
    Radix = 4
    LengthOctets = 2
    IdOctets = 2
    FrameSet <- MCFrames
    MaxFrames = 3
    Protocols <- MCProtocols
    MaxOffered = 3
    Streams = {s1, s2}
    NoStream = NoStream
    WindowSize = 8
    IntMax = 15
    Sizes = {3, 8}
    Increments = {0, 15, 17}
    MaxUpdates = 2
    MaxSends = 2
    DataLengths <- EdgeLengths
SPECIFICATION WireSpec
INVARIANTS
    IntegersExact
    DecodedAsSent
    BlocksAccounted
    MessageSurvives
    FramesIntact
    SslObjectsAccounted
    AlpnAgrees
    ConnWindowExact
    NoUpdateOfFreedStream
    CreditRespectedUnlessOverlap
    WindowsReplenished
PROPERTIES
    DecompressReturns
    ConsumeBlockedOnlyByUpdate
\* What is sent, decoded or shut down ends, and so does a thread that locks
\* write_mutex twice.
CHECK_DEADLOCK FALSE

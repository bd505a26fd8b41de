\* One stream that receives 5 octets of a window of 8: the window falls below
\* its threshold.
CONSTANTS
    Streams = {s1}
    NoStream = NoStream
    WindowSize = 8
    DataLengths = {5}
SPECIFICATION RecvFairSpec
PROPERTY ConsumeReturns
\* The thread that locks the mutex twice stops, and the behaviour with it.
CHECK_DEADLOCK FALSE

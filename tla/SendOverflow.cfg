\* A WINDOW_UPDATE that takes the connection's window past its maximum.
CONSTANTS
    Streams = {s1}
    NoStream = NoStream
    WindowSize = 3
    IntMax = 7
    Sizes = {1}
    Increments = {7}
    MaxUpdates = 1
    MaxSends = 1
SPECIFICATION SendSpec
PROPERTY OverflowReported
\* The bounds on sends and updates end every behaviour.
CHECK_DEADLOCK FALSE

\* Names of one and two characters.
CONSTANTS
    Names <- MCNames
    Dot = "."
    Slash = "/"
    NULL = NULL
SPECIFICATION FullNameSpec
INVARIANT MethodNameComplete

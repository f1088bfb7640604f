SPECIFICATION StartSpec
CONSTANTS
    BITS_PER_BYTE = 3
    MAX_PAWNS = 8
    IdxRange = 8
    NaN = NaN
    Arguments <- WithNan
    MaxArguments = 5
CHECK_DEADLOCK FALSE
INVARIANT TimeoutInRange

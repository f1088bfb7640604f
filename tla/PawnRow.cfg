SPECIFICATION BoardSpec
CONSTANTS
    BITS_PER_BYTE = 3
    MAX_PAWNS = 8
    IdxRange = 8
CHECK_DEADLOCK FALSE
INVARIANT LegalIsShown
INVARIANT UnusedBitsAreZero
PROPERTY ClientShowsTheBoard

SPECIFICATION Spec
CONSTANTS
    IdxRange = 4
    MaxPawn = 2
    InitialRow <- ThreePawnRow
    UINT32_MAX = 2
    Timeout = 2
    IdleCap = 3
    StartUptimes <- AnyUptime
    Datagrams <- TableDatagrams
    Faults <- AllFaults
CHECK_DEADLOCK FALSE
INVARIANT TypeOK
INVARIANT SeatsMatchStatus
INVARIANT EmptyBoardIsWon
PROPERTY RequestContract
PROPERTY ImplementsRules

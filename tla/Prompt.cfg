SPECIFICATION PromptSpec
CONSTANTS
    IdxRange = 4
    MaxPawn = 3
    InitialRow <- FourPawnRow
    UINT32_MAX = 3
    Timeout = 1
    IdleCap = 3
    StartUptimes <- AfterBoot
    Datagrams <- PlayDatagrams
    Faults <- NoFaults
CHECK_DEADLOCK FALSE
INVARIANT StaleSessionsEndInTime

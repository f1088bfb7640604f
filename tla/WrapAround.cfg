SPECIFICATION Spec
CONSTANTS
    IdxRange = 4
    MaxPawn = 3
    InitialRow <- FourPawnRow
    UINT32_MAX = 2
    Timeout = 1
    IdleCap = 2
    StartUptimes <- AfterBoot
    Datagrams <- TableDatagrams
    Faults <- NoFaults
PROPERTY MoveTwoTakesNeighbours

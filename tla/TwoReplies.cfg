SPECIFICATION Spec
CONSTANTS
    IdxRange = 3
    MaxPawn = 1
    InitialRow <- TwoPawnRow
    UINT32_MAX = 2
    Timeout = 1
    IdleCap = 2
    StartUptimes <- AfterBoot
    Datagrams <- TableDatagrams
    Faults <- NoFaults
INVARIANT OneReplyPerRequest

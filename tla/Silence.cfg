SPECIFICATION SilenceSpec
CONSTANTS
    IdxRange = 3
    MaxPawn = 0
    InitialRow <- OnePawnRow
    UINT32_MAX = 2
    Timeout = 1
    IdleCap = 2
    StartUptimes <- AfterBoot
    Datagrams <- SoloDatagrams
    Faults = {}
PROPERTY OnlySilentSessionsEnd

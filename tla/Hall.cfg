SPECIFICATION FairSpec
CONSTANTS
    IdxRange = 3
    MaxPawn = 1
    InitialRow <- TwoPawnRow
    UINT32_MAX = 3
    Timeout = 1
    IdleCap = 2
    StartUptimes <- AfterBoot
    Datagrams <- HallDatagrams
    Faults <- AllocFaults
INVARIANT AtMostOneWaiting
INVARIANT TornGamesAreNeverServed
PROPERTY OnlyTheMoverActs
PROPERTY NoLiveSessionIsDropped
PROPERTY NewIdIsNotTheLastOne
PROPERTY SilentSessionsEnd
PROPERTY EveryRequestIsHandled

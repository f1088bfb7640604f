SPECIFICATION SystemSpec
CONSTANTS
    IdxRange = 6
    MaxPawn = 1
    InitialRow <- TwoPawnRow
    UINT32_MAX = 1295
    Timeout = 1
    IdleCap = 2
    StartUptimes <- AfterBoot
    Datagrams <- SentDatagrams
    Faults <- NoFaults
    Clients = {c1, c2, c3}
    Typed <- TypedMessages
    MaxDeliveries = 4
SYMMETRY SameProgram
INVARIANT PrintsWhatWasAsked
INVARIANT ViewsAgree
PROPERTY RequestsActOnce

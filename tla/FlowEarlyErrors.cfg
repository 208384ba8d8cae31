SPECIFICATION Spec
CONSTANTS
    Credits = 4
    InterfaceWords = 1
    HeartbeatNumbers = 32
    ReadyRX = 6
    ReadyTX = 8
    CCCycles = 1
    CreditDepth = 4
    RxDepth = 1
    LinkBound = 2
    MaxWords <- OneWordEach
    Troubles <- BothTroubles
INVARIANTS NothingIgnored

SPECIFICATION Spec
CONSTANTS
    Credits = 4
    InterfaceWords = 2
    HeartbeatNumbers = 4
    ReadyRX = 0
    ReadyTX = 1
    CCCycles = 0
    CreditDepth = 4
    RxDepth = 1
    LinkBound = 2
    MaxWords <- BothWays
    Troubles <- NoTrouble
VIEW LiveCounters
INVARIANTS AlwaysReceives NoCreditUnderflow WordsIntact CreditsComeBack

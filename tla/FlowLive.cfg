SPECIFICATION LiveSpec
CONSTANTS
    Credits = 4
    InterfaceWords = 1
    HeartbeatNumbers = 6
    ReadyRX = 0
    ReadyTX = 1
    CCCycles = 0
    CreditDepth = 4
    RxDepth = 1
    LinkBound = 1
    MaxWords <- OneWay
    Troubles <- NoTrouble
PROPERTIES WordsArrive

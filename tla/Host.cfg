CONSTANTS
    ChunkBytes = 2
    MaxMsgBytes = 6
    Channels = 2
    Services = 2
    Methods = 2
    LengthValues = 4
    Lengths = {1, 2, 5, 6}
    Pieces = {1, 2, 4}
    MaxMessages = 2
    PipeChunk = 3
    HostWrites = {1, 2}
    MaxHost = 12
    MaxSim = 4
    PipeSize = 5
    Retries = 2
    Files <- MCFiles
    Names <- MCNames
    DICTMINSZ = 2
    MaxEntries = 3
    NULL = NULL
    Blank = 0
    XilinxChars = {1}
    XilinxBytes = 2
    AlteraChars = {1, 2}
    AlteraBytes = 3
    MaxRetry = 1
    Empty = 0
    Depth = 1
    PioMod = 3
    MaxSent = 2
    MaxTries = 1
    IIDs = 3
    CsrMod = 4
    Counts = {0, 2}
    DramSteps = 2
    MaxInst = 4
    MaxReset = 1
    NocChunk = 3
    TestBytes = 7
    ReqBeats = 8
    MsgBeats = 3
    MaxCalls = 3
SPECIFICATION HostSpec
INVARIANTS MessagesIntact StreamsIntact LoadedAsWritten
PROPERTIES ImplementsMap BothSidesEnd
CHECK_DEADLOCK FALSE

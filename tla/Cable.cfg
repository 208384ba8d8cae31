CONSTANTS
    Values = {0, 1, 2}
    Pins <- MCPins
    MaxBatch = 3
    BufSize = 5
    Threads = {t1, t2}
    Streams = {f1, f2}
    Ports = {0, 1}
    Fds = {d1, d2}
    None = None
    BusDevices <- MCDevices
    Tables <- MCTables
    Firmwares <- MCFirmwares
    Loader <- MCLoader
    ChipRegions <- MCRegions
    HexBufSize = 4
    MemSize = 16
    RETRY_LIMIT = 2
    Types = {"bulk", "interrupt", "iso"}
    UsbSizes = {0, 3, 5}
    MAX_ALLOC_SIZE = 4
    UsbPage = 2
    PacketSize = 2
    MAX_PACKETS = 2
    InfoDevices <- MCUdevs
    DescriptorSizes <- MCSizeOf
    Numbers = {1, 2, 3}
    Irqs = {1, 2}
    Ctxs = {1, 2}
    MaxWrappers = 2
    KernelPage = 3
    DmaAddresses = {0, 1, 2, 5}
    DmaSizes = {1, 3, 4, 7}
    MapBuffers = {0, 1}
    Seconds = {1, 2}
    Files = {"f1"}
    PortRegions = {"r1", "r2"}
    Stopped = 6
    SemKinds = {"mutex", "event", "semaphore"}
    MaxSem = 2
    MaxSets = 4
    ServPage = 2
    Frames = 4
    ServSizes = {1, 2, 3, 5}
    High = 4
    Top = 5
SPECIFICATION CableSpec
INVARIANTS ReadsMatch BuffersBounded ReleasedWithOwner WaitsUntilDisabled
           ResetInFive LoadedWhenDone
PROPERTIES RunningCodeIntact WaitsAndLoadsEnd
CHECK_DEADLOCK FALSE

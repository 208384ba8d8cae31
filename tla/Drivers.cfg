CONSTANTS
    Procs = {p1, p2}
    Slots = 2
    PageSize = 2
    Buffers <- MCBuffers
    Nobody = Nobody
    MaySignal = TRUE
    MayReset = TRUE
    Devices = {d1, d2, d3}
    NumBoards = 2
    Free = Free
    MaxChunks = 2
    NumSlots = 3
    Openers = {p1}
SPECIFICATION DriversSpec
INVARIANTS SlotsNeverOvercommitted PagesPinned CompletionIsOwn
           ResourcesMatchState FilesLeadToTheirDevices TransfersAwaited
PROPERTIES DirtyExact CallsReturn
CHECK_DEADLOCK FALSE

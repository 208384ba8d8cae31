SPECIFICATION Spec
CONSTANTS
    FrameSize = 2
    MaxFrames = 2
    SequenceNumbers = 8
    AckDepth = 1
    CCCycles = 1
    RxDepth = 1
    LinkBound = 1
    MaxWords = 18
VIEW LiveRegisters
INVARIANTS ExactlyOnceInOrder NoEarlyRelease SenderInStep HeaderTestExact
           ChainFindsPosition IInv
PROPERTIES ImplementsStream

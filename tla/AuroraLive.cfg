SPECIFICATION LiveSpec
CONSTANTS
    FrameSize = 2
    MaxFrames = 2
    SequenceNumbers = 8
    AckDepth = 1
    CCCycles = 0
    RxDepth = 1
    LinkBound = 1
    MaxWords = 3
PROPERTIES WordsArrive FramesReleased

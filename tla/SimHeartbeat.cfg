SPECIFICATION Spec
CONSTANTS
    HeartbeatPeriod = 2048
    AdjustPeriod = 256
    AdjustCycles = 32
    CCCycles = 1023
PROPERTIES HeartbeatSent

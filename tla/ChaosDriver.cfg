SPECIFICATION FairChaosSpec
CONSTANTS
    Modes <- MCModes
    Loops <- MCLoops
    DeviceFails = TRUE
    MaxCount = 3
INVARIANTS
    DeviceOfMode
    EndDisconnects
PROPERTIES
    LoopsServed
    AcquireEnds
CHECK_DEADLOCK FALSE

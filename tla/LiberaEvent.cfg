CONSTANTS
    rw = rw
    wo = wo
    ro = ro
    rn = rn
    NULL = NULL
    Files <- MCFiles
    Modes <- MCModes
    NonBlock = {rn}
    Kinds = {"CFG"}
    TRIG_LOG = 4
    Triggers = {"t1", "t2"}
    MaxRead = 2
    Worlds <- MCWorlds
SPECIFICATION Spec
INVARIANTS
    TriggersOwned
    QueueHasMaster
PROPERTIES
    ReadInOrder

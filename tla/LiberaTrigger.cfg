CONSTANTS
    NULL = NULL
    P = 4
    Phase = 1
    D = 3
    Delay = 6
    LOG = 2
    Refs = {20}
    Worlds <- MCWorlds
SPECIFICATION Spec
INVARIANTS
    StampsExact
    SpacedTriggersExact
    SAStartsAgain
CHECK_DEADLOCK FALSE

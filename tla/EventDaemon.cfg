CONSTANTS
    Procs <- OneProc
    NULL = NULL
    Kinds <- TwoKinds
    INIT_MASK <- Initial
    Masks <- SomeMasks
    MaxId <- Two
    Busy <- OneProc
    REQ_ROOM = 1
    Mortal <- OneProc
    Faulty <- OneProc
    Signals = TRUE
    MaxStarts = 1
    p1 = p1
    pm = pm
    sa = sa
SPECIFICATION FairSpec
INVARIANTS
    MaskCoversListeners
    WalkOnListeners
    JoinedIsListed
PROPERTIES
    RegistrationReturns
    GhostsRemoved
CHECK_DEADLOCK FALSE

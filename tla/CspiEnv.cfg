CONSTANTS
    Callers <- TwoThreads
    Conns <- ThreeCons
    Fds <- Descriptors
    MaxCons = 3
    DeviceFails = TRUE
    FreesConsFirst = FALSE
    Active <- OneCon
    NIL = NIL
    t1 = t1
    t2 = t2
    c1 = c1
    c2 = c2
    c3 = c3
    fd1 = fd1
    fd2 = fd2
SPECIFICATION FairSpec
INVARIANTS
    EnvironmentConsistent
    HandleHasDevice
PROPERTY CallReturns
CHECK_DEADLOCK FALSE

CONSTANTS
    LIBERA_SA_MAX_READERS = 1
    Files <- OneFile
    Threads <- TwoThreads
    SaLocals <- OneLocal
    SA_LOG = 2
    SA_FIFO_DEPTH = 2
    AtomIds = 1
    NonBlocking <- NoFile
    IrqsPerTasklet = 1
    MaxCount = 1
    Signalled <- OneThread
    NULL = NULL
    NoAtom = NoAtom
    f1 = f1
    f2 = f2
    t1 = t1
    t2 = t2
    a1 = a1
    a2 = a2
    Overruns = TRUE
    f3 = f3
    a3 = a3
SPECIFICATION FairSpec
INVARIANTS
    NoLostWakeup
    CountedAtomsPresent
    OverrunRemembered
PROPERTIES
    ReadReturns

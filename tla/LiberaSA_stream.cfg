CONSTANTS
    LIBERA_SA_MAX_READERS = 1
    Files <- OneFile
    Threads <- OneThread
    SaLocals <- OneLocal
    SA_LOG = 4
    SA_FIFO_DEPTH = 3
    AtomIds = 2
    NonBlocking <- NoFile
    IrqsPerTasklet = 0
    MaxCount = 2
    Signalled <- NoThread
    NULL = NULL
    NoAtom = NoAtom
    f1 = f1
    f2 = f2
    t1 = t1
    t2 = t2
    a1 = a1
    a2 = a2
    Overruns = FALSE
    f3 = f3
    a3 = a3
SPECIFICATION Spec
PROPERTIES
    ImplementsStream

CONSTANTS
    LIBERA_SA_MAX_READERS = 2
    Files <- ThreeFiles
    Threads <- OneThread
    SaLocals <- ThreeLocals
    SA_LOG = 2
    SA_FIFO_DEPTH = 2
    AtomIds = 1
    NonBlocking <- ThirdFile
    IrqsPerTasklet = 0
    MaxCount = 1
    Signalled <- NoThread
    NULL = NULL
    NoAtom = NoAtom
    f1 = f1
    f2 = f2
    t1 = t1
    t2 = t2
    a1 = a1
    a2 = a2
    Overruns = FALSE
    f3 = f3
    a3 = a3
SYMMETRY FileSymmetry
SPECIFICATION Spec
INVARIANTS
    RegistryConsistent
    NoDanglingPipe
    ReaderPipeLives
PROPERTIES
    ImplementsStream

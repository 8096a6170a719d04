CONSTANTS
    w1 = w1
    w2 = w2
    w3 = w3
    rp = rp
    dscd = dscd
    fa1 = fa1
    fa2 = fa2
    dsc1 = dsc1
    dsc2 = dsc2
    tw1 = tw1
    tw2 = tw2
    tw3 = tw3
    tw4 = tw4
    tr1 = tr1
    tr2 = tr2
    NULL = NULL
    Files <- MCFiles
    DevOf <- MCDevOf
    Modes <- MCModes
    Words = {1, 2}
    ilkdur = 5
    pmdur = 5
    Threads <- MCThreads
    ProcOf <- MCProcOf
    Requests <- MCRequests
    Readers <- MCReaders
    Listening <- MCListening
    Offsets = {0, 10}
    BlockFiles <- MCBlockFiles
    Counts = {4, 6, 8, 12}
    g_decimation = 2
    Worlds <- MCWorlds
SYMMETRY ReaderSymmetry
SPECIFICATION Spec
INVARIANTS
    OffsetsAdd
    AtomsOfOneRequest
    CacheFresh
    ReadDelivers

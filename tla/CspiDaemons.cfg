CONSTANTS
    p = p
    q = q
    t1 = t1
    t2 = t2
    t3 = t3
    t4 = t4
    NULL = NULL
    Threads <- MCThreads
    ProcOf <- MCProcOf
    Writers = {p}
    Calls <- MCCalls
    Worlds <- MCWorlds
    PartSize <- MCPartSize
    Tries = 1
    DscdRoom = 1
    Commands = 1
    Reports = 2
SPECIFICATION FairSpec
INVARIANTS
    AnswerIsMine
    StatusIsMine
PROPERTIES
    DaemonCallReturns

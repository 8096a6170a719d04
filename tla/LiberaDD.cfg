CONSTANTS
    r1 = r1
    r2 = r2
    pm = pm
    NULL = NULL
    Readers = {r1, r2}
    Acquirer = pm
    d = 4
    LSC = 5
    FLMC = 4
    CIRCBUF = 6
    SAFE = 4
    MARGIN = 1
    INADVANCE = 2
    BLOCK = 2
    FIFO = 4
    OB = 3
    DEC = 2
    TRIG_LOG = 3
    pmsize = 3
    PMDEC = 2
    PMOFFSET <- MCPMOffset
    Worlds <- MCWorlds
SPECIFICATION Spec
INVARIANTS
    GetsItsAtoms
    DDIrqComes
CHECK_DEADLOCK FALSE

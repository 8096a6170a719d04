CONSTANTS
    Getters <- TwoGetters
    Waiters <- OneWaiter
    Signalled <- OneGetter
    FIFO_ROOM = 2
    MaxTriggers = 2
    NULL = NULL
    g1 = g1
    g2 = g2
    w1 = w1
SPECIFICATION FairSpec
INVARIANTS
    CtimePairMatches
    TriggerWakesWaiter
PROPERTY IoctlReturns

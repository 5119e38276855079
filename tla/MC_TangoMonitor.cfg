CONSTANTS
    t1 = t1
    t2 = t2
    t3 = t3
    m1 = m1
    m2 = m2
    NoThread = NoThread
    Threads <- MCThreads
    Monitors <- MCMonitors
    MaxDepth = 2
SPECIFICATION FairSpec
INVARIANT TypeOK
INVARIANT Ownership
INVARIANT NoLostWakeUp
PROPERTY CircularWaitBroken

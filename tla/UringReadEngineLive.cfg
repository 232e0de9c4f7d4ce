\* Three readers on one ring, with the fairness of the kernel and the scheduler.
CONSTANTS
    NoThread = NoThread
    t1 = t1
    t2 = t2
    t3 = t3
    Threads <- ThreeThreads
    PoolSize = 1
    MaxReads = 3
SPECIFICATION FairUringSpec
PROPERTIES
    ReadEnds

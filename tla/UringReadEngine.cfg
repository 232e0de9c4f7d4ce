\* Three readers on two rings, a new engine at any time.
CONSTANTS
    NoThread = NoThread
    t1 = t1
    t2 = t2
    t3 = t3
    Threads <- ThreeThreads
    PoolSize = 2
    MaxReads = 3
SPECIFICATION UringSpec
SYMMETRY ThreadSymmetry
INVARIANTS
    BufferQuiet
    PoolSound

\* Three threads on one key, fairly scheduled.
CONSTANTS
    NoThread = NoThread
    t1 = t1
    t2 = t2
    t3 = t3
    Threads <- ThreeThreads
    Destroyers <- OneDestroyer
    MaxKey = 1
    Sizes = {1}
    SpaceLimit = 1
    MinAvailable = 1
    DeviceSize = 2
    UseDirectIo = TRUE
SPECIFICATION FairSpec
PROPERTIES
    RemovalSettles
    DestroyEnds

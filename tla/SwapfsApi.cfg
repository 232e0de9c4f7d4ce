\* Three threads that create, use and destroy one handle over and over.
CONSTANTS
    NoThread = NoThread
    t1 = t1
    t2 = t2
    t3 = t3
    Threads <- AllThreads
    Destroyers <- AllThreads
    MaxKey = 2
    Sizes = {1}
    SpaceLimit = 2
    MinAvailable = 1
    DeviceSize = 3
    UseDirectIo = TRUE
SPECIFICATION ApiSpec
SYMMETRY ThreadSymmetry
INVARIANTS
    HandleSafe
    DestroyUndisturbed

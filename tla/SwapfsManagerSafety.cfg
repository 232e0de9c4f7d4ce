\* Three threads on two keys: deferred removal, RemoveAllData, Destroy.
CONSTANTS
    NoThread = NoThread
    t1 = t1
    t2 = t2
    t3 = t3
    Threads <- ThreeThreads
    Destroyers <- OneDestroyer
    MaxKey = 2
    Sizes = {1}
    SpaceLimit = 2
    MinAvailable = 1
    DeviceSize = 4
    UseDirectIo = FALSE
SPECIFICATION Spec
SYMMETRY ThreadSymmetry
INVARIANTS
    TypeOK
    ReadersKeepFile
    RemovingIsOwned
    SessionOutlivesOps
    QuiescentConsistent
PROPERTIES
    ImplementsStore

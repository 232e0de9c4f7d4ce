\* Two threads, three keys of two sizes, room for two bytes: a quota of two, or a
\* device of four that must keep two.
CONSTANTS
    NoThread = NoThread
    t1 = t1
    t2 = t2
    Threads <- TwoThreads
    Destroyers <- OneDestroyer
    MaxKey = 3
    Sizes = {1, 2}
    SpaceLimit = 2
    MinAvailable = 2
    DeviceSize = 4
    UseDirectIo = FALSE
SPECIFICATION SpaceSpec
INVARIANTS
    AccountsMatch
    LimitsKept

\* Three processes, two sessions created, any process dying at any point.
CONSTANTS
    NoProc = NoProc
    Procs = {p1, p2, p3}
    MaxSession = 2
SPECIFICATION SessionSpec
INVARIANTS
    LiveSessionIntact
    GarbageCollectable

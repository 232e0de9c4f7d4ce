\* Atomic files: three temporaries, so that two writes and a failed one meet in
\* one history.  Three descriptors and three mappings at a time; a file is two
\* bytes long and a buffer two, so that reads end short; a page has two bytes.
CONSTANTS
    Bindings = {"napi", "core"}
    MaxTemps = 3
    MaxChunks = 3
    MaxCrashes = 1
    FileNames = {"f", "g"}
    MaxFd = 3
    BufLen = 2
    Page = 2
    Places = 3
    MapBuf = 2
    MapPrograms <- MCMapPrograms
SPECIFICATION ScenesSpec
INVARIANTS
    AtomicFileSafe
    HandlesSafe
    MappingsSafe
    ObjectsAgree
PROPERTIES
    TransfersRight
CHECK_DEADLOCK FALSE

\* Every binding on small trees: single operations and whole directories,
\* one failure of the system, two devices, calls that overlap.
SPECIFICATION Spec
CONSTANTS
    Names = {1, 2}
    Mounts <- OtherDevice
    Programs <- ProgramTable
    Cloud <- b
INVARIANTS
    InterfacesAgree
    NothingDangling
PROPERTIES
    AnswersHold
    NothingLost
    ConflictsAreRest
CHECK_DEADLOCK FALSE

\* Watchers on one file and on two, alone and beginning anew; copies of a file and
\* of a directory with and without faults; remote copies with every answer.
CONSTANTS
    Files = {"d", "f"}
    Dirs = {"d"}
    MaxFd = 3
    AllEvents = {"a", "b"}
    Watch <- MCWatch
    Plans <- MCPlans
    MaxPollers = 2
    CopyFiles = {"f", "root", "d", "a", "b"}
    CopyDirs = {"root", "d"}
    DirSize = 9
    CopyJobs <- MCJobs
    RemoteCalls <- MCCalls
    MaxProgress = 2
SPECIFICATION ScenesSpec
CHECK_DEADLOCK FALSE
INVARIANTS
    WatchersServed
    NotifyFdsSafe
    CopiesLeaveNothing
    
PROPERTIES
    EventsDelivered
    CopiesReturn

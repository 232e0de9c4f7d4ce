--------------------------- MODULE SwapfsSession ---------------------------
(***************************************************************************)
(* The session directories under one swap root, shared by all processes    *)
(* that use swapfs (PrepareSession and RemoveSessionDir of SwapfsManager,  *)
(* SwapfsSessionCleaner).  A starting manager takes cleanup.lock, deletes  *)
(* the sessions of dead processes, and creates its own as .creating-*,     *)
(* which it renames to session-* once session.lock is held.  A process may *)
(* die between any two system calls; the kernel then drops its flocks and  *)
(* everything on disk stays.  A system call is one step.                   *)
(*                                                                         *)
(* Names carry a random part: a session's name is never used again.        *)
(***************************************************************************)
EXTENDS Naturals

CONSTANTS
    Procs,          \* the processes
    NoProc,         \* nobody
    MaxSession      \* bound: sessions created

ASSUME SessionConstants == NoProc \notin Procs /\ MaxSession \in Nat

Sessions == 1 .. MaxSession
NoSession == 0

VARIABLES
    name,           \* name[s]: none, creating (.creating-*), session (session-*)
    marker,         \* s has its .swapfs-session file
    lockFile,       \* s has its session.lock file
    flock,          \* the process that holds the flock on session.lock
    data,           \* the data directory of s: none, empty, full
    cleanupLock,    \* the process that holds cleanup.lock
    nextSession,    \* the next session to be created
    pc,             \* where each process is
    mine,           \* sessionPath_: the session of the process
    todo,           \* the directories its scan has yet to look at
    cur, left, removed,     \* the tree it deletes, what it has yet to see of it,
                            \* and whether all it saw is gone
    job             \* what it deletes the tree for

onDisk  == <<name, marker, lockFile, data>>
removal == <<cur, left, removed, job>>
sVars   == <<onDisk, flock, cleanupLock, nextSession, pc, mine, todo, removal>>

SessionInit ==
    /\ name = [s \in Sessions |-> "none"]
    /\ marker = [s \in Sessions |-> FALSE]
    /\ lockFile = [s \in Sessions |-> FALSE]
    /\ flock = [s \in Sessions |-> NoProc]
    /\ data = [s \in Sessions |-> "none"]
    /\ cleanupLock = NoProc
    /\ nextSession = 1
    /\ pc = [p \in Procs |-> "idle"]
    /\ mine = [p \in Procs |-> NoSession]
    /\ todo = [p \in Procs |-> {}]
    /\ cur = [p \in Procs |-> NoSession]
    /\ left = [p \in Procs |-> {}]
    /\ removed = [p \in Procs |-> TRUE]
    /\ job = [p \in Procs |-> "none"]

Goto(p, from, to) == pc[p] = from /\ pc' = [pc EXCEPT ![p] = to]

\* What RemoveTreeContentsAt finds in s besides the marker.
EntriesOf(s) ==
    {e \in {"lock", "data"} : \/ e = "lock" /\ lockFile[s]
                              \/ e = "data" /\ data[s] # "none"}

\* The process begins to delete s.
BeginRemoval(p, s, why) ==
    /\ cur' = [cur EXCEPT ![p] = s]
    /\ left' = [left EXCEPT ![p] = EntriesOf(s)]
    /\ removed' = [removed EXCEPT ![p] = TRUE]
    /\ job' = [job EXCEPT ![p] = why]

-----------------------------------------------------------------------------
(* Deleting a tree: RemoveEntryAt, RemoveTreeContentsAt, RemoveSessionTree *)

\* An entry is deleted, or it could not be (a data directory perhaps after some
\* of its files), or somebody else deleted it since: then readdir passes over it
\* or fstatat fails.
RemoveEntry(p, e) ==
    LET s == cur[p] IN
    /\ e \in left[p]
    /\ Goto(p, "remove", "remove")
    /\ left' = [left EXCEPT ![p] = @ \ {e}]
    /\ \/ /\ e \in EntriesOf(s)
          /\ lockFile' = [lockFile EXCEPT ![s] = @ /\ e # "lock"]
          /\ data' = [data EXCEPT ![s] = IF e = "data" THEN "none" ELSE @]
          /\ UNCHANGED removed
       \/ /\ removed' = [removed EXCEPT ![p] = FALSE]
          /\ data' \in {data, [data EXCEPT ![s] =
                                IF e = "data" /\ @ = "full" THEN "empty" ELSE @]}
          /\ UNCHANGED lockFile
       \/ e \notin EntriesOf(s) /\ UNCHANGED <<lockFile, data, removed>>
    /\ UNCHANGED <<name, marker, flock, cleanupLock, nextSession, mine, todo, cur, job>>

\* The marker goes last, and only when nothing else is left.
UnlinkMarkerAnyway(p) ==
    LET s == cur[p] IN
    /\ pc[p] = "remove" /\ left[p] = {}
    /\ \/ Goto(p, "remove", "rmdir") /\ marker' = [marker EXCEPT ![s] = FALSE]
       \/ Goto(p, "remove", "removed") /\ UNCHANGED marker
    /\ UNCHANGED <<name, lockFile, data, flock, cleanupLock, nextSession, mine,
                   todo, removal>>

UnlinkMarker(p) ==
    LET s == cur[p] IN
    /\ pc[p] = "remove" /\ left[p] = {}
    /\ \/ /\ removed[p]
          /\ Goto(p, "remove", "rmdir")
          /\ marker' = [marker EXCEPT ![s] = FALSE]
       \/ Goto(p, "remove", "removed") /\ UNCHANGED marker
    /\ UNCHANGED <<name, lockFile, data, flock, cleanupLock, nextSession, mine,
                   todo, removal>>

Rmdir(p) ==
    LET s == cur[p] IN
    /\ Goto(p, "rmdir", "removed")
    /\ \/ /\ EntriesOf(s) = {} /\ ~marker[s]
          /\ name' = [name EXCEPT ![s] = "none"]
       \/ UNCHANGED name
    /\ UNCHANGED <<marker, lockFile, data, flock, cleanupLock, nextSession, mine,
                   todo, removal>>

\* Whatever came of it, the caller goes on: the cleaner closes its descriptor of
\* session.lock, CreateSessionLocked gives up, Destroy drops its session's lock.
EndRemoval(p) ==
    LET s == cur[p]
        release == [flock EXCEPT ![s] = IF @ = p THEN NoProc ELSE @]
    IN  /\ pc[p] = "removed"
        /\ \/ /\ job[p] = "clean"
              /\ Goto(p, "removed", "scan")
              /\ flock' = release
              /\ UNCHANGED <<cleanupLock, mine>>
           \/ /\ job[p] = "rollback"
              /\ Goto(p, "removed", "idle")
              /\ cleanupLock' = NoProc
              /\ mine' = [mine EXCEPT ![p] = NoSession]
              /\ UNCHANGED flock
           \/ /\ job[p] = "destroy"
              /\ Goto(p, "removed", "idle")
              /\ flock' = release
              /\ mine' = [mine EXCEPT ![p] = NoSession]
              /\ UNCHANGED cleanupLock
        /\ cur' = [cur EXCEPT ![p] = NoSession]
        /\ removed' = [removed EXCEPT ![p] = TRUE]
        /\ job' = [job EXCEPT ![p] = "none"]
        /\ UNCHANGED <<onDisk, nextSession, todo, left>>

-----------------------------------------------------------------------------
(* Cleaning up after the dead                                              *)

\* The retries of the flock are over by then, or the call returns BUSY.
AcquireCleanupLock(p) ==
    /\ cleanupLock = NoProc
    /\ Goto(p, "idle", "scan")
    /\ cleanupLock' = p
    /\ todo' = [todo EXCEPT ![p] = {s \in Sessions : name[s] # "none"}]
    /\ UNCHANGED <<onDisk, flock, nextSession, mine, removal>>

\* A directory is only a candidate if it can be opened and, for a session-*
\* directory, has its marker.
CleanupSessionEntry(p, s) ==
    /\ s \in todo[p]
    /\ todo' = [todo EXCEPT ![p] = @ \ {s}]
    /\ \/ /\ name[s] = "creating" \/ (name[s] = "session" /\ marker[s])
          /\ Goto(p, "scan", "probe")
          /\ cur' = [cur EXCEPT ![p] = s]
       \/ Goto(p, "scan", "scan") /\ UNCHANGED cur
    /\ UNCHANGED <<onDisk, flock, cleanupLock, nextSession, mine, left, removed, job>>

GetSessionStateTrustsMarker(p) ==
    LET s == cur[p] IN
    /\ \/ Goto(p, "probe", "remove") /\ BeginRemoval(p, s, "clean")
       \/ /\ Goto(p, "probe", "scan")
          /\ cur' = [cur EXCEPT ![p] = NoSession]
          /\ UNCHANGED <<left, removed, job>>
    /\ UNCHANGED <<onDisk, flock, cleanupLock, nextSession, mine, todo>>

\* Inactive is a session without a lock file or whose lock can be taken; the
\* cleaner keeps the lock while it deletes.  Any other answer spares it.
GetSessionStateAt(p) ==
    LET s == cur[p] IN
    /\ pc[p] = "probe"
    /\ \/ /\ ~lockFile[s] \/ flock[s] = NoProc
          /\ flock' = IF lockFile[s] THEN [flock EXCEPT ![s] = p] ELSE flock
          /\ Goto(p, "probe", "remove")
          /\ BeginRemoval(p, s, "clean")
       \/ /\ Goto(p, "probe", "scan")
          /\ cur' = [cur EXCEPT ![p] = NoSession]
          /\ UNCHANGED <<flock, left, removed, job>>
    /\ UNCHANGED <<onDisk, cleanupLock, nextSession, mine, todo>>

\* The root could not be read to its end, or no directory be made in it: Init
\* fails and the lock is dropped.
ScanFails(p) ==
    /\ Goto(p, "scan", "idle")
    /\ cleanupLock' = NoProc
    /\ todo' = [todo EXCEPT ![p] = {}]
    /\ UNCHANGED <<onDisk, flock, nextSession, mine, removal>>

-----------------------------------------------------------------------------
(* CreateSessionLocked, still under cleanup.lock                           *)

\* A step of the creation fails: what there is of the directory is deleted.
RollBack(p) ==
    /\ pc[p] \in {"marker", "data", "lock", "flock", "publish"}
    /\ pc' = [pc EXCEPT ![p] = "remove"]
    /\ BeginRemoval(p, mine[p], "rollback")
    /\ flock' = [flock EXCEPT ![mine[p]] = NoProc]
    /\ UNCHANGED <<onDisk, cleanupLock, nextSession, mine, todo>>

MakeCreatingDir(p) ==
    /\ todo[p] = {}
    /\ nextSession \in Sessions                 \* bound MaxSession
    /\ Goto(p, "scan", "marker")
    /\ name' = [name EXCEPT ![nextSession] = "creating"]
    /\ mine' = [mine EXCEPT ![p] = nextSession]
    /\ nextSession' = nextSession + 1
    /\ UNCHANGED <<marker, lockFile, data, flock, cleanupLock, todo, removal>>

CreateMarker(p) ==
    /\ Goto(p, "marker", "data")
    /\ marker' = [marker EXCEPT ![mine[p]] = TRUE]
    /\ UNCHANGED <<name, lockFile, data, flock, cleanupLock, nextSession, mine,
                   todo, removal>>

MakeDataDir(p) ==
    /\ Goto(p, "data", "lock")
    /\ data' = [data EXCEPT ![mine[p]] = "empty"]
    /\ UNCHANGED <<name, marker, lockFile, flock, cleanupLock, nextSession, mine,
                   todo, removal>>

OpenSessionLock(p) ==
    /\ Goto(p, "lock", "flock")
    /\ lockFile' = [lockFile EXCEPT ![mine[p]] = TRUE]
    /\ UNCHANGED <<name, marker, data, flock, cleanupLock, nextSession, mine,
                   todo, removal>>

FlockSession(p) ==
    /\ Goto(p, "flock", "publish")
    /\ flock' = [flock EXCEPT ![mine[p]] = p]
    /\ UNCHANGED <<onDisk, cleanupLock, nextSession, mine, todo, removal>>

\* The rename, and PrepareSession returns.
PublishSession(p) ==
    /\ Goto(p, "publish", "running")
    /\ name' = [name EXCEPT ![mine[p]] = "session"]
    /\ cleanupLock' = NoProc
    /\ UNCHANGED <<marker, lockFile, data, flock, nextSession, mine, todo, removal>>

-----------------------------------------------------------------------------
(* A session in use, and its end                                           *)

\* SwapOut, RemoveData and so on put files there and take them away.
UseSession(p) ==
    /\ Goto(p, "running", "running")
    /\ data' \in {[data EXCEPT ![mine[p]] = d] : d \in {"empty", "full"}}
    /\ UNCHANGED <<name, marker, lockFile, flock, cleanupLock, nextSession, mine,
                   todo, removal>>

\* Destroy: RemoveSessionDir does not take cleanup.lock.
RemoveSessionDir(p) ==
    /\ Goto(p, "running", "remove")
    /\ BeginRemoval(p, mine[p], "destroy")
    /\ UNCHANGED <<onDisk, flock, cleanupLock, nextSession, mine, todo>>

\* ~SwapfsManager gave up waiting and leaves its data to the session cleaner.
DestructorTimeout(p) ==
    /\ Goto(p, "running", "idle")
    /\ flock' = [flock EXCEPT ![mine[p]] = NoProc]
    /\ mine' = [mine EXCEPT ![p] = NoSession]
    /\ UNCHANGED <<onDisk, cleanupLock, nextSession, todo, removal>>

\* The process dies; another one may take its place.
Crash(p) ==
    /\ pc[p] # "idle"
    /\ pc' = [pc EXCEPT ![p] = "idle"]
    /\ flock' = [s \in Sessions |-> IF flock[s] = p THEN NoProc ELSE flock[s]]
    /\ cleanupLock' = IF cleanupLock = p THEN NoProc ELSE cleanupLock
    /\ mine' = [mine EXCEPT ![p] = NoSession]
    /\ todo' = [todo EXCEPT ![p] = {}]
    /\ cur' = [cur EXCEPT ![p] = NoSession]
    /\ left' = [left EXCEPT ![p] = {}]
    /\ removed' = [removed EXCEPT ![p] = TRUE]
    /\ job' = [job EXCEPT ![p] = "none"]
    /\ UNCHANGED <<onDisk, nextSession>>

-----------------------------------------------------------------------------
SessionStep(p) ==
    \/ \E e \in {"lock", "data"} : RemoveEntry(p, e)
    \/ UnlinkMarker(p) \/ Rmdir(p) \/ EndRemoval(p)
    \/ AcquireCleanupLock(p) \/ GetSessionStateAt(p) \/ ScanFails(p)
    \/ \E s \in Sessions : CleanupSessionEntry(p, s)
    \/ RollBack(p) \/ MakeCreatingDir(p) \/ CreateMarker(p) \/ MakeDataDir(p)
    \/ OpenSessionLock(p) \/ FlockSession(p) \/ PublishSession(p)
    \/ UseSession(p) \/ RemoveSessionDir(p) \/ DestructorTimeout(p) \/ Crash(p)

SessionNext == \E p \in Procs : SessionStep(p)

SessionSpec == SessionInit /\ [][SessionNext]_sVars

-----------------------------------------------------------------------------
\* A process in the middle of creating its session, or using it, finds there
\* what it put there: no other process's cleanup takes it for dead.
LiveSessionIntact ==
    \A p \in Procs :
        LET s == mine[p] IN
        /\ pc[p] \in {"marker", "data", "lock", "flock", "publish"} =>
            /\ name[s] = "creating"
            /\ marker[s] <=> pc[p] # "marker"
            /\ data[s] # "none" <=> pc[p] \in {"lock", "flock", "publish"}
            /\ lockFile[s] <=> pc[p] \in {"flock", "publish"}
        /\ pc[p] = "running" =>
            /\ name[s] = "session" /\ marker[s] /\ lockFile[s]
            /\ data[s] # "none" /\ flock[s] = p

\* Data never becomes garbage nobody will collect: whoever died where, and
\* whatever failed, a directory that still has anything in it is one the next
\* cleanup recognises, and when no process has it in hand its lock can be taken.
\* (A session-* directory without its marker, which no cleanup touches, is
\* always empty.)
GarbageCollectable ==
    \A s \in Sessions :
        /\ EntriesOf(s) # {} => name[s] = "creating" \/ marker[s]
        /\ name[s] = "none" => ~marker[s]
        /\ flock[s] # NoProc =>
            \/ mine[flock[s]] = s
            \/ cur[flock[s]] = s /\ job[flock[s]] = "clean"

=============================================================================

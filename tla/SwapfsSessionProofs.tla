------------------------ MODULE SwapfsSessionProofs ------------------------
(***************************************************************************)
(* Proofs about SwapfsSession, for any number of processes and sessions:   *)
(* no cleanup takes a live session for dead, and no crash leaves garbage   *)
(* that no cleanup would collect.                                          *)
(***************************************************************************)
EXTENDS SwapfsSession, TLAPS

CreatePcs == {"marker", "data", "lock", "flock", "publish"}
RemovePcs == {"remove", "rmdir", "removed"}

STypes ==
    /\ name \in [Sessions -> {"none", "creating", "session"}]
    /\ marker \in [Sessions -> BOOLEAN] /\ lockFile \in [Sessions -> BOOLEAN]
    /\ flock \in [Sessions -> Procs \cup {NoProc}]
    /\ data \in [Sessions -> {"none", "empty", "full"}]
    /\ nextSession \in Nat
    /\ pc \in [Procs -> {"idle", "scan", "probe", "running"} \cup CreatePcs \cup RemovePcs]
    /\ mine \in [Procs -> Sessions \cup {NoSession}]
    /\ cur \in [Procs -> Sessions \cup {NoSession}]
    /\ todo \in [Procs -> SUBSET Sessions]
    /\ left \in [Procs -> SUBSET {"lock", "data"}]
    /\ removed \in [Procs -> BOOLEAN]
    /\ job \in [Procs -> {"none", "clean", "rollback", "destroy"}]

\* Which session a process has, and which one it deletes.
PhaseOf(p) ==
    /\ pc[p] \in {"idle", "scan"} => mine[p] = NoSession /\ cur[p] = NoSession
    /\ pc[p] = "probe" => mine[p] = NoSession /\ cur[p] \in Sessions
    /\ pc[p] \in CreatePcs \cup {"running"} => mine[p] \in Sessions /\ cur[p] = NoSession
    /\ pc[p] \in RemovePcs =>
        /\ cur[p] \in Sessions
        /\ \/ job[p] = "clean" /\ mine[p] = NoSession
           \/ job[p] \in {"rollback", "destroy"} /\ mine[p] = cur[p]
    /\ pc[p] \notin RemovePcs => job[p] = "none"
Phases == \A p \in Procs : PhaseOf(p)

\* A cleanup and the creation after it run under cleanup.lock, up to the rename.
UnderCleanupLock(p) ==
    \/ pc[p] \in {"scan", "probe"} \cup CreatePcs
    \/ pc[p] \in RemovePcs /\ job[p] \in {"clean", "rollback"}
LockHeld == \A p \in Procs : UnderCleanupLock(p) => cleanupLock = p

\* A session belongs to one process, was handed out, and what was not is blank.
OneOwner ==
    \A p, q \in Procs : mine[p] = mine[q] /\ mine[p] # NoSession => p = q
HandedOut ==
    \A p \in Procs : mine[p] < nextSession /\ cur[p] < nextSession
FreshBlank ==
    \A s \in Sessions :
        s >= nextSession =>
            name[s] = "none" /\ ~marker[s] /\ ~lockFile[s] /\ data[s] = "none"

\* What a cleanup deletes is nobody's, or its owner is deleting it as well.
CleanedIsDead ==
    \A p, q \in Procs :
        pc[p] \in RemovePcs /\ job[p] = "clean" /\ mine[q] = cur[p] =>
            pc[q] \in RemovePcs

\* Who gave up creating its session has closed session.lock.
RolledBackUnlocked ==
    \A p \in Procs, s \in Sessions : job[p] = "rollback" => flock[s] # p

\* What is left in a directory is what the process has not yet seen of it, as long
\* as nothing failed.
RestIsSeen ==
    \A p \in Procs :
        pc[p] = "remove" /\ removed[p] =>
            /\ lockFile[cur[p]] => "lock" \in left[p]
            /\ data[cur[p]] # "none" => "data" \in left[p]

\* GarbageCollectable, entry by entry.
Collectable ==
    \A s \in Sessions :
        /\ lockFile[s] \/ data[s] # "none" => name[s] = "creating" \/ marker[s]
        /\ name[s] = "none" => ~marker[s]
        /\ flock[s] # NoProc =>
            \/ mine[flock[s]] = s
            \/ cur[flock[s]] = s /\ job[flock[s]] = "clean"

\* A session is renamed with its lock held.
PublishedIsLocked ==
    \A p \in Procs : pc[p] = "publish" => flock[mine[p]] = p

SInv ==
    /\ STypes /\ Phases /\ LockHeld /\ OneOwner /\ HandedOut /\ FreshBlank
    /\ CleanedIsDead /\ PublishedIsLocked /\ RolledBackUnlocked /\ RestIsSeen
    /\ LiveSessionIntact /\ Collectable

-----------------------------------------------------------------------------
(* The parts of the invariant, one by one, action by action.               *)

\* SwapOut and RemoveData change what is in the session's own data directory.
LEMMA UsedData ==
    ASSUME NEW p \in Procs, UseSession(p)
    PROVE  \E d : data' = [data EXCEPT ![mine[p]] = d]
BY DEF UseSession

\* What RemoveTreeContentsAt finds, entry by entry.
LEMMA EntriesAre ==
    ASSUME NEW s
    PROVE  /\ "lock" \in EntriesOf(s) <=> lockFile[s]
           /\ "data" \in EntriesOf(s) <=> data[s] # "none"
           /\ EntriesOf(s) = {} <=> ~(lockFile[s] \/ data[s] # "none")
BY DEF EntriesOf

\* Nothing else is in a directory besides its marker.
LEMMA EntriesType == \A s : EntriesOf(s) \in SUBSET {"lock", "data"}
BY DEF EntriesOf

\* The holder of a session's lock has it in hand.
LEMMA FlockHolder ==
    ASSUME Collectable, NEW s \in Sessions, NEW p \in Procs, flock[s] = p
    PROVE  mine[p] = s \/ (cur[p] = s /\ job[p] = "clean")
<1>1. flock[s] # NoProc
  BY SessionConstants
<1>. QED
  BY <1>1 DEF Collectable

\* No step leaves the types.
LEMMA STypesNext ==
    ASSUME STypes, Phases, [SessionNext]_sVars
    PROVE  STypes'
<1>. USE SessionConstants DEF STypes, Phases, PhaseOf, CreatePcs, RemovePcs
<1>1. CASE UNCHANGED sVars
  BY <1>1 DEF sVars, onDisk, removal
<1>2. ASSUME NEW p \in Procs, SessionStep(p)
      PROVE  STypes'
  <2>1. ASSUME NEW e \in {"lock", "data"}, RemoveEntry(p, e)
        PROVE  STypes'
    <3>1. lockFile' \in [Sessions -> BOOLEAN]
      BY <2>1 DEF RemoveEntry
    <3>2. data' \in [Sessions -> {"none", "empty", "full"}]
      BY <2>1 DEF RemoveEntry, Goto
    <3>3. removed' \in [Procs -> BOOLEAN]
      BY <2>1 DEF RemoveEntry
    <3>4. left' \in [Procs -> SUBSET {"lock", "data"}] /\ pc' = pc
      BY <2>1 DEF RemoveEntry, Goto
    <3>. QED
      BY <2>1, <3>1, <3>2, <3>3, <3>4 DEF RemoveEntry
  <2>2. CASE UnlinkMarker(p)
    BY <2>2 DEF UnlinkMarker, Goto, removal
  <2>3. CASE Rmdir(p)
    BY <2>3 DEF Rmdir, Goto, removal
  <2>4. CASE EndRemoval(p)
    BY <2>4 DEF EndRemoval, Goto, onDisk
  <2>5. CASE AcquireCleanupLock(p)
    BY <2>5 DEF AcquireCleanupLock, Goto, onDisk, removal
  <2>6. CASE GetSessionStateAt(p)
    <3>1. flock' \in [Sessions -> Procs \cup {NoProc}]
      BY <2>6 DEF GetSessionStateAt
    <3>2. left' \in [Procs -> SUBSET {"lock", "data"}]
      BY <2>6, EntriesType DEF GetSessionStateAt, BeginRemoval
    <3>3. removed' \in [Procs -> BOOLEAN]
      BY <2>6 DEF GetSessionStateAt, BeginRemoval
    <3>4. /\ cur' \in [Procs -> Sessions \cup {NoSession}]
          /\ job' \in [Procs -> {"none", "clean", "rollback", "destroy"}]
          /\ pc' \in [Procs -> {"idle", "scan", "probe", "running"}
                              \cup CreatePcs \cup RemovePcs]
      BY <2>6 DEF GetSessionStateAt, BeginRemoval, Goto
    <3>. QED
      BY <2>6, <3>1, <3>2, <3>3, <3>4 DEF GetSessionStateAt, onDisk
  <2>7. CASE ScanFails(p)
    BY <2>7 DEF ScanFails, Goto, onDisk, removal
  <2>8. ASSUME NEW s \in Sessions, CleanupSessionEntry(p, s)
        PROVE  STypes'
    BY <2>8 DEF CleanupSessionEntry, Goto, onDisk
  <2>9. CASE RollBack(p)
    BY <2>9 DEF RollBack, BeginRemoval, EntriesOf, onDisk
  <2>10. CASE MakeCreatingDir(p)
    BY <2>10 DEF MakeCreatingDir, Goto, removal
  <2>11. CASE CreateMarker(p)
    BY <2>11 DEF CreateMarker, Goto, removal
  <2>12. CASE MakeDataDir(p)
    BY <2>12 DEF MakeDataDir, Goto, removal
  <2>13. CASE OpenSessionLock(p)
    BY <2>13 DEF OpenSessionLock, Goto, removal
  <2>14. CASE FlockSession(p)
    BY <2>14 DEF FlockSession, Goto, onDisk, removal
  <2>15. CASE PublishSession(p)
    BY <2>15 DEF PublishSession, Goto, removal
  <2>16. CASE UseSession(p)
    BY <2>16 DEF UseSession, Goto, removal
  <2>17. CASE RemoveSessionDir(p)
    BY <2>17 DEF RemoveSessionDir, BeginRemoval, EntriesOf, Goto, onDisk
  <2>18. CASE DestructorTimeout(p)
    BY <2>18 DEF DestructorTimeout, Goto, onDisk, removal
  <2>19. CASE Crash(p)
    BY <2>19 DEF Crash, onDisk
  <2>. QED
    BY <1>2, <2>1, <2>2, <2>3, <2>4, <2>5, <2>6, <2>7, <2>8, <2>9, <2>10,
       <2>11, <2>12, <2>13, <2>14, <2>15, <2>16, <2>17, <2>18, <2>19 DEF
       SessionStep
<1>. QED
  BY <1>1, <1>2 DEF SessionNext

\* A process has the session its phase says.
LEMMA PhasesNext ==
    ASSUME STypes, Phases, [SessionNext]_sVars
    PROVE  Phases'
<1>. USE DEF STypes, Phases, PhaseOf, CreatePcs, RemovePcs
<1>1. CASE UNCHANGED sVars
  BY <1>1 DEF sVars, onDisk, removal
<1>2. ASSUME NEW p \in Procs, SessionStep(p)
      PROVE  Phases'
  <2>1. ASSUME NEW e \in {"lock", "data"}, RemoveEntry(p, e)
        PROVE  Phases'
    BY <2>1 DEF RemoveEntry, Goto, EntriesOf
  <2>2. CASE UnlinkMarker(p)
    BY <2>2 DEF UnlinkMarker, Goto, removal
  <2>3. CASE Rmdir(p)
    BY <2>3 DEF Rmdir, Goto, removal
  <2>4. CASE EndRemoval(p)
    BY <2>4 DEF EndRemoval, Goto, onDisk
  <2>5. CASE AcquireCleanupLock(p)
    BY <2>5 DEF AcquireCleanupLock, Goto, onDisk, removal
  <2>6. CASE GetSessionStateAt(p)
    BY <2>6 DEF GetSessionStateAt, BeginRemoval, EntriesOf, Goto, onDisk
  <2>7. CASE ScanFails(p)
    BY <2>7 DEF ScanFails, Goto, onDisk, removal
  <2>8. ASSUME NEW s \in Sessions, CleanupSessionEntry(p, s)
        PROVE  Phases'
    BY <2>8 DEF CleanupSessionEntry, Goto, onDisk
  <2>9. CASE RollBack(p)
    BY <2>9 DEF RollBack, BeginRemoval, EntriesOf, onDisk
  <2>10. CASE MakeCreatingDir(p)
    BY <2>10 DEF MakeCreatingDir, Goto, removal
  <2>11. CASE CreateMarker(p)
    BY <2>11 DEF CreateMarker, Goto, removal
  <2>12. CASE MakeDataDir(p)
    BY <2>12 DEF MakeDataDir, Goto, removal
  <2>13. CASE OpenSessionLock(p)
    BY <2>13 DEF OpenSessionLock, Goto, removal
  <2>14. CASE FlockSession(p)
    BY <2>14 DEF FlockSession, Goto, onDisk, removal
  <2>15. CASE PublishSession(p)
    BY <2>15 DEF PublishSession, Goto, removal
  <2>16. CASE UseSession(p)
    BY <2>16 DEF UseSession, Goto, removal
  <2>17. CASE RemoveSessionDir(p)
    BY <2>17 DEF RemoveSessionDir, BeginRemoval, EntriesOf, Goto, onDisk
  <2>18. CASE DestructorTimeout(p)
    BY <2>18 DEF DestructorTimeout, Goto, onDisk, removal
  <2>19. CASE Crash(p)
    BY <2>19 DEF Crash, onDisk
  <2>. QED
    BY <1>2, <2>1, <2>2, <2>3, <2>4, <2>5, <2>6, <2>7, <2>8, <2>9, <2>10,
       <2>11, <2>12, <2>13, <2>14, <2>15, <2>16, <2>17, <2>18, <2>19 DEF
       SessionStep
<1>. QED
  BY <1>1, <1>2 DEF SessionNext

\* cleanup.lock is held all through a cleanup and a creation.
LEMMA LockHeldNext ==
    ASSUME STypes, Phases, LockHeld, [SessionNext]_sVars
    PROVE  LockHeld'
<1>. USE SessionConstants DEF STypes, Phases, PhaseOf, LockHeld,
   UnderCleanupLock, CreatePcs, RemovePcs
<1>1. CASE UNCHANGED sVars
  BY <1>1 DEF sVars, onDisk, removal
<1>2. ASSUME NEW p \in Procs, SessionStep(p)
      PROVE  LockHeld'
  <2>1. ASSUME NEW e \in {"lock", "data"}, RemoveEntry(p, e)
        PROVE  LockHeld'
    BY <2>1 DEF RemoveEntry, Goto, EntriesOf
  <2>2. CASE UnlinkMarker(p)
    BY <2>2 DEF UnlinkMarker, Goto, removal
  <2>3. CASE Rmdir(p)
    BY <2>3 DEF Rmdir, Goto, removal
  <2>4. CASE EndRemoval(p)
    BY <2>4 DEF EndRemoval, Goto, onDisk
  <2>5. CASE AcquireCleanupLock(p)
    BY <2>5 DEF AcquireCleanupLock, Goto, onDisk, removal
  <2>6. CASE GetSessionStateAt(p)
    BY <2>6 DEF GetSessionStateAt, BeginRemoval, EntriesOf, Goto, onDisk
  <2>7. CASE ScanFails(p)
    BY <2>7 DEF ScanFails, Goto, onDisk, removal
  <2>8. ASSUME NEW s \in Sessions, CleanupSessionEntry(p, s)
        PROVE  LockHeld'
    BY <2>8 DEF CleanupSessionEntry, Goto, onDisk
  <2>9. CASE RollBack(p)
    BY <2>9 DEF RollBack, BeginRemoval, EntriesOf, onDisk
  <2>10. CASE MakeCreatingDir(p)
    BY <2>10 DEF MakeCreatingDir, Goto, removal
  <2>11. CASE CreateMarker(p)
    BY <2>11 DEF CreateMarker, Goto, removal
  <2>12. CASE MakeDataDir(p)
    BY <2>12 DEF MakeDataDir, Goto, removal
  <2>13. CASE OpenSessionLock(p)
    BY <2>13 DEF OpenSessionLock, Goto, removal
  <2>14. CASE FlockSession(p)
    BY <2>14 DEF FlockSession, Goto, onDisk, removal
  <2>15. CASE PublishSession(p)
    BY <2>15 DEF PublishSession, Goto, removal
  <2>16. CASE UseSession(p)
    BY <2>16 DEF UseSession, Goto, removal
  <2>17. CASE RemoveSessionDir(p)
    BY <2>17 DEF RemoveSessionDir, BeginRemoval, EntriesOf, Goto, onDisk
  <2>18. CASE DestructorTimeout(p)
    BY <2>18 DEF DestructorTimeout, Goto, onDisk, removal
  <2>19. CASE Crash(p)
    BY <2>19 DEF Crash, onDisk
  <2>. QED
    BY <1>2, <2>1, <2>2, <2>3, <2>4, <2>5, <2>6, <2>7, <2>8, <2>9, <2>10,
       <2>11, <2>12, <2>13, <2>14, <2>15, <2>16, <2>17, <2>18, <2>19 DEF
       SessionStep
<1>. QED
  BY <1>1, <1>2 DEF SessionNext

\* A session has one owner.
LEMMA OwnersNext ==
    ASSUME STypes, Phases, OneOwner, HandedOut, FreshBlank, [SessionNext]_sVars
    PROVE  OneOwner' /\ HandedOut' /\ FreshBlank'
<1>. USE SessionConstants DEF STypes, Phases, PhaseOf, OneOwner, HandedOut,
   FreshBlank, CreatePcs, RemovePcs, Sessions, NoSession
<1>1. CASE UNCHANGED sVars
  BY <1>1 DEF sVars, onDisk, removal
<1>2. ASSUME NEW p \in Procs, SessionStep(p)
      PROVE  OneOwner' /\ HandedOut' /\ FreshBlank'
  <2>1. ASSUME NEW e \in {"lock", "data"}, RemoveEntry(p, e)
        PROVE  OneOwner' /\ HandedOut' /\ FreshBlank'
    BY <2>1 DEF RemoveEntry, Goto, EntriesOf
  <2>2. CASE UnlinkMarker(p)
    BY <2>2 DEF UnlinkMarker, Goto, removal
  <2>3. CASE Rmdir(p)
    BY <2>3 DEF Rmdir, Goto, removal
  <2>4. CASE EndRemoval(p)
    BY <2>4 DEF EndRemoval, Goto, onDisk
  <2>5. CASE AcquireCleanupLock(p)
    BY <2>5 DEF AcquireCleanupLock, Goto, onDisk, removal
  <2>6. CASE GetSessionStateAt(p)
    BY <2>6 DEF GetSessionStateAt, BeginRemoval, EntriesOf, Goto, onDisk
  <2>7. CASE ScanFails(p)
    BY <2>7 DEF ScanFails, Goto, onDisk, removal
  <2>8. ASSUME NEW s \in Sessions, CleanupSessionEntry(p, s)
        PROVE  OneOwner' /\ HandedOut' /\ FreshBlank'
    BY <2>8 DEF CleanupSessionEntry, Goto, onDisk
  <2>9. CASE RollBack(p)
    BY <2>9 DEF RollBack, BeginRemoval, EntriesOf, onDisk
  <2>10. CASE MakeCreatingDir(p)
    <3>1. /\ nextSession \in 1 .. MaxSession /\ nextSession' = nextSession + 1
          /\ mine' = [mine EXCEPT ![p] = nextSession] /\ cur' = cur
          /\ name' = [name EXCEPT ![nextSession] = "creating"]
          /\ marker' = marker /\ lockFile' = lockFile /\ data' = data
      BY <2>10 DEF MakeCreatingDir, removal
    <3>2. OneOwner'
      BY <3>1
    <3>3. HandedOut'
      BY <3>1
    <3>4. FreshBlank'
      BY <3>1
    <3>. QED
      BY <3>2, <3>3, <3>4
  <2>11. CASE CreateMarker(p)
    BY <2>11 DEF CreateMarker, Goto, removal
  <2>12. CASE MakeDataDir(p)
    BY <2>12 DEF MakeDataDir, Goto, removal
  <2>13. CASE OpenSessionLock(p)
    BY <2>13 DEF OpenSessionLock, Goto, removal
  <2>14. CASE FlockSession(p)
    BY <2>14 DEF FlockSession, Goto, onDisk, removal
  <2>15. CASE PublishSession(p)
    BY <2>15 DEF PublishSession, Goto, removal
  <2>16. CASE UseSession(p)
    <3>1. /\ nextSession' = nextSession /\ mine' = mine /\ cur' = cur
          /\ name' = name /\ marker' = marker /\ lockFile' = lockFile
          /\ mine[p] < nextSession
          /\ \A s \in Sessions : s # mine[p] => data'[s] = data[s]
      BY <2>16 DEF UseSession, Goto, removal
    <3>. QED
      BY <3>1
  <2>17. CASE RemoveSessionDir(p)
    BY <2>17 DEF RemoveSessionDir, BeginRemoval, EntriesOf, Goto, onDisk
  <2>18. CASE DestructorTimeout(p)
    BY <2>18 DEF DestructorTimeout, Goto, onDisk, removal
  <2>19. CASE Crash(p)
    BY <2>19 DEF Crash, onDisk
  <2>. QED
    BY <1>2, <2>1, <2>2, <2>3, <2>4, <2>5, <2>6, <2>7, <2>8, <2>9, <2>10,
       <2>11, <2>12, <2>13, <2>14, <2>15, <2>16, <2>17, <2>18, <2>19 DEF
       SessionStep
<1>. QED
  BY <1>1, <1>2 DEF SessionNext

\* A cleanup deletes only what is dead.
LEMMA CleanedIsDeadNext ==
    ASSUME SInv, [SessionNext]_sVars
    PROVE  CleanedIsDead'
<1>. USE SessionConstants DEF SInv, STypes, Phases, PhaseOf, HandedOut,
   CleanedIsDead, CreatePcs, RemovePcs, NoSession, Sessions
<1>1. CASE UNCHANGED sVars
  BY <1>1 DEF sVars, onDisk, removal
<1>2. ASSUME NEW p \in Procs, SessionStep(p)
      PROVE  CleanedIsDead'
  <2>1. ASSUME NEW e \in {"lock", "data"}, RemoveEntry(p, e)
        PROVE  CleanedIsDead'
    BY <2>1 DEF RemoveEntry, Goto, EntriesOf
  <2>2. CASE UnlinkMarker(p)
    <3>1. /\ pc[p] = "remove" /\ pc'[p] \in RemovePcs
          /\ \A q \in Procs \ {p} : pc'[q] = pc[q]
          /\ mine' = mine /\ cur' = cur /\ job' = job
      BY <2>2 DEF UnlinkMarker, Goto, removal
    <3>. QED
      BY <3>1
  <2>3. CASE Rmdir(p)
    BY <2>3 DEF Rmdir, Goto, removal
  <2>4. CASE EndRemoval(p)
    BY <2>4 DEF EndRemoval, Goto, onDisk
  <2>5. CASE AcquireCleanupLock(p)
    BY <2>5 DEF AcquireCleanupLock, Goto, onDisk, removal
  <2>6. CASE GetSessionStateAt(p)
    <3>1. CASE Goto(p, "probe", "scan")
      <4>1. /\ job' = job /\ mine' = mine /\ \A q \in Procs \ {p} : cur'[q] = cur[q]
        BY <2>6, <3>1 DEF GetSessionStateAt, Goto
      <4>. QED
        BY <3>1, <4>1 DEF Goto
    <3>2. CASE /\ ~lockFile[cur[p]] \/ flock[cur[p]] = NoProc
               /\ Goto(p, "probe", "remove") /\ BeginRemoval(p, cur[p], "clean")
      <4>1. \A q \in Procs : mine[q] = cur[p] => pc[q] \in RemovePcs
        <5>. SUFFICES ASSUME NEW q \in Procs, mine[q] = cur[p], pc[q] \notin RemovePcs
                      PROVE  FALSE
          OBVIOUS
        <5>1. q # p /\ cur[p] \in Sessions /\ pc[q] \in CreatePcs \cup {"running"}
          BY <3>2 DEF Goto
        <5>2. pc[q] = "running"
          BY <3>2, <5>1 DEF LockHeld, UnderCleanupLock, Goto
        <5>3. lockFile[cur[p]] /\ flock[cur[p]] = q
          BY <5>2 DEF LiveSessionIntact
        <5>. QED
          BY <3>2, <5>3
      <4>2. /\ mine' = mine
            /\ cur' = cur
            /\ pc' = [pc EXCEPT ![p] = "remove"] /\ job' = [job EXCEPT ![p] = "clean"]
        BY <2>6, <3>2 DEF GetSessionStateAt, BeginRemoval, Goto
      <4>. QED
        BY <4>1, <4>2
    <3>. QED
      BY <2>6, <3>1, <3>2 DEF GetSessionStateAt
  <2>7. CASE ScanFails(p)
    BY <2>7 DEF ScanFails, Goto, onDisk, removal
  <2>8. ASSUME NEW s \in Sessions, CleanupSessionEntry(p, s)
        PROVE  CleanedIsDead'
    BY <2>8 DEF CleanupSessionEntry, Goto, onDisk
  <2>9. CASE RollBack(p)
    BY <2>9 DEF RollBack, BeginRemoval, EntriesOf, onDisk
  <2>10. CASE MakeCreatingDir(p)
    BY <2>10 DEF MakeCreatingDir, Goto, removal
  <2>11. CASE CreateMarker(p)
    BY <2>11 DEF CreateMarker, Goto, removal
  <2>12. CASE MakeDataDir(p)
    BY <2>12 DEF MakeDataDir, Goto, removal
  <2>13. CASE OpenSessionLock(p)
    BY <2>13 DEF OpenSessionLock, Goto, removal
  <2>14. CASE FlockSession(p)
    BY <2>14 DEF FlockSession, Goto, onDisk, removal
  <2>15. CASE PublishSession(p)
    BY <2>15 DEF PublishSession, Goto, removal
  <2>16. CASE UseSession(p)
    BY <2>16 DEF UseSession, Goto, removal
  <2>17. CASE RemoveSessionDir(p)
    BY <2>17 DEF RemoveSessionDir, BeginRemoval, EntriesOf, Goto, onDisk
  <2>18. CASE DestructorTimeout(p)
    BY <2>18 DEF DestructorTimeout, Goto, onDisk, removal
  <2>19. CASE Crash(p)
    BY <2>19 DEF Crash, onDisk
  <2>. QED
    BY <1>2, <2>1, <2>2, <2>3, <2>4, <2>5, <2>6, <2>7, <2>8, <2>9, <2>10,
       <2>11, <2>12, <2>13, <2>14, <2>15, <2>16, <2>17, <2>18, <2>19 DEF
       SessionStep
<1>. QED
  BY <1>1, <1>2 DEF SessionNext

\* The lock is taken before the rename and not lost.
LEMMA PublishedIsLockedNext ==
    ASSUME SInv, [SessionNext]_sVars
    PROVE  PublishedIsLocked'
<1>. USE SessionConstants DEF SInv, STypes, Phases, PhaseOf, OneOwner,
   PublishedIsLocked, CreatePcs, RemovePcs, Sessions, NoSession
<1>1. CASE UNCHANGED sVars
  BY <1>1 DEF sVars, onDisk, removal
<1>2. ASSUME NEW p \in Procs, SessionStep(p)
      PROVE  PublishedIsLocked'
  <2>1. ASSUME NEW e \in {"lock", "data"}, RemoveEntry(p, e)
        PROVE  PublishedIsLocked'
    BY <2>1 DEF RemoveEntry, Goto, EntriesOf
  <2>2. CASE UnlinkMarker(p)
    BY <2>2 DEF UnlinkMarker, Goto, removal
  <2>3. CASE Rmdir(p)
    BY <2>3 DEF Rmdir, Goto, removal
  <2>4. CASE EndRemoval(p)
    BY <2>4 DEF EndRemoval, Goto, onDisk
  <2>5. CASE AcquireCleanupLock(p)
    BY <2>5 DEF AcquireCleanupLock, Goto, onDisk, removal
  <2>6. CASE GetSessionStateAt(p)
    BY <2>6 DEF GetSessionStateAt, BeginRemoval, EntriesOf, Goto, onDisk
  <2>7. CASE ScanFails(p)
    BY <2>7 DEF ScanFails, Goto, onDisk, removal
  <2>8. ASSUME NEW s \in Sessions, CleanupSessionEntry(p, s)
        PROVE  PublishedIsLocked'
    BY <2>8 DEF CleanupSessionEntry, Goto, onDisk
  <2>9. CASE RollBack(p)
    BY <2>9 DEF RollBack, BeginRemoval, EntriesOf, onDisk
  <2>10. CASE MakeCreatingDir(p)
    BY <2>10 DEF MakeCreatingDir, Goto, removal
  <2>11. CASE CreateMarker(p)
    BY <2>11 DEF CreateMarker, Goto, removal
  <2>12. CASE MakeDataDir(p)
    BY <2>12 DEF MakeDataDir, Goto, removal
  <2>13. CASE OpenSessionLock(p)
    BY <2>13 DEF OpenSessionLock, Goto, removal
  <2>14. CASE FlockSession(p)
    BY <2>14 DEF FlockSession, Goto, onDisk, removal
  <2>15. CASE PublishSession(p)
    BY <2>15 DEF PublishSession, Goto, removal
  <2>16. CASE UseSession(p)
    BY <2>16 DEF UseSession, Goto, removal
  <2>17. CASE RemoveSessionDir(p)
    BY <2>17 DEF RemoveSessionDir, BeginRemoval, EntriesOf, Goto, onDisk
  <2>18. CASE DestructorTimeout(p)
    BY <2>18 DEF DestructorTimeout, Goto, onDisk, removal
  <2>19. CASE Crash(p)
    BY <2>19 DEF Crash, onDisk
  <2>. QED
    BY <1>2, <2>1, <2>2, <2>3, <2>4, <2>5, <2>6, <2>7, <2>8, <2>9, <2>10,
       <2>11, <2>12, <2>13, <2>14, <2>15, <2>16, <2>17, <2>18, <2>19 DEF
       SessionStep
<1>. QED
  BY <1>1, <1>2 DEF SessionNext

\* Who rolled back has dropped its lock.
LEMMA RolledBackUnlockedNext ==
    ASSUME SInv, [SessionNext]_sVars
    PROVE  RolledBackUnlocked'
<1>. USE SessionConstants DEF SInv, STypes, Phases, PhaseOf, Collectable,
   RolledBackUnlocked, CreatePcs, RemovePcs, Sessions, NoSession
<1>1. CASE UNCHANGED sVars
  BY <1>1 DEF sVars, onDisk, removal
<1>2. ASSUME NEW p \in Procs, SessionStep(p)
      PROVE  RolledBackUnlocked'
  <2>1. ASSUME NEW e \in {"lock", "data"}, RemoveEntry(p, e)
        PROVE  RolledBackUnlocked'
    BY <2>1 DEF RemoveEntry, Goto, EntriesOf
  <2>2. CASE UnlinkMarker(p)
    BY <2>2 DEF UnlinkMarker, Goto, removal
  <2>3. CASE Rmdir(p)
    BY <2>3 DEF Rmdir, Goto, removal
  <2>4. CASE EndRemoval(p)
    BY <2>4 DEF EndRemoval, Goto, onDisk
  <2>5. CASE AcquireCleanupLock(p)
    BY <2>5 DEF AcquireCleanupLock, Goto, onDisk, removal
  <2>6. CASE GetSessionStateAt(p)
    BY <2>6 DEF GetSessionStateAt, BeginRemoval, EntriesOf, Goto, onDisk
  <2>7. CASE ScanFails(p)
    BY <2>7 DEF ScanFails, Goto, onDisk, removal
  <2>8. ASSUME NEW s \in Sessions, CleanupSessionEntry(p, s)
        PROVE  RolledBackUnlocked'
    BY <2>8 DEF CleanupSessionEntry, Goto, onDisk
  <2>9. CASE RollBack(p)
    BY <2>9 DEF RollBack, BeginRemoval, EntriesOf, onDisk
  <2>10. CASE MakeCreatingDir(p)
    BY <2>10 DEF MakeCreatingDir, Goto, removal
  <2>11. CASE CreateMarker(p)
    BY <2>11 DEF CreateMarker, Goto, removal
  <2>12. CASE MakeDataDir(p)
    BY <2>12 DEF MakeDataDir, Goto, removal
  <2>13. CASE OpenSessionLock(p)
    BY <2>13 DEF OpenSessionLock, Goto, removal
  <2>14. CASE FlockSession(p)
    BY <2>14 DEF FlockSession, Goto, onDisk, removal
  <2>15. CASE PublishSession(p)
    BY <2>15 DEF PublishSession, Goto, removal
  <2>16. CASE UseSession(p)
    BY <2>16 DEF UseSession, Goto, removal
  <2>17. CASE RemoveSessionDir(p)
    BY <2>17 DEF RemoveSessionDir, BeginRemoval, EntriesOf, Goto, onDisk
  <2>18. CASE DestructorTimeout(p)
    BY <2>18 DEF DestructorTimeout, Goto, onDisk, removal
  <2>19. CASE Crash(p)
    BY <2>19 DEF Crash, onDisk
  <2>. QED
    BY <1>2, <2>1, <2>2, <2>3, <2>4, <2>5, <2>6, <2>7, <2>8, <2>9, <2>10,
       <2>11, <2>12, <2>13, <2>14, <2>15, <2>16, <2>17, <2>18, <2>19 DEF
       SessionStep
<1>. QED
  BY <1>1, <1>2 DEF SessionNext

\* What is left of a directory is what its deleter has not seen.
LEMMA RestIsSeenNext ==
    ASSUME SInv, [SessionNext]_sVars
    PROVE  RestIsSeen'
<1>. USE SessionConstants DEF SInv, STypes, Phases, PhaseOf, OneOwner,
   CleanedIsDead, HandedOut, RestIsSeen, CreatePcs, RemovePcs, Sessions,
   NoSession
<1>1. CASE UNCHANGED sVars
  BY <1>1 DEF sVars, onDisk, removal
<1>2. ASSUME NEW p \in Procs, SessionStep(p)
      PROVE  RestIsSeen'
  <2>1. ASSUME NEW e \in {"lock", "data"}, RemoveEntry(p, e)
        PROVE  RestIsSeen'
    <3>. DEFINE s == cur[p]
    <3>1. /\ pc' = pc /\ cur' = cur /\ s \in Sessions
          /\ \A q \in Procs \ {p} : left'[q] = left[q] /\ removed'[q] = removed[q]
          /\ left'[p] = left[p] \ {e}
          /\ \A x \in Sessions \ {s} : lockFile'[x] = lockFile[x] /\ data'[x] = data[x]
      BY <2>1 DEF RemoveEntry, Goto
    <3>2. /\ lockFile'[s] => lockFile[s]
          /\ data'[s] # "none" => data[s] # "none"
      BY <2>1, <3>1 DEF RemoveEntry
    <3>3. removed'[p] => /\ removed[p]
                         /\ e = "lock" => ~lockFile'[s]
                         /\ e = "data" => data'[s] = "none"
      <4>1. CASE /\ lockFile' = [lockFile EXCEPT ![s] = @ /\ e # "lock"]
                 /\ data' = [data EXCEPT ![s] = IF e = "data" THEN "none" ELSE @]
                 /\ UNCHANGED removed
        <5>1. removed'[p] = removed[p] /\ (e = "data" => data'[s] = "none")
          BY <3>1, <4>1
        <5>2. e = "lock" => ~lockFile'[s]
          <6>1. ASSUME e = "lock" PROVE lockFile' = [lockFile EXCEPT ![s] = FALSE]
            BY <4>1, <6>1
          <6>. QED
            BY <3>1, <6>1
        <5>. QED
          BY <5>1, <5>2
      <4>2. CASE removed'[p] = FALSE
        BY <4>2
      <4>3. CASE e \notin EntriesOf(s) /\ UNCHANGED <<lockFile, data, removed>>
        BY <4>3, EntriesAre
      <4>. QED
        BY <2>1, <4>1, <4>2, <4>3 DEF RemoveEntry
    <3>. HIDE DEF s
    <3>4. ASSUME NEW q \in Procs \ {p}, pc'[q] = "remove", removed'[q]
          PROVE  /\ lockFile'[cur'[q]] => "lock" \in left'[q]
                 /\ data'[cur'[q]] # "none" => "data" \in left'[q]
      <4>1. pc[q] = "remove" /\ removed[q] /\ cur[q] \in Sessions
        BY <3>1, <3>4
      <4>2. /\ lockFile'[cur[q]] => lockFile[cur[q]]
            /\ data'[cur[q]] # "none" => data[cur[q]] # "none"
        BY <3>1, <3>2, <4>1
      <4>. QED
        BY <3>1, <4>1, <4>2
    <3>5. ASSUME pc'[p] = "remove", removed'[p]
          PROVE  /\ lockFile'[s] => "lock" \in left'[p]
                 /\ data'[s] # "none" => "data" \in left'[p]
      <4>1. /\ lockFile[s] => "lock" \in left[p]
            /\ data[s] # "none" => "data" \in left[p]
        BY <3>1, <3>3, <3>5 DEF s
      <4>. QED
        BY <3>1, <3>2, <3>3, <3>5, <4>1
    <3>. QED
      BY <3>1, <3>4, <3>5 DEF s
  <2>2. CASE UnlinkMarker(p)
    BY <2>2 DEF UnlinkMarker, Goto, removal
  <2>3. CASE Rmdir(p)
    BY <2>3 DEF Rmdir, Goto, removal
  <2>4. CASE EndRemoval(p)
    BY <2>4 DEF EndRemoval, Goto, onDisk
  <2>5. CASE AcquireCleanupLock(p)
    BY <2>5 DEF AcquireCleanupLock, Goto, onDisk, removal
  <2>6. CASE GetSessionStateAt(p)
    BY <2>6 DEF GetSessionStateAt, BeginRemoval, EntriesOf, Goto, onDisk
  <2>7. CASE ScanFails(p)
    BY <2>7 DEF ScanFails, Goto, onDisk, removal
  <2>8. ASSUME NEW s \in Sessions, CleanupSessionEntry(p, s)
        PROVE  RestIsSeen'
    BY <2>8 DEF CleanupSessionEntry, Goto, onDisk
  <2>9. CASE RollBack(p)
    BY <2>9 DEF RollBack, BeginRemoval, EntriesOf, onDisk
  <2>10. CASE MakeCreatingDir(p)
    BY <2>10 DEF MakeCreatingDir, Goto, removal
  <2>11. CASE CreateMarker(p)
    BY <2>11 DEF CreateMarker, Goto, removal
  <2>12. CASE MakeDataDir(p)
    BY <2>12 DEF MakeDataDir, Goto, removal
  <2>13. CASE OpenSessionLock(p)
    BY <2>13 DEF OpenSessionLock, Goto, removal
  <2>14. CASE FlockSession(p)
    BY <2>14 DEF FlockSession, Goto, onDisk, removal
  <2>15. CASE PublishSession(p)
    BY <2>15 DEF PublishSession, Goto, removal
  <2>16. CASE UseSession(p)
    BY <2>16 DEF UseSession, Goto, removal
  <2>17. CASE RemoveSessionDir(p)
    BY <2>17 DEF RemoveSessionDir, BeginRemoval, EntriesOf, Goto, onDisk
  <2>18. CASE DestructorTimeout(p)
    BY <2>18 DEF DestructorTimeout, Goto, onDisk, removal
  <2>19. CASE Crash(p)
    BY <2>19 DEF Crash, onDisk
  <2>. QED
    BY <1>2, <2>1, <2>2, <2>3, <2>4, <2>5, <2>6, <2>7, <2>8, <2>9, <2>10,
       <2>11, <2>12, <2>13, <2>14, <2>15, <2>16, <2>17, <2>18, <2>19 DEF
       SessionStep
<1>. QED
  BY <1>1, <1>2 DEF SessionNext

\* A live session is left alone.
LEMMA LiveSessionIntactNext ==
    ASSUME SInv, [SessionNext]_sVars
    PROVE  LiveSessionIntact'
<1>. USE SessionConstants DEF SInv, STypes, Phases, PhaseOf, OneOwner,
   CleanedIsDead, LockHeld, UnderCleanupLock, FreshBlank, HandedOut,
   LiveSessionIntact, CreatePcs, RemovePcs, Sessions, NoSession
<1>1. CASE UNCHANGED sVars
  BY <1>1 DEF sVars, onDisk, removal
<1>2. ASSUME NEW p \in Procs, SessionStep(p)
      PROVE  LiveSessionIntact'
  <2>1. ASSUME NEW e \in {"lock", "data"}, RemoveEntry(p, e)
        PROVE  LiveSessionIntact'
    BY <2>1 DEF RemoveEntry, Goto, EntriesOf
  <2>2. CASE UnlinkMarker(p)
    BY <2>2 DEF UnlinkMarker, Goto, removal
  <2>3. CASE Rmdir(p)
    BY <2>3 DEF Rmdir, Goto, removal
  <2>4. CASE EndRemoval(p)
    BY <2>4 DEF EndRemoval, Goto, onDisk
  <2>5. CASE AcquireCleanupLock(p)
    BY <2>5 DEF AcquireCleanupLock, Goto, onDisk, removal
  <2>6. CASE GetSessionStateAt(p)
    BY <2>6 DEF GetSessionStateAt, BeginRemoval, EntriesOf, Goto, onDisk
  <2>7. CASE ScanFails(p)
    BY <2>7 DEF ScanFails, Goto, onDisk, removal
  <2>8. ASSUME NEW s \in Sessions, CleanupSessionEntry(p, s)
        PROVE  LiveSessionIntact'
    BY <2>8 DEF CleanupSessionEntry, Goto, onDisk
  <2>9. CASE RollBack(p)
    BY <2>9 DEF RollBack, BeginRemoval, EntriesOf, onDisk
  <2>10. CASE MakeCreatingDir(p)
    BY <2>10 DEF MakeCreatingDir, Goto, removal
  <2>11. CASE CreateMarker(p)
    BY <2>11 DEF CreateMarker, Goto, removal
  <2>12. CASE MakeDataDir(p)
    BY <2>12 DEF MakeDataDir, Goto, removal
  <2>13. CASE OpenSessionLock(p)
    BY <2>13 DEF OpenSessionLock, Goto, removal
  <2>14. CASE FlockSession(p)
    BY <2>14 DEF FlockSession, Goto, onDisk, removal
  <2>15. CASE PublishSession(p)
    <3>. DEFINE s == mine[p]
    <3>1. /\ pc[p] = "publish" /\ pc' = [pc EXCEPT ![p] = "running"]
          /\ name' = [name EXCEPT ![s] = "session"]
          /\ marker' = marker /\ lockFile' = lockFile /\ data' = data
          /\ flock' = flock /\ mine' = mine
      BY <2>15 DEF PublishSession, Goto
    <3>2. /\ s \in Sessions /\ marker[s] /\ data[s] # "none" /\ lockFile[s]
      BY <3>1
    <3>3. flock[s] = p
      BY <3>1 DEF PublishedIsLocked
    <3>4. \A q \in Procs \ {p} : mine[q] \in Sessions => mine[q] # s
      BY <3>2
    <3>. QED
      BY <3>1, <3>2, <3>3, <3>4
  <2>16. CASE UseSession(p)
    BY <2>16 DEF UseSession, Goto, removal
  <2>17. CASE RemoveSessionDir(p)
    BY <2>17 DEF RemoveSessionDir, BeginRemoval, EntriesOf, Goto, onDisk
  <2>18. CASE DestructorTimeout(p)
    BY <2>18 DEF DestructorTimeout, Goto, onDisk, removal
  <2>19. CASE Crash(p)
    BY <2>19 DEF Crash, onDisk
  <2>. QED
    BY <1>2, <2>1, <2>2, <2>3, <2>4, <2>5, <2>6, <2>7, <2>8, <2>9, <2>10,
       <2>11, <2>12, <2>13, <2>14, <2>15, <2>16, <2>17, <2>18, <2>19 DEF
       SessionStep
<1>. QED
  BY <1>1, <1>2 DEF SessionNext

\* Garbage stays recognisable.
LEMMA CollectableNext ==
    ASSUME SInv, [SessionNext]_sVars
    PROVE  Collectable'
<1>. USE SessionConstants DEF SInv, STypes, Phases, PhaseOf, OneOwner,
   FreshBlank, RestIsSeen, RolledBackUnlocked, LiveSessionIntact, Collectable,
   CreatePcs, RemovePcs, Sessions, NoSession
<1>1. CASE UNCHANGED sVars
  BY <1>1 DEF sVars, onDisk, removal
<1>2. ASSUME NEW p \in Procs, SessionStep(p)
      PROVE  Collectable'
  <2>1. ASSUME NEW e \in {"lock", "data"}, RemoveEntry(p, e)
        PROVE  Collectable'
    <3>1. /\ name' = name /\ marker' = marker /\ flock' = flock /\ mine' = mine
          /\ cur' = cur /\ job' = job
          /\ cur[p] \in Sessions
          /\ \A x \in Sessions : lockFile'[x] => lockFile[x]
      BY <2>1 DEF RemoveEntry, Goto
    <3>2. \A x \in Sessions : data'[x] # "none" => data[x] # "none"
      BY <2>1, <3>1 DEF RemoveEntry
    <3>. QED
      BY <3>1, <3>2
  <2>2. CASE UnlinkMarker(p)
    BY <2>2 DEF UnlinkMarker, Goto, removal
  <2>3. CASE Rmdir(p)
    <3>1. /\ marker' = marker /\ lockFile' = lockFile /\ data' = data
          /\ flock' = flock /\ mine' = mine /\ cur' = cur /\ job' = job
          /\ cur[p] \in Sessions
      BY <2>3 DEF Rmdir, Goto, removal
    <3>2. \/ name' = name
          \/ /\ name' = [name EXCEPT ![cur[p]] = "none"] /\ ~marker[cur[p]]
             /\ ~(lockFile[cur[p]] \/ data[cur[p]] # "none")
      BY <2>3, EntriesAre DEF Rmdir
    <3>. QED
      BY <3>1, <3>2
  <2>4. CASE EndRemoval(p)
    <3>. DEFINE s == cur[p]
    <3>1. /\ name' = name /\ marker' = marker /\ lockFile' = lockFile /\ data' = data
          /\ pc[p] \in RemovePcs /\ s \in Sessions
      BY <2>4 DEF EndRemoval, onDisk
    <3>2. \A q \in Procs \ {p} : mine'[q] = mine[q] /\ cur'[q] = cur[q] /\ job'[q] = job[q]
      BY <2>4 DEF EndRemoval
    <3>3. /\ \A x \in Sessions \ {s} : flock'[x] = flock[x]
          /\ flock'[s] \in {flock[s], NoProc}
      BY <2>4, <3>1 DEF EndRemoval
    <3>4. \A x \in Sessions : flock'[x] # p
      <4>1. CASE job[p] = "rollback"
        BY <2>4, <3>3, <4>1 DEF EndRemoval
      <4>2. CASE job[p] \in {"clean", "destroy"}
        <5>1. flock' = [flock EXCEPT ![s] = IF @ = p THEN NoProc ELSE @]
          BY <2>4, <4>2 DEF EndRemoval
        <5>2. ASSUME NEW x \in Sessions \ {s}, flock[x] = p PROVE FALSE
          <6>1. mine[p] = x \/ cur[p] = x
            BY <5>2, FlockHolder
          <6>2. mine[p] \in {NoSession, cur[p]}
            BY <3>1, <4>2
          <6>. QED
            BY <5>2, <6>1, <6>2
        <5>. QED
          BY <3>1, <5>1, <5>2
      <4>. QED
        BY <3>1, <4>1, <4>2
    <3>. HIDE DEF s
    <3>5. ASSUME NEW x \in Sessions, flock'[x] # NoProc
          PROVE  \/ mine'[flock'[x]] = x
                 \/ cur'[flock'[x]] = x /\ job'[flock'[x]] = "clean"
      <4>1. flock'[x] = flock[x] /\ flock[x] \in Procs \ {p}
        <5>1. flock'[x] \in {flock[x], NoProc}
          BY <3>3
        <5>2. flock'[x] = flock[x] /\ flock[x] # NoProc
          BY <5>1, <3>5
        <5>. QED
          BY <3>4, <5>2
      <4>2. \/ mine[flock[x]] = x
            \/ cur[flock[x]] = x /\ job[flock[x]] = "clean"
        BY <4>1
      <4>. QED
        BY <3>2, <4>1, <4>2
    <3>. QED
      BY <3>1, <3>5
  <2>5. CASE AcquireCleanupLock(p)
    BY <2>5 DEF AcquireCleanupLock, Goto, onDisk, removal
  <2>6. CASE GetSessionStateAt(p)
    <3>1. /\ name' = name /\ marker' = marker /\ lockFile' = lockFile /\ data' = data
          /\ mine' = mine /\ pc[p] = "probe" /\ cur[p] \in Sessions
      BY <2>6 DEF GetSessionStateAt, onDisk
    <3>2. ASSUME NEW x \in Sessions, flock[x] = p PROVE FALSE
      <4>1. mine[p] = NoSession /\ job[p] = "none"
        BY <3>1
      <4>2. mine[p] = x \/ job[p] = "clean"
        BY <3>2, FlockHolder
      <4>. QED
        BY <3>2, <4>1, <4>2
    <3>3. \A q \in Procs \ {p} : cur'[q] = cur[q] /\ job'[q] = job[q]
      BY <2>6 DEF GetSessionStateAt, BeginRemoval
    <3>4. \/ flock' = flock
          \/ /\ flock' = [flock EXCEPT ![cur[p]] = p]
             /\ cur'[p] = cur[p] /\ job'[p] = "clean"
      BY <2>6 DEF GetSessionStateAt, BeginRemoval
    <3>5. ASSUME NEW x \in Sessions, flock'[x] # NoProc
          PROVE  \/ mine'[flock'[x]] = x
                 \/ cur'[flock'[x]] = x /\ job'[flock'[x]] = "clean"
      <4>1. CASE flock'[x] = flock[x]
        <5>1. flock[x] \in Procs \ {p}
          BY <3>2, <3>5, <4>1
        <5>2. \/ mine[flock[x]] = x
              \/ cur[flock[x]] = x /\ job[flock[x]] = "clean"
          BY <5>1, FlockHolder
        <5>. QED
          BY <3>1, <3>3, <4>1, <5>1, <5>2
      <4>2. CASE flock'[x] = p /\ x = cur[p] /\ cur'[p] = cur[p] /\ job'[p] = "clean"
        BY <4>2
      <4>. QED
        BY <3>4, <4>1, <4>2
    <3>. QED
      BY <3>1, <3>5
  <2>7. CASE ScanFails(p)
    BY <2>7 DEF ScanFails, Goto, onDisk, removal
  <2>8. ASSUME NEW s \in Sessions, CleanupSessionEntry(p, s)
        PROVE  Collectable'
    BY <2>8 DEF CleanupSessionEntry, Goto, onDisk
  <2>9. CASE RollBack(p)
    BY <2>9 DEF RollBack, BeginRemoval, EntriesOf, onDisk
  <2>10. CASE MakeCreatingDir(p)
    BY <2>10 DEF MakeCreatingDir, Goto, removal
  <2>11. CASE CreateMarker(p)
    BY <2>11 DEF CreateMarker, Goto, removal
  <2>12. CASE MakeDataDir(p)
    BY <2>12 DEF MakeDataDir, Goto, removal
  <2>13. CASE OpenSessionLock(p)
    BY <2>13 DEF OpenSessionLock, Goto, removal
  <2>14. CASE FlockSession(p)
    BY <2>14 DEF FlockSession, Goto, onDisk, removal
  <2>15. CASE PublishSession(p)
    BY <2>15 DEF PublishSession, Goto, removal
  <2>16. CASE UseSession(p)
    <3>1. /\ name' = name /\ marker' = marker /\ lockFile' = lockFile
          /\ flock' = flock /\ mine' = mine /\ cur' = cur /\ job' = job
          /\ pc[p] = "running" /\ marker[mine[p]]
          /\ \A x \in Sessions : x # mine[p] => data'[x] = data[x]
      <4>1. /\ name' = name /\ marker' = marker /\ lockFile' = lockFile
            /\ flock' = flock /\ mine' = mine /\ cur' = cur /\ job' = job
            /\ pc[p] = "running"
        BY <2>16, Zenon DEF UseSession, Goto, removal
      <4>2. PICK d : data' = [data EXCEPT ![mine[p]] = d]
        BY <2>16, UsedData, Zenon
      <4>3. data \in [Sessions -> {"none", "empty", "full"}]
        BY Zenon DEF SInv, STypes
      <4>4. \A x \in Sessions : x # mine[p] => data'[x] = data[x]
        BY <4>2, <4>3
      <4>5. marker[mine[p]]
        BY <4>1
      <4>. QED
        BY <4>1, <4>4, <4>5, Zenon
    <3>. QED
      BY <3>1
  <2>17. CASE RemoveSessionDir(p)
    BY <2>17 DEF RemoveSessionDir, BeginRemoval, EntriesOf, Goto, onDisk
  <2>18. CASE DestructorTimeout(p)
    BY <2>18 DEF DestructorTimeout, Goto, onDisk, removal
  <2>19. CASE Crash(p)
    BY <2>19 DEF Crash, onDisk
  <2>. HIDE DEF SInv, STypes, Phases, PhaseOf, OneOwner, FreshBlank,
     RestIsSeen, RolledBackUnlocked, LiveSessionIntact, Collectable, CreatePcs,
     RemovePcs, Sessions, NoSession
  <2>. QED
    BY <1>2, <2>1, <2>2, <2>3, <2>4, <2>5, <2>6, <2>7, <2>8, <2>9, <2>10,
       <2>11, <2>12, <2>13, <2>14, <2>15, <2>16, <2>17, <2>18, <2>19 DEF
       SessionStep
<1>. QED
  BY <1>1, <1>2 DEF SessionNext

-----------------------------------------------------------------------------
(* The theorems.                                                           *)

\* An empty root.
LEMMA InitSInv == SessionInit => SInv
<1>. SUFFICES ASSUME SessionInit PROVE SInv
  OBVIOUS
<1>1. STypes
  BY DEF SessionInit, STypes
<1>2. Phases /\ LockHeld /\ OneOwner /\ HandedOut /\ FreshBlank
  BY SessionConstants DEF SessionInit, Phases, PhaseOf, LockHeld, UnderCleanupLock,
     OneOwner, HandedOut, FreshBlank, CreatePcs, RemovePcs, NoSession
<1>3. /\ CleanedIsDead /\ PublishedIsLocked /\ RolledBackUnlocked /\ RestIsSeen
      /\ LiveSessionIntact /\ Collectable
  BY DEF SessionInit, CleanedIsDead, PublishedIsLocked, RolledBackUnlocked,
     RestIsSeen, LiveSessionIntact, Collectable, RemovePcs
<1>. QED
  BY <1>1, <1>2, <1>3 DEF SInv

\* The invariant holds in every reachable state.
LEMMA SInvariantHolds == SessionSpec => []SInv
<1>1. ASSUME SInv, [SessionNext]_sVars
      PROVE  SInv'
  <2>1. STypes' /\ Phases' /\ LockHeld'
    BY <1>1, STypesNext, PhasesNext, LockHeldNext DEF SInv
  <2>2. OneOwner' /\ HandedOut' /\ FreshBlank'
    BY <1>1, OwnersNext DEF SInv
  <2>3. CleanedIsDead' /\ PublishedIsLocked' /\ RolledBackUnlocked' /\ RestIsSeen'
    BY <1>1, CleanedIsDeadNext, PublishedIsLockedNext, RolledBackUnlockedNext,
       RestIsSeenNext
  <2>4. LiveSessionIntact' /\ Collectable'
    BY <1>1, LiveSessionIntactNext, CollectableNext
  <2>. QED
    BY <2>1, <2>2, <2>3, <2>4 DEF SInv
<1>. QED
  BY InitSInv, <1>1, PTL DEF SessionSpec

\* No cleanup, of any process at any time, touches a session that a process is
\* creating or using: it finds there what it put there, and holds its lock.
THEOREM LiveSessionsSafe == SessionSpec => []LiveSessionIntact
<1>1. SInv => LiveSessionIntact
  BY DEF SInv
<1>. QED
  BY SInvariantHolds, <1>1, PTL

\* Whichever processes die, and at whichever system call, a directory with anything
\* in it is one that the next cleanup recognises, and its lock is held by nobody
\* but a process that has it in hand.
THEOREM GarbageIsCollectable == SessionSpec => []GarbageCollectable
<1>1. SInv => GarbageCollectable
  BY EntriesAre DEF SInv, Collectable, GarbageCollectable
<1>. QED
  BY SInvariantHolds, <1>1, PTL

=============================================================================

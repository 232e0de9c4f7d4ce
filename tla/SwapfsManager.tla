--------------------------- MODULE SwapfsManager ---------------------------
(***************************************************************************)
(* One swapfs manager (SwapfsManager, swapfs_manager.cpp) called by        *)
(* several threads.  A section under mutex_ is one step and so is a system *)
(* call or an IPC made outside it; pc[t] is where thread t stands between  *)
(* two of them.  A call the code rejects without changing anything (not    *)
(* initialised, shutting down, invalid parameters, key not found) is a     *)
(* stuttering step and has no action.                                      *)
(***************************************************************************)
EXTENDS SwapfsControl, FiniteSets, FiniteSetsExt

CONSTANTS
    Threads,        \* the threads that call the manager
    NoThread,       \* nobody
    Destroyers,     \* the threads that may call Destroy
    MaxKey,         \* bound: keys handed out by nextKeyId_
    Sizes,          \* the bufferSize values of the SwapOut requests
    DeviceSize,     \* bytes of the device when no swap file is on it
    UseDirectIo     \* config_.useDirectIo

ASSUME ManagerConstants ==
    /\ IsFiniteSet(Threads) /\ NoThread \notin Threads
    /\ Destroyers \subseteq Threads
    /\ MaxKey \in Nat
    /\ Sizes \subseteq Nat \ {0}
    /\ DeviceSize \in Nat
    /\ UseDirectIo \in BOOLEAN

Keys == 1 .. MaxKey
NoKey == 0

VARIABLES
    initialized,            \* initialized_
    shuttingDown,           \* shuttingDown_
    removeAllInProgress,    \* removeAllInProgress_
    activeOps,              \* activeOps_
    nextKeyId,              \* nextKeyId_
    status,                 \* entries_[k].status, "absent" without an entry
    readCount,              \* entries_[k].readCount
    dataSize,               \* entries_[k].dataSize
    session,                \* sessionPath_ exists / sessionLockFd_ held
    file,                   \* k's file in the data directory: none, tmp, swap
    fileSize,               \* the bytes it takes
    ctl,                    \* *control_
    refresh,                \* refreshMutex_ and the locals it protects
    pc,                     \* where each thread is
    opKey, opSize,          \* the thread's keyId / entry, bufferSize
    todo, gone, kept        \* RemoveAllData: entriesToRemove, removedEntries

flags  == <<initialized, shuttingDown, removeAllInProgress>>
table  == <<nextKeyId, status, readCount, dataSize>>
disk   == <<file, fileSize>>
batch  == <<todo, gone, kept>>
locals == <<opKey, opSize, batch>>
vars   == <<flags, activeOps, table, session, disk, ctl, refresh, pc, locals>>

ActivePcs ==
    {"refresh", "query", "apply", "reserve", "write", "rename", "undo",
     "cancel", "commit", "fill", "lookup", "read", "finish", "unlink",
     "erase", "revive", "unlinkAll", "lockAll", "finalizeAll", "end"}
IdlePcs == {"idle", "waitOps", "teardown", "busy"}

\* Bytes used by the files of the keys in S, and what is left on the device.
BytesOf(S) == MapThenSumSet(LAMBDA k : fileSize[k], S)
DeviceFree == DeviceSize - BytesOf(Keys)

\* What IStorageManager::GetFreeSize can answer now.
FreeSizeAnswers == {space \in 0 .. DeviceSize : space = DeviceFree}

NotRefreshing == [holder |-> NoThread, base |-> 0, answered |-> FALSE, space |-> 0]

Init ==
    /\ initialized = FALSE /\ shuttingDown = FALSE
    /\ removeAllInProgress = FALSE
    /\ activeOps = 0
    /\ nextKeyId = 1
    /\ status = [k \in Keys |-> "absent"]
    /\ readCount = [k \in Keys |-> 0]
    /\ dataSize = [k \in Keys |-> 0]
    /\ session = [dir |-> FALSE, lock |-> FALSE]
    /\ file = [k \in Keys |-> "none"]
    /\ fileSize = [k \in Keys |-> 0]
    /\ ctl = FreshControl
    /\ refresh = NotRefreshing
    /\ pc = [t \in Threads |-> "idle"]
    /\ opKey = [t \in Threads |-> NoKey]
    /\ opSize = [t \in Threads |-> 0]
    /\ todo = [t \in Threads |-> {}]
    /\ gone = [t \in Threads |-> {}]
    /\ kept = [t \in Threads |-> {}]

-----------------------------------------------------------------------------
(* Helpers: a thread's step, and the changes made to a key's entry.        *)

Goto(t, from, to) == pc[t] = from /\ pc' = [pc EXCEPT ![t] = to]

\* A section under mutex_.  Only the last one of RemoveAllData takes several
\* steps here, and its thread holds mutex_ while it is at "finalizeAll".
MutexFree == \A u \in Threads : pc[u] # "finalizeAll"
Locked(t, from, to) == MutexFree /\ Goto(t, from, to)

\* The entry is dropped from entries_.
Erased(S) ==
    /\ status' = [k \in Keys |-> IF k \in S THEN "absent" ELSE status[k]]
    /\ readCount' = [k \in Keys |-> IF k \in S THEN 0 ELSE readCount[k]]
    /\ dataSize' = [k \in Keys |-> IF k \in S THEN 0 ELSE dataSize[k]]

\* An unlink that succeeds.
Unlinked(k) ==
    /\ file' = [file EXCEPT ![k] = "none"]
    /\ fileSize' = [fileSize EXCEPT ![k] = 0]

AcceptingWhileShuttingDown == initialized

Accepting == initialized /\ ~shuttingDown

-----------------------------------------------------------------------------
(* Init and Destroy                                                        *)

\* The session directory is created and locked, the accountant reset.
InitManager(t) ==
    /\ MutexFree /\ pc[t] = "idle" /\ ~initialized
    /\ \/ /\ ctl.proxy # "cached"
          /\ ctl' = InitWithAvailableSpace(0, "unavailable")
       \/ \E avail \in {0} \cup FreeSizeAnswers :
              ctl' = InitWithAvailableSpace(avail, "cached")
    /\ initialized' = TRUE
    /\ session' = [dir |-> TRUE, lock |-> TRUE]
    /\ UNCHANGED <<shuttingDown, removeAllInProgress, activeOps, table, disk,
                   refresh, pc, locals>>

\* Destroy first shuts the door, also on a manager that is not initialised.
DestroyBegin(t) ==
    /\ t \in Destroyers
    /\ Locked(t, "idle", "waitOps")
    /\ shuttingDown' = TRUE
    /\ UNCHANGED <<initialized, removeAllInProgress, activeOps, table, session,
                   disk, ctl, refresh, locals>>

\* WaitForActiveOps returns true.
WaitForActiveOpsReturnsEarly(t) ==
    /\ Locked(t, "waitOps", "teardown")
    /\ activeOps <= 1
    /\ UNCHANGED <<flags, activeOps, table, session, disk, ctl, refresh, locals>>

WaitForActiveOps(t) ==
    /\ Locked(t, "waitOps", "teardown")
    /\ activeOps = 0
    /\ UNCHANGED <<flags, activeOps, table, session, disk, ctl, refresh, locals>>

\* WaitForActiveOps returns false: wait_for tests the predicate once more.
WaitForActiveOpsTimeout(t) ==
    /\ Locked(t, "waitOps", "busy")
    /\ activeOps # 0
    /\ UNCHANGED <<flags, activeOps, table, session, disk, ctl, refresh, locals>>

DestroyBusy(t) ==
    /\ Locked(t, "busy", "idle")
    /\ shuttingDown' = FALSE
    /\ UNCHANGED <<initialized, removeAllInProgress, activeOps, table, session,
                   disk, ctl, refresh, locals>>

\* RemoveSessionDir may fail part way and leave files behind; the session is
\* given up all the same.
DestroyFinish(t) ==
    /\ Locked(t, "teardown", "idle")
    /\ \E left \in SUBSET {k \in Keys : file[k] # "none"} :
        /\ file' = [k \in Keys |-> IF k \in left THEN file[k] ELSE "none"]
        /\ fileSize' = [k \in Keys |-> IF k \in left THEN fileSize[k] ELSE 0]
    /\ Erased(Keys)
    /\ ctl' = OnAllEntriesRemoved(ctl)
    /\ session' = [dir |-> FALSE, lock |-> FALSE]
    /\ initialized' = FALSE /\ shuttingDown' = FALSE
    /\ UNCHANGED <<removeAllInProgress, activeOps, nextKeyId, refresh, locals>>

\* ~ActiveOperationGuard.
EndOperation(t) ==
    /\ Locked(t, "end", "idle")
    /\ activeOps' = activeOps - 1
    /\ opKey' = [opKey EXCEPT ![t] = NoKey]
    /\ opSize' = [opSize EXCEPT ![t] = 0]
    /\ UNCHANGED <<flags, table, session, disk, ctl, refresh, batch>>

-----------------------------------------------------------------------------
(* RefreshAvailableSpaceIfNeeded, which SwapOut and GetStats both call; it *)
(* holds refreshMutex_ from the first step to the last.                    *)

\* Where the caller of the refresh goes on: ReserveSwapOut or FillStats.
AfterRefresh(t) == IF opKey[t] # NoKey THEN "reserve" ELSE "fill"

\* The check interval has not elapsed.
RefreshSkip(t) ==
    /\ refresh.holder = NoThread
    /\ Goto(t, "refresh", AfterRefresh(t))
    /\ UNCHANGED <<flags, activeOps, table, session, disk, ctl, refresh, locals>>

RefreshBegin(t) ==
    /\ refresh.holder = NoThread
    /\ Goto(t, "refresh", "query")
    /\ refresh' = [holder |-> t, base |-> ctl.committed,
                   answered |-> FALSE, space |-> 0]
    /\ UNCHANGED <<flags, activeOps, table, session, disk, ctl, locals>>

\* The IPC, outside stateMutex_.  A proxy found unavailable is not tried again.
GetFreeSize(t) ==
    /\ Goto(t, "query", "apply")
    /\ \/ UNCHANGED refresh
       \/ /\ ctl.proxy = "cached"
          /\ \E space \in FreeSizeAnswers :
                refresh' = [holder |-> t, base |-> refresh.base,
                            answered |-> TRUE, space |-> space]
    /\ UNCHANGED <<flags, activeOps, table, session, disk, ctl, locals>>

RefreshEnd(t) ==
    /\ Goto(t, "apply", AfterRefresh(t))
    /\ ctl' = RefreshApply(ctl, refresh.answered, refresh.space, refresh.base)
    /\ refresh' = NotRefreshing
    /\ UNCHANGED <<flags, activeOps, table, session, disk, locals>>

-----------------------------------------------------------------------------
(* SwapOut                                                                 *)

PrepareForSwapOut(t, n) ==
    /\ Accepting /\ ~removeAllInProgress
    /\ nextKeyId \in Keys                  \* bound MaxKey
    /\ Locked(t, "idle", "refresh")
    /\ activeOps' = activeOps + 1
    /\ nextKeyId' = nextKeyId + 1
    /\ opKey' = [opKey EXCEPT ![t] = nextKeyId]
    /\ opSize' = [opSize EXCEPT ![t] = n]
    /\ UNCHANGED <<flags, status, readCount, dataSize, session, disk, ctl,
                   refresh, batch>>

ReserveSwapOut(t) ==
    /\ pc[t] = "reserve"
    /\ IF CheckSwapOutAllowed(ctl, opSize[t])
       THEN /\ Goto(t, "reserve", "write")
            /\ ctl' = Reserve(ctl, opSize[t])
       ELSE /\ Goto(t, "reserve", "end")
            /\ UNCHANGED ctl
    /\ UNCHANGED <<flags, activeOps, table, session, disk, refresh, locals>>

\* SyncWriteEngine::Write creates the tmp file and fills it, or fails and
\* leaves no file, or one that is cut short (or whole, when fsync failed).
WriteTmp(t) ==
    LET k == opKey[t] IN
    /\ \/ /\ opSize[t] <= DeviceFree
          /\ Goto(t, "write", "rename")
          /\ file' = [file EXCEPT ![k] = "tmp"]
          /\ fileSize' = [fileSize EXCEPT ![k] = opSize[t]]
       \/ /\ Goto(t, "write", "undo")
          /\ \/ UNCHANGED disk
             \/ \E part \in 0 .. opSize[t] :
                 /\ part <= DeviceFree
                 /\ file' = [file EXCEPT ![k] = "tmp"]
                 /\ fileSize' = [fileSize EXCEPT ![k] = part]
    /\ UNCHANGED <<flags, activeOps, table, session, ctl, refresh, locals>>

RenameTmp(t) ==
    /\ \/ /\ Goto(t, "rename", "commit")
          /\ file' = [file EXCEPT ![opKey[t]] = "swap"]
       \/ Goto(t, "rename", "undo") /\ UNCHANGED file
    /\ UNCHANGED <<flags, activeOps, table, session, fileSize, ctl, refresh, locals>>

\* The result of this unlink is ignored.
UndoTmp(t) ==
    /\ Goto(t, "undo", "cancel")
    /\ Unlinked(opKey[t]) \/ UNCHANGED disk
    /\ UNCHANGED <<flags, activeOps, table, session, ctl, refresh, locals>>

CancelSwapOutForgotten(t) ==
    /\ Goto(t, "cancel", "end")
    /\ UNCHANGED <<flags, activeOps, table, session, disk, ctl, refresh, locals>>

CancelSwapOut(t) ==
    /\ Goto(t, "cancel", "end")
    /\ ctl' = CancelReservedSwapOut(ctl, opSize[t])
    /\ UNCHANGED <<flags, activeOps, table, session, disk, refresh, locals>>

CommitSwapOutEntry(t) ==
    LET k == opKey[t] IN
    /\ Locked(t, "commit", "end")
    /\ status' = [status EXCEPT ![k] = "active"]
    /\ readCount' = [readCount EXCEPT ![k] = 0]
    /\ dataSize' = [dataSize EXCEPT ![k] = opSize[t]]
    /\ ctl' = OnSwapOutCommitted(ctl, opSize[t])
    /\ UNCHANGED <<flags, activeOps, nextKeyId, session, disk, refresh, locals>>

-----------------------------------------------------------------------------
(* SwapIn                                                                  *)

PrepareForSwapIn(t, k) ==
    /\ Accepting
    /\ Locked(t, "idle", "lookup")
    /\ activeOps' = activeOps + 1
    /\ opKey' = [opKey EXCEPT ![t] = k]
    /\ UNCHANGED <<flags, table, session, disk, ctl, refresh, opSize, batch>>

\* A misaligned direct-I/O buffer is only rejected once the call is active.
SwapInMisaligned(t) ==
    /\ UseDirectIo
    /\ Goto(t, "lookup", "end")
    /\ UNCHANGED <<flags, activeOps, table, session, disk, ctl, refresh, locals>>

LookupKeyForSwapInAnyStatus(t) ==
    LET k == opKey[t] IN
    /\ pc[t] = "lookup"
    /\ IF status[k] # "absent"
       THEN /\ Locked(t, "lookup", "read")
            /\ readCount' = [readCount EXCEPT ![k] = @ + 1]
            /\ opSize' = [opSize EXCEPT ![t] = dataSize[k]]
       ELSE Locked(t, "lookup", "end") /\ UNCHANGED <<readCount, opSize>>
    /\ UNCHANGED <<flags, activeOps, nextKeyId, status, dataSize, session,
                   disk, ctl, refresh, opKey, batch>>

LookupKeyForSwapIn(t) ==
    LET k == opKey[t] IN
    /\ pc[t] = "lookup"
    /\ IF status[k] = "active"
       THEN /\ Locked(t, "lookup", "read")
            /\ readCount' = [readCount EXCEPT ![k] = @ + 1]
            /\ opSize' = [opSize EXCEPT ![t] = dataSize[k]]
       ELSE Locked(t, "lookup", "end") /\ UNCHANGED <<readCount, opSize>>
    /\ UNCHANGED <<flags, activeOps, nextKeyId, status, dataSize, session,
                   disk, ctl, refresh, opKey, batch>>

\* Any outcome of the read (done, failed, buffer too small) ends in
\* FinishSwapIn; it is open, pread, close and changes no state.
ExecuteSwapInRead(t) ==
    /\ Goto(t, "read", "finish")
    /\ UNCHANGED <<flags, activeOps, table, session, disk, ctl, refresh, locals>>

\* The last reader of a key that was removed meanwhile deletes it: what
\* follows "unlink" is the same in FinishSwapIn as in RemoveData.
FinishSwapInEachDeletes(t) ==
    LET k == opKey[t] IN
    /\ pc[t] = "finish"
    /\ readCount' = [readCount EXCEPT ![k] = @ - 1]
    /\ Locked(t, "finish", IF status[k] = "removing" THEN "unlink" ELSE "end")
    /\ UNCHANGED <<flags, activeOps, nextKeyId, status, dataSize, session,
                   disk, ctl, refresh, locals>>

FinishSwapIn(t) ==
    LET k == opKey[t] IN
    /\ pc[t] = "finish"
    /\ IF status[k] = "absent"
       THEN Locked(t, "finish", "end") /\ UNCHANGED readCount
       ELSE /\ readCount' = [readCount EXCEPT ![k] = @ - 1]
            /\ Locked(t, "finish",
                    IF status[k] = "removing" /\ readCount[k] = 1
                    THEN "unlink" ELSE "end")
    /\ UNCHANGED <<flags, activeOps, nextKeyId, status, dataSize, session,
                   disk, ctl, refresh, locals>>

-----------------------------------------------------------------------------
(* GetStats, RemoveData, RemoveAllData                                     *)

GetStatsUncounted(t) ==
    /\ Accepting
    /\ Locked(t, "idle", "refresh")
    /\ UNCHANGED <<flags, activeOps, table, session, disk, ctl, refresh, locals>>

GetStats(t) ==
    /\ Accepting
    /\ Locked(t, "idle", "refresh")
    /\ activeOps' = activeOps + 1
    /\ UNCHANGED <<flags, table, session, disk, ctl, refresh, locals>>

FillStats(t) ==
    /\ Goto(t, "fill", "end")
    /\ UNCHANGED <<flags, activeOps, table, session, disk, ctl, refresh, locals>>

\* A key that is being read is only marked, and the call is over.
PrepareRemoveEntryIgnoresReaders(t, k) ==
    /\ Accepting
    /\ status[k] = "active"
    /\ status' = [status EXCEPT ![k] = "removing"]
    /\ Locked(t, "idle", "unlink")
    /\ activeOps' = activeOps + 1
    /\ opKey' = [opKey EXCEPT ![t] = k]
    /\ opSize' = [opSize EXCEPT ![t] = dataSize[k]]
    /\ UNCHANGED <<flags, nextKeyId, readCount, dataSize, session, disk, ctl,
                   refresh, batch>>

PrepareRemoveEntry(t, k) ==
    /\ Accepting
    /\ status[k] = "active"
    /\ status' = [status EXCEPT ![k] = "removing"]
    /\ IF readCount[k] = 0
       THEN /\ Locked(t, "idle", "unlink")
            /\ activeOps' = activeOps + 1
            /\ opKey' = [opKey EXCEPT ![t] = k]
            /\ opSize' = [opSize EXCEPT ![t] = dataSize[k]]
       ELSE Locked(t, "idle", "idle") /\ UNCHANGED <<activeOps, opKey, opSize>>
    /\ UNCHANGED <<flags, nextKeyId, readCount, dataSize, session, disk, ctl,
                   refresh, batch>>

RemoveSwapFile(t) ==
    /\ \/ Goto(t, "unlink", "erase") /\ Unlinked(opKey[t])
       \/ Goto(t, "unlink", "revive") /\ UNCHANGED disk
    /\ UNCHANGED <<flags, activeOps, table, session, ctl, refresh, locals>>

\* The locked tail of RemoveData and of FinishSwapIn: drop the entry, or make
\* it active again when its file could not be deleted.
FinalizeRemoveEntryKeepsRemoving(t) ==
    LET k == opKey[t] IN
    /\ \/ /\ Locked(t, "erase", "end")
          /\ Erased({k}) /\ ctl' = OnEntryRemoved(ctl, dataSize[k])
       \/ Locked(t, "revive", "end") /\ UNCHANGED <<status, readCount, dataSize, ctl>>
    /\ UNCHANGED <<flags, activeOps, nextKeyId, session, disk, refresh, locals>>

FinalizeRemoveEntry(t) ==
    LET k == opKey[t] IN
    /\ \/ /\ Locked(t, "erase", "end")
          /\ IF status[k] = "absent"
             THEN UNCHANGED <<status, readCount, dataSize, ctl>>
             ELSE Erased({k}) /\ ctl' = OnEntryRemoved(ctl, dataSize[k])
       \/ /\ Locked(t, "revive", "end")
          /\ status' = [status EXCEPT
                 ![k] = IF @ = "absent" THEN "absent" ELSE "active"]
          /\ UNCHANGED <<readCount, dataSize, ctl>>
    /\ UNCHANGED <<flags, activeOps, nextKeyId, session, disk, refresh, locals>>

\* With no entry at all the call returns at once.
CollectRemovableEntries(t) ==
    LET all == {k \in Keys : status[k] # "absent"} IN
    /\ Accepting /\ activeOps = 0
    /\ all # {}
    /\ Locked(t, "idle", "unlinkAll")
    /\ status' = [k \in Keys |-> IF k \in all THEN "removing" ELSE status[k]]
    /\ removeAllInProgress' = TRUE
    /\ activeOps' = activeOps + 1
    /\ todo' = [todo EXCEPT ![t] = all]
    /\ UNCHANGED <<initialized, shuttingDown, nextKeyId, readCount, dataSize,
                   session, disk, ctl, refresh, opKey, opSize, gone, kept>>

\* One turn of the loop over entriesToRemove; entries_ is an unordered map.
UnlinkNext(t) ==
    \E k \in todo[t] :
        /\ Goto(t, "unlinkAll", IF todo[t] = {k} THEN "lockAll" ELSE "unlinkAll")
        /\ todo' = [todo EXCEPT ![t] = @ \ {k}]
        /\ \/ /\ Unlinked(k)
              /\ gone' = [gone EXCEPT ![t] = @ \cup {k}]
              /\ UNCHANGED kept
           \/ /\ kept' = [kept EXCEPT ![t] = @ \cup {k}]
              /\ UNCHANGED <<disk, gone>>
        /\ UNCHANGED <<flags, activeOps, table, session, ctl, refresh, opKey, opSize>>

LockForFinalize(t) ==
    /\ Locked(t, "lockAll", "finalizeAll")
    /\ UNCHANGED <<flags, activeOps, table, session, disk, ctl, refresh, locals>>

\* One turn of the loop under mutex_: an entry whose file is gone is dropped, an
\* entry that stayed on disk becomes active again.
FinalizeNext(t) ==
    /\ \/ \E k \in gone[t] :
             /\ gone' = [gone EXCEPT ![t] = @ \ {k}] /\ UNCHANGED kept
             /\ IF status[k] = "absent"
                THEN UNCHANGED <<status, readCount, dataSize, ctl>>
                ELSE Erased({k}) /\ ctl' = OnEntryRemoved(ctl, dataSize[k])
       \/ \E k \in kept[t] :
             /\ kept' = [kept EXCEPT ![t] = @ \ {k}] /\ UNCHANGED gone
             /\ status' = [status EXCEPT
                    ![k] = IF @ = "absent" THEN "absent" ELSE "active"]
             /\ UNCHANGED <<readCount, dataSize, ctl>>
    /\ Goto(t, "finalizeAll", "finalizeAll")
    /\ UNCHANGED <<flags, activeOps, nextKeyId, session, disk, refresh, opKey,
                   opSize, todo>>

\* removeAllInProgress_ is cleared in the same section.
FinalizeRemoveAllLeavesFlag(t) ==
    /\ gone[t] = {} /\ kept[t] = {}
    /\ Goto(t, "finalizeAll", "end")
    /\ UNCHANGED <<flags, activeOps, table, session, disk, ctl, refresh, locals>>

FinalizeRemoveAll(t) ==
    /\ gone[t] = {} /\ kept[t] = {}
    /\ Goto(t, "finalizeAll", "end")
    /\ removeAllInProgress' = FALSE
    /\ UNCHANGED <<initialized, shuttingDown, activeOps, table, session, disk,
                   ctl, refresh, locals>>

-----------------------------------------------------------------------------
\* A call of an idle thread, and a step inside a call.
Call(t) ==
    \/ InitManager(t) \/ DestroyBegin(t)
    \/ GetStats(t) \/ CollectRemovableEntries(t)
    \/ \E n \in Sizes : PrepareForSwapOut(t, n)
    \/ \E k \in Keys : PrepareForSwapIn(t, k) \/ PrepareRemoveEntry(t, k)

Progress(t) ==
    \/ WaitForActiveOps(t) \/ DestroyFinish(t) \/ DestroyBusy(t)
    \/ RefreshSkip(t) \/ RefreshBegin(t) \/ GetFreeSize(t) \/ RefreshEnd(t)
    \/ ReserveSwapOut(t) \/ WriteTmp(t) \/ RenameTmp(t) \/ UndoTmp(t)
    \/ CancelSwapOut(t) \/ CommitSwapOutEntry(t)
    \/ SwapInMisaligned(t) \/ LookupKeyForSwapIn(t) \/ ExecuteSwapInRead(t)
    \/ FinishSwapIn(t) \/ FillStats(t)
    \/ RemoveSwapFile(t) \/ FinalizeRemoveEntry(t)
    \/ UnlinkNext(t) \/ LockForFinalize(t) \/ FinalizeNext(t)
    \/ FinalizeRemoveAll(t) \/ EndOperation(t)

Step(t) == Call(t) \/ Progress(t) \/ WaitForActiveOpsTimeout(t)

Next == \E t \in Threads : Step(t)

Spec == Init /\ [][Next]_vars

\* Every thread keeps running once it is inside a call.  The timeout of
\* WaitForActiveOps is left to chance.
FairSpec == Spec /\ \A t \in Threads : WF_vars(Progress(t))

-----------------------------------------------------------------------------
(* What the state is for                                                   *)

\* The threads that are inside the manager, that read k, that write k's file
\* under a reservation, and that are to delete k.
Active       == {t \in Threads : pc[t] \in ActivePcs}
Readers(k)   == {t \in Threads : opKey[t] = k /\ pc[t] \in {"read", "finish"}}
WriterPcs    == {"write", "rename", "undo", "cancel", "commit"}
Writers      == {t \in Threads : pc[t] \in WriterPcs}
Deleters(k)  ==
    {t \in Threads : \/ opKey[t] = k /\ pc[t] \in {"unlink", "erase", "revive"}
                     \/ k \in todo[t] \cup gone[t] \cup kept[t]}

\* Files nobody will delete before the session goes: an unlink after a failed
\* write whose result was ignored, or a session tree only partly removed.
Leaked ==
    {k \in Keys : /\ file[k] # "none" /\ status[k] = "absent"
                  /\ \A t \in Writers : opKey[t] # k}

\* The type invariant.
TypeOK ==
    /\ initialized \in BOOLEAN /\ shuttingDown \in BOOLEAN
    /\ removeAllInProgress \in BOOLEAN
    /\ activeOps \in Nat
    /\ nextKeyId \in 1 .. MaxKey + 1
    /\ status \in [Keys -> {"absent", "active", "removing"}]
    /\ readCount \in [Keys -> Nat]
    /\ dataSize \in [Keys -> Nat]
    /\ session \in [dir: BOOLEAN, lock: BOOLEAN]
    /\ file \in [Keys -> {"none", "tmp", "swap"}]
    /\ fileSize \in [Keys -> Nat]
    /\ ctl \in ControlState
    /\ refresh \in [holder: Threads \cup {NoThread}, base: Nat,
                    answered: BOOLEAN, space: Nat]
    /\ pc \in [Threads -> ActivePcs \cup IdlePcs]
    /\ opKey \in [Threads -> Keys \cup {NoKey}]
    /\ opSize \in [Threads -> Nat]
    /\ todo \in [Threads -> SUBSET Keys]
    /\ gone \in [Threads -> SUBSET Keys]
    /\ kept \in [Threads -> SUBSET Keys]

\* The swap file of a key is there, whole, as long as a SwapIn reads it, even
\* when RemoveData marked the key in the middle of the read (the deferred
\* deletion of FinishSwapIn), and as long as the key can still be read.
ReadersKeepFile ==
    \A k \in Keys :
        status[k] = "active" \/ Readers(k) # {} =>
            file[k] = "swap" /\ fileSize[k] = dataSize[k]

\* A key marked REMOVING is never orphaned: some thread is going to delete it,
\* or a reader is still on it that will find itself the last one; and never
\* by two threads.
RemovingIsOwned ==
    \A k \in Keys :
        status[k] = "removing" =>
            \/ Readers(k) # {} /\ Deleters(k) = {}
            \/ Readers(k) = {} /\ Cardinality(Deleters(k)) = 1

\* The accountant's counters agree with the entry table and with the SwapOuts
\* under way, whatever failed in between: no reservation is lost or kept, no
\* entry is counted twice.
AccountsMatch ==
    /\ ctl.totalKeys = Cardinality({k \in Keys : status[k] # "absent"})
    /\ ctl.totalOccupied = MapThenSumSet(LAMBDA k : dataSize[k], Keys)
    /\ ctl.pending = MapThenSumSet(LAMBDA t : opSize[t], Writers)

\* Concurrent SwapOuts together never put more on the device than
\* spaceLimitBytes_ (leaked files are no longer counted by the code).
QuotaHeld == BytesOf(Keys \ Leaked) <= SpaceLimit

\* Concurrent SwapOuts together never eat into the space the device must keep,
\* although the free size is only asked for now and then and the answer is old
\* when it is applied.  What the code leaks it does not count.
DeviceFloor ==
    DeviceSize >= MinAvailable => DeviceFree + BytesOf(Leaked) >= MinAvailable

\* Both limits, although each SwapOut was let in alone while others were under
\* way.
LimitsKept == QuotaHeld /\ DeviceFloor

\* Destroy takes the session directory, its lock and the table away only when
\* no call is inside the manager.
SessionOutlivesOps ==
    Active # {} => initialized /\ session.dir /\ session.lock

\* With no call under way nothing is half done: every key is active, without
\* readers, and has its swap file, and RemoveAllData has ended.
QuiescentConsistent ==
    activeOps = 0 =>
        /\ ~removeAllInProgress
        /\ \A k \in Keys :
            \/ status[k] = "absent"
            \/ status[k] = "active" /\ readCount[k] = 0 /\ file[k] = "swap"

\* A key that was removed is not stuck half removed: its file is deleted, or it
\* can be read (and removed) again.
RemovalSettles ==
    \A k \in Keys : status[k] = "removing" ~> status[k] # "removing"

\* Destroy gets through without its timeout: once the door is shut the calls
\* under way finish and no new one comes in.
DestroyEnds ==
    \A t \in Threads : pc[t] = "waitOps" ~> pc[t] = "idle"

-----------------------------------------------------------------------------
(* The manager implements SwapStore.                                       *)

\* A key is unborn while it is not handed out or its SwapOut is under way.
SwapOutPcs == {"refresh", "query", "apply", "reserve"} \cup WriterPcs

StateOf(k) ==
    CASE status[k] = "active"   -> "live"
      [] status[k] = "removing" -> "doomed"
      [] status[k] = "absent"   ->
            IF k >= nextKeyId
               \/ \E t \in Threads : opKey[t] = k /\ pc[t] \in SwapOutPcs
            THEN "unborn" ELSE "gone"

Store == INSTANCE SwapStore WITH
            state <- [k \in Keys |-> StateOf(k)],
            readers <- [k \in Keys |-> Readers(k)]

\* Whatever the interleaving of SwapOut, SwapIn, RemoveData, RemoveAllData and
\* Destroy, a caller sees a store of keys that are born once, take no reader
\* once removed, and are deleted only when no SwapIn is on them.
ImplementsStore == Store!StoreSpec

=============================================================================

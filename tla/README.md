# A TLA+ model of file_api

This directory holds TLA+ specifications of the parts of OpenHarmony's
`filemanagement/file_api` whose correctness depends on the order in which
things happen: threads, callbacks, system calls that fail half way, and
processes that die. TLC checks the models on small instances, TLAPS proves the
main invariants of swapfs, AtomicFile, HyperAio, the streams and the asynchronous
calls for every number of threads, keys, processes, rings, requests and chunks.
`PROJECT.json` maps definitions to the lines they model; a helper whose lines lie
inside those of a definition that is listed has no entry of its own.

Paths below are relative to `src/interfaces/kits/`.

## 1. Inventory

### swapfs (`native/swapfs`, C wrapper `c/swapfs`)

A process swaps buffers out to files of a private session directory and reads
them back by key.

| Part | State | Operations |
|---|---|---|
| C API (`swapfs_c_api.cpp`) | the table of managers, per manager `activeCalls` and `destroying` | create, destroy, and a guarded forwarder per operation |
| Manager (`swapfs_manager.cpp`) | `initialized_`, `shuttingDown_`, `removeAllInProgress_`, `activeOps_`, `nextKeyId_`, `entries_` (status, reader count, size per key), the session directory and its lock | Init, Destroy, SwapOut, SwapIn, QueryData, GetStats, RemoveData, RemoveAllData |
| Space accountant (`swapfs_proxy_control.cpp`) | keys, occupied bytes, reserved bytes, bytes committed since the last answer, available space, enabled flag, proxy to the storage manager | Init, ReserveSwapOut, CancelReservedSwapOut, OnSwapOutCommitted, OnEntryRemoved, OnAllEntriesRemoved, RefreshAvailableSpaceIfNeeded, FillStats |
| Session cleaner (`swapfs_session_cleaner.cpp`) | directories, marker files and flocks under the swap root | cleanup of dead sessions when a manager starts |
| I/O engines (`swapfs_sync_io_engine.cpp`, `swapfs_uring_read_engine.cpp`) | a pool of four io_uring rings, each available or lost, in use or not | Read, Write |

Hard behaviours: every operation drops `mutex_` around its I/O, so it resumes in
a state others have changed; a key is removed while it is read; Destroy races
new calls, with a timeout that reopens the door; the storage manager's answer
is old when it is applied; every step on disk may fail on its own; a process
may die between any two of them.

What makes it correct: a file is not deleted under a reader; a key marked for
removal is deleted by exactly one thread, and by somebody; the session goes
after the last call; the accountant agrees with the table; quota and device
reserve hold under concurrent SwapOuts.

### HyperAIO (`hyperaio`)

`HyperAio` queues open, read and cancel requests on an io_uring in batches and
harvests completions on a thread of its own that calls back. State: the ring,
`pendingCqeCount_`, `destroyed_`, `stopThread_`, the harvest thread. Correct
when every accepted request is answered exactly once and `DestroyCtx` ends.

### Compression (`c/compress`)

A zip writer and reader (local headers written before the sizes are known and
rewritten after, a central directory, 16 and 32 bit limits with zip64 records
beyond them) and two streaming interfaces, which one thread feeds and another
cancels. Correct when what goes in comes out, headers agree, files that exist
are spared, and a cancelled session goes quiet.

### Files by path (`js/src/mod_fs/properties`, `cj/src`, `js/src/mod_fileio`, `js/src/mod_file`)

access, listFile, mkdir, rmdir, stat, rename, truncate, the copying and moving
of files and of whole directories and the rest are written four to five times:
for the dynamic binding (NAPI), as a core for the static one (ANI), for Cangjie,
for the older `@ohos.fileio`, and `@system.file` has its own. State: the tree of
files; descriptors while a call is under way; work handed to worker threads.
Correct when the copies agree, an answer is true, a failure leaves what it
found, no descriptor stays open, and no data is lost by a move or a copy that
stops half way.

### Objects that hold a file (`mod_fs/class_file`, `class_stream`, `class_randomaccessfile`, `class_filemapping`, `class_atomicfile`; `mod_fileio`)

A descriptor, a `FILE`, a mapping or a temporary file belongs to an object of
the program; calls on it run on worker threads, it is closed by whoever comes
first, and may be handed from one language to another. Correct when each number
has one owner who closes it once, nothing is used after its close, positions
follow the transfers, and an AtomicFile is replaced as a whole. The older
`@ohos.fileio` has bare numbers, Streams whose FILE belongs to the object alone,
and Dirs.

### Being told (`mod_fs/class_watcher`, `properties/copy*.cpp`, `copy_listener`, `native/task_signal`)

Watchers share one inotify descriptor, one polling thread and a table; start and
stop race the thread that reads. A copy with progress has a second thread that
watches the destination; a copy from another device sleeps until a service calls
back, and a task signal cancels it. Correct when callbacks go to those who asked,
descriptors and temporaries are gone afterwards, reports are right, and every
call returns.

### Asynchronous calls (`src/utils/filemgmt_libn`, `js/src/common/napi`)

`NAsyncWorkPromise` and `NAsyncWorkCallback` carry the work of every call that
does not answer at once. State: a context per call, owned by the object on the
stack until the work is queued and by the work after that; the work, with the
thread it is on; for a callback whose scheduling failed, an event that deletes
the context later. Correct when a context is deleted once, by its owner, and a
call that was accepted is answered once.

### The rest

`mod_hash`, `ts/streamrw`, environment, security label, statfs, the watcher of
`mod_fileio`, `mod_document`, and the tables and value conversions of the NAPI,
ANI, Taihe, Cangjie, Rust and C bindings.

## 2. Plan

| | Module | What it adds | |
|---|---|---|---|
| 1 | `SwapfsControl`, `SwapfsManager`, `SwapStore` | the core of swapfs and the abstract store it implements | done |
| 2 | `SwapfsProofs` | its invariants for any number of threads and keys | done |
| 3 | `SwapfsApi`, `SwapfsSession`, `UringReadEngine` | the handle table, the session directories, the pool of rings | done |
| 4 | `HyperAio`, `ArchiveStreamWrite`, `ArchiveStreamRead`, `ZipArchive`, `NAsyncWork` | the native libraries, and the contexts of asynchronous calls | done |
| 5 | `PosixFs` and the modules of path operations, `FileCalls` | files and trees through every binding | done |
| 6 | `Descriptors` and the modules of handles, `HandleCalls`, `FileMapping`, `AtomicFile` | objects that hold a file | done |
| 7 | `Inotify`, `FileWatchers`, `CopyProgress`, `RemoteCopy` | callbacks and progress | done |
| 8 | `SwapfsProofs`, `SwapfsSessionProofs`, `UringReadEngineProofs` | the refinement of the store, the handle table (which discharges the assumption of 2), sessions and rings, for any number of threads, processes and rings | done |
| 9 | `FileProofs`, `SessionsProofs` | AtomicFile, HyperAio, asynchronous calls and streams | done |
| 10 | `SumLemmas` | sums over finite sets, and with them the accounts of swapfs (in `SwapfsProofs`) and the bytes of a decompressing stream (in `SessionsProofs`) | done |
| 11 | `NotifyProofs` | CopyProgress, RemoteCopy and the descriptors of FileWatchers | done |
| 12 | `ZipArchiveProofs` | the archive that is written, and what is read back of it | done |
| 13 | `FileProofs` | FileMapping | done |

## 3. The modules

### SwapfsControl, SwapfsManager

`SwapfsManager` EXTENDS `SwapfsControl`. A section under `mutex_` is one
action, and so is each system call and each IPC made outside it; `pc[t]` is
where thread `t` stands in between. Calls that are rejected without changing
anything have no action. The accountant is a record `ctl`, and each method of
`ProxySwapControlProvider` an operator on it, because the manager calls it in
its own sections (its mutex is taken inside `mutex_` or alone, for one step).

| Code | Actions |
|---|---|
| Init, Destroy | InitManager; DestroyBegin, WaitForActiveOps (and its timeout), DestroyBusy, DestroyFinish |
| SwapOut | PrepareForSwapOut, the refresh, ReserveSwapOut, WriteTmp, RenameTmp, UndoTmp, CancelSwapOut, CommitSwapOutEntry, EndOperation |
| RefreshAvailableSpaceIfNeeded | RefreshSkip or RefreshBegin, GetFreeSize, RefreshEnd |
| SwapIn | PrepareForSwapIn, SwapInMisaligned or LookupKeyForSwapIn, ExecuteSwapInRead, FinishSwapIn |
| GetStats | GetStats, the refresh, FillStats |
| RemoveData | PrepareRemoveEntry, RemoveSwapFile, FinalizeRemoveEntry |
| RemoveAllData | CollectRemovableEntries, UnlinkNext, LockForFinalize, FinalizeNext, FinalizeRemoveAll |

Bytes are small numbers, a file is absent, a `.tmp` or a swap file of some size,
and every write, rename and unlink may fail. Time is left out: a refresh that
is due may be taken or skipped, a timeout may fire at any moment.

`SwapStore` says what the manager promises: a key is born once, takes no reader
once it is doomed, is deleted when nobody reads it, and never returns.
`ImplementsStore` maps `entries_` and the threads' positions to it.

### SwapfsApi

Adds the table `g_managerStates` and, per thread, the place in the C function
it is in. The operations are the manager's own actions, so HandleAlive is
about the manager as it really runs. `SwapfsNativeCreateManager` is
AllocateManager, InitImpl, RegisterManager; a guarded call EnterCall,
BeginOperation, ContinueOperation, LeaveCall; `SwapfsNativeDestroyManager`
BeginDestroy, DestroyImpl, DestroyImplReturns, UnregisterManager,
DeleteManager. `RestoreDestroyable` has no action: it needs a Destroy that
times out, and DestroyUndisturbed shows that Destroy finds nothing to wait for.

### SwapfsSession

The disk as several processes see it: for every session its name
(`.creating-*`, `session-*`), marker, `session.lock`, data directory, and who
holds the flocks. One action per system call another process could notice;
a directory's data is none, empty or full. `Crash` may come after any of
them and only drops the flocks. `PrepareSession` is AcquireCleanupLock, the
scan (CleanupSessionEntry, GetSessionStateAt, the removal), MakeCreatingDir to
PublishSession; a removal is RemoveEntry, UnlinkMarker, Rmdir, EndRemoval,
whoever does it. A failure of `control_->Init` removes the session in the same
way as Destroy does. Names are random in the code and never repeat here.

### UringReadEngine

The slots, the queues of each ring, the requests the kernel still works on, and
the threads that sleep on `poolCv_`. The kernel (Complete) is external: it ends
a request at any time, filled or not, and goes on with it when the ring is torn
down under it. RebuildSlot, HandleWaitFailure and the others are the functions
of the same name. `notify_all` is a step of its own, after the mutex was given
up. The destructor runs with no Read under way.

### HyperAio

The program's thread is at most inside one Start (PrepareSqe, GetSqeWithRetry,
HandleSqeError, SubmitBatch, CountPending) or DestroyCtx; the harvest thread
takes the mutex, waits and calls back. The queues of the ring are sequences,
the kernel (Complete) is external. A history is chosen to be `faulty` or not:
submits, waits and the taking of an entry fail only in the former.

### ArchiveStreamWrite, ArchiveStreamRead, ZipArchive

The streams are one thread that feeds and one that cancels, with a step
wherever the other could come in between; Start of the compressor has six, down
to the two stores of `state` and `result`. zlib is external: a call of deflate
takes a part of the input, in order, until it has no more input or no more room,
keeps any part of it and hands it out later, and may fail, after which the code
has ended the stream (`dead`) and the context does not know. It never reorders.
`ZipArchive` is the file as a set of records at offsets, with 0xFFFF and
0xFFFFFFFF scaled down to `Max16` and `Max32`. Reads and writes fail, the size of
a file differs between stat and read, and an extraction is cancelled at any
point. The output directory may hold links that lead nowhere (`Dangling`), which
`IsFileExists` does not see since it is a stat; whether such a link, or one the
extraction has made, leads somewhere by now is left open (`leading`), and a file
written through it is at its `Target`.

### NAsyncWork

Both libraries (`libn`, and the older copy in `common`), with a promise or a
callback per call, one JavaScript thread and the threads that execute. The
steps of Schedule are actions because the work may run as soon as it is queued.
Calls of the virtual machine (napi) are external and fail only in `fallible`
histories. `ThreadSafeSchedule` and `CleanRef` have no callers in the repository
and are left out.

### PosixFs and the operations on paths, FileCalls

`PosixFs` is what the code takes from the system (external): a tree, links, two
devices, and one injected error per history, or one transfer that is short
("SHORT"): `SendfileOnce` and `LibcWrite` are single calls that may move fewer
bytes than asked for, `FsSendfile` the loop of the newer interfaces that goes on
until all is sent. An operation is an operator from a state to the set of its
outcomes, written in the order of the code's calls; `Then` goes on where there
was no error, which is an early return, and `met` remembers the injected error
for the properties.

| Modules | Code |
|---|---|
| `NapiPathOps`, `TreeOps` (first part) | `mod_fs/properties/*.cpp`: `...Sync`, `...Async` (on the JavaScript thread) and `...Exec` (on a worker) |
| `CorePathOps` (first part), `TreeOps` (second part) | `*_core.cpp` and `ani/*_ani.cpp` |
| `CorePathOps` (second part), `TreeOps` (third part) | `cj/src/file_fs_*.cpp`, `copy_dir`, `move_dir` |
| `LegacyPathOps` | `mod_fileio/properties`, `mod_file/class_file` |

`FileCalls` makes a program of them. A call answered at once is one step; one
left to a worker is two, and other calls come in between. What a worker does of
one call is one step: two calls that interleave inside a recursive copy are out
of the model. The static and the Cangjie binding answer at once.

### Descriptors and the handles, HandleCalls, FileMapping

`Descriptors` (external, but for the shape of the objects) is the table of
numbers, open descriptions, advisory locks and `FILE`s with their shares.
`NapiHandles`, `CoreHandles` and `CjHandles` are the calls of the bindings on
numbers, Files, Streams and RandomAccessFiles, with the functions that hand an
object from one language to another; `FioHandles` is `@ohos.fileio`'s numbers,
Streams and Dirs. A `FILE` remembers that it has met an error, as `ferror` does.
`HandleCalls` runs them: a call of the dynamic binding or of fileio that does not
answer at once has three steps (arguments, work, completion). `FileMapping` is mmap and FileMapping over a row of places and
pages of two bytes; mmap and unmap on a worker take several steps.

### AtomicFile

The two versions of the code, the workers of its stream, and a death of the
process between any two steps, after which an object is made anew. What was
written is, per inode, with the workers (`inflight`), in the `FILE`'s buffer
(`buffer`) or in the inode (`data`). fwrite may take a part or fail, and a flush
or a close may lose what is buffered; `torn` are the inodes that lost something.

### Inotify, FileWatchers

`Inotify` is the kernel (external): numbers, instances, watches, queues.
`FileWatchers` is the three managers of watchers. A call is split wherever the
polling thread can come in; the pollers are WaitEvents, ReadNotifyEvents and
NotifyEvents as far as they hold no lock in between. Files change and go,
and an unrelated descriptor of the process may be opened at any time, so that a
number closed twice hits another.

### CopyProgress, RemoteCopy

`CopyProgress` has the copying thread, the notify thread, the program's thread
that reports, and a task signal. The unit of data is what one sendfile moves.
`RemoteCopy` has the call, the service (external, which may report after the end
and end twice), the callbacks on its threads, and the signal. A report is told at
once by the static binding (OnFileReceive); NAPI posts an event
(NapiOnFileReceive) that the program's thread runs later (NapiCallbackComplete);
Cangjie starts a thread that tests the callback (CjCallbackTests) and then uses it
(CjCallbackUses), both without a lock.

## 4. The runs

| Run | Instance | Distinct states | Properties |
|---|---|---|---|
| `swapfs_safety` | 3 threads, 2 keys, 1 destroyer | 589 thousand | TypeOK, ReadersKeepFile, RemovingIsOwned, SessionOutlivesOps, QuiescentConsistent, ImplementsStore |
| `swapfs_space` | 2 threads, 3 keys; sizes 1 and 2 under a quota of 2, or size 1 on a device of 4 that must keep 2 | 2.1 million | AccountsMatch, LimitsKept |
| `swapfs_live` | 3 threads, 1 key, fair | 42 thousand | RemovalSettles, DestroyEnds |
| `swapfs_api` | 3 threads, all of which destroy, 2 keys | 237 thousand | HandleSafe, DestroyUndisturbed |
| `swapfs_session` | 3 processes, 2 sessions | 267 thousand | LiveSessionIntact, GarbageCollectable |
| `swapfs_uring` | 3 threads, 2 rings, 3 Reads | 875 thousand | BufferQuiet, PoolSound |
| `swapfs_uring_live` | 3 threads, 1 ring, 3 Reads, fair | 92 thousand | ReadEnds |
| `zip_archive` | files, a directory, a link, names taken by a file and by a link that leads nowhere, 2 entries and a third that was begun before | 283 thousand | RoundTrip, ArchiveSound, OutputSafe |
| `native_sessions` | HyperAio: 3 requests, 2 contexts; streams: 3 tokens or 3 codes, 2 sessions; 2 asynchronous calls; fair | 172 thousand | RequestsSettled, StreamsComplete, QuietAfterCancel, CallsReturn |
| `file_calls` | trees of up to 6 paths, 11 programs of up to 3 calls | 169 thousand | InterfacesAgree, NothingDangling, AnswersHold, NothingLost, ConflictsAreRest |
| `file_objects` | AtomicFile: 3 temporaries, 1 death; handles: 17 programs of up to 4 calls on 3 numbers; mappings: 3 places | 991 thousand | AtomicFileSafe, HandlesSafe, ObjectsAgree, MappingsSafe, TransfersRight |
| `notify` | watchers: 14 plans, of up to 3 watchers; copies: a file and a tree; remote copies with every answer; fair | 571 thousand | WatchersServed, NotifyFdsSafe, EventsDelivered, ReportsRight, CopiesLeaveNothing, CopiesReturn |

Several properties are conjunctions of parts that have a name and a comment of
their own where they are defined: HandleSafe is HandleAlive and CallsCounted,
ReportsRight is ProgressRight, CopiedAll, CancelHeeded, NoStrayReport and
CancelEndsCopy. Every part has a mutated form of one definition that breaks it
in the same instance.

`native_sessions`, `file_objects` and `notify` put several components side by
side: a variable says whose history it is, and the other components stay in an
initial state. Nothing is composed there that does not interact in the code.

What they show:

- `swapfs_safety`: with a reader, a remover and a RemoveAllData or Destroy in
  flight at once, no file goes under a reader, every removal has one owner, and
  the session goes last. Three threads are the fewest in which a key has two
  readers and a remover; two keys let RemoveAllData treat one and miss another.
- `swapfs_space`: counters follow the table through every failure; several
  SwapOuts at once hold the quota, and do not eat into the device's reserve on
  an old answer of `GetFreeSize`. Two sizes make a mistaken sum visible; the two
  instances differ in which limit binds. Files the code leaks (an unlink whose
  result is ignored) are outside the code's own count and are excluded by name
  (`Leaked`).
- `swapfs_live`: removals settle and Destroy gets through.
- `swapfs_api`: the table is enough. A handle can be destroyed by any thread at
  any time and used by others, also after it is gone, and neither a deleted
  object is touched nor two Destroys run.
- `swapfs_session`: cleanup never takes a living or a growing session for a
  dead one, and a dead one stays recognisable. A `session-*` directory that
  lost its marker is kept for ever by the cleaner (a test asks for that); the
  run shows it is always empty. Three processes are an owner, a cleaner and one
  that waits; the second session is the one created while the first is
  deleted. (With three sessions the run has 4.1 million states and passes too.)
- `swapfs_uring`, `swapfs_uring_live`: a wait that fails is not the end of the
  request, and every Read returns. Three Reads on two rings reuse a ring and
  make one thread sleep.
- `zip_archive`: what is archived is extracted, in order, below and above every
  limit, with sizes that change under the writer and a cancellation at any
  point; no file that was there is touched, and an extraction that fails leaves
  one file half done at most, the one it failed at. Archives exactly on a limit are excluded by name (`OnTheLimit`); they
  are in section 7.
- `native_sessions`: HyperAio answers each request once and DestroyCtx returns if
  nothing fails; nothing is forgotten if something does. Streams lose nothing
  whatever the buffers hold and however many rounds deflate needs for an Update,
  calls return, and a Cancel that was begun after Start returned silences the
  callback within two calls (one begun earlier is "stale", see section 7). A chunk
  of three tokens for a buffer of two makes Update's loop take a second round.
  Batches of one in a queue of two make a request wait; chunks
  are larger and smaller than the buffer. Of asynchronous calls, whatever fails
  and however early the work runs, no context is freed twice or used after that,
  and a call that was accepted is answered once.
- `file_calls`: one program per question. `paths` and `trees` compare the
  bindings and forms in every tree two calls lead to; `faulty`, `cangjie`,
  `fileioFaulty`, `systemFaulty` and `devices` let one system call of the history
  fail anywhere, the last with a second device, and the two of the older
  interfaces have a short sendfile or write as well; `interleaved`, `fileioTwo` and
  `system` have calls under way that find a tree others changed. Two names and a
  depth of two are the least that has a directory in a directory, a conflict
  below it and a link.
- `file_objects`: AtomicFile is atomic under a death of the process, as long as
  the stream has lost nothing it was given. Of handles,
  two calls are under way at once and numbers are scarce, so a number that is
  closed is given out again in the same history; the programs of fileio do the
  same with its numbers, Streams and Dirs. Mappings have unaligned offsets
  and ends.
- `notify`: the polling threads, stops and starts of watchers in every order; the
  notify thread against the end of a copy; a service that answers early, late and
  twice, and reports that reach the program on three different threads.

Programs keep off what the code is known to break, so that the rest can be
shown; each case is named in the module and in section 7:

- agreement is compared only while the program may still call, and not for calls
  that section 7 lists as different (moveFile with mode 1 on a missing source,
  utimes and lock on a worker, a FileMapping length below zero);
- AnswersHold and NothingLost have exceptions with a name: a transfer that was
  short (`Cut`), a directory that could not be listed (`Unlisted`), and a source
  that has gone before the worker comes to it (`GoneMeanwhile`, with the tree left
  as it was);
- AtomicFile: Atomic is not about a base file whose inode is in `torn`;
- ZipArchive: SparesExisting is about files, and CancelLeavesNoPart not about a
  file that is written through a link that led nowhere;
- RemoteCopy: NoTemporaryLeft is not about the name in the sandbox that has no
  '/', and NoStrayReport lets NAPI and Cangjie tell after the return what came
  before the end;
- copyFile is given descriptors that are open on a file that exists;
- Cangjie's truncate, which leaks, is not called where descriptors are counted;
- `@system.file` does not move a file onto itself, and what it reads has no zero
  byte and is as long as asked for; `fileio.truncate` is called with a number
  where its effect is compared;
- a RandomAccessFile is not closed, nor a File closed or locked, under its own
  worker, and an object handed to Cangjie is not used on in a way that its
  binding does not expect (`MayCall`);
- nobody closes a Stream of fileio while a call on it is under way, or has two
  calls on one Dir under way (`MayCall`), and the two forms of a call are not
  compared where `FioDiffers` says that they differ;
- a program waits for an unmap, runs one mmap at a time, and its file only grows;
- watchers: EventsDelivered and Subscribed are stated for programs that do not
  start anew after the last stop (`Calm`), NotClosedWhileRead with one poller,
  Cangjie with one watcher; starting anew is part of the run and NotifyFdsOwned
  and CallbacksRight hold of it. Both are also about at most three watchers
  (`Few`). With four on one file, A for one event, B and D for a second and C for
  a third, they fail: after A and B were started, B stopped and started, a stop of
  C, which never started, makes `NotifyToWatchNewEvents` have the kernel watch
  for A's event only and return before it updates the table, and a start of D
  finds its event in the table and does not ask the kernel. With three watchers
  the run's plans and histories of nine calls hold. Creating a watcher that is
  there already is refused, as in the code;
- copies: nobody removes the destination during the copy; ProgressRight is about
  a destination that was not longer than the source.

Bounds: `MaxKey`, `MaxSession`, `MaxReads`, `MaxReqs`, `MaxInits`, `MaxStarts`,
`MaxInput`, `MaxEntries`, `MaxTemps`, `MaxChunks`, `MaxCrashes`, `MaxFd`,
`MaxPollers`, `MaxProgress`, the set `AsyncCalls` and the `max` and `width` of a program cap counters in
the guards; the numbers of threads, processes and rings are the size of constant
sets. Deadlock is checked in the swapfs runs and in `zip_archive`; the other
histories end when a program has made its calls.

Fairness. `FairSpec` assumes that a thread inside a call keeps running
(weak fairness of `Progress` per thread): the code never blocks there but on
`mutex_` and on system calls that return. The timeout of WaitForActiveOps and
the arrival of calls are left to chance. `FairUringSpec` adds that the kernel
ends every request, and that `io_uring_wait_cqe` does not fail for ever while
a completion is there (strong fairness): the code's loop has no bound, so
without it a Read may spin. New Reads are finitely many, so the run does not
speak about starvation by newcomers at `AcquireSlot`, which a condition
variable does not exclude. The other specifications have weak fairness of each
thread's own steps: callers and harvest thread of HyperAio with the kernel, the
thread inside Update or End with a user's callback that returns, the JavaScript
thread and the executing threads of asynchronous calls, the pollers of
watchers, the two threads of a copy, and, in RemoteCopy, of the service ending
its sessions. The last is not the code's to guarantee: a service that dies
leaves the call waiting, since it has no timeout.

## 5. The proofs

TLC's runs are small instances. The theorems below hold for every value of the
constants that the named assumptions allow (`ManagerConstants`,
`SessionsConstants` and the like: sets of threads are finite, sizes are numbers,
queues and buffers are not empty; `JobsAssumption`, `CallsAssumption` and
`PlansAssumption` say that the jobs, remote calls and plans of `notify` are
records of the right shape, with trees of any size). TLC evaluates those
assumptions on the runs.

| Module | Theorem | What is proved of every reachable state |
|---|---|---|
| `SwapfsProofs` | TypeCorrect | TypeOK; the unsigned `activeOps_` and `readCount` never pass below zero |
| | SessionSafe | SessionOutlivesOps |
| | ReadersSafe | ReadersKeepFile |
| | RemovalOwned | RemovingIsOwned |
| | QuiescentSafe | QuiescentConsistent |
| | StoreImplemented | ImplementsStore: every step is one of `SwapStore` or a stutter |
| | AccountsRight, LimitsHold | AccountsMatch, LimitsKept |
| | HandleIsSafe, DestroyRunsAlone | HandleSafe, DestroyUndisturbed |
| | ManagerSafeBehindApi | the manager's invariants again, accounts and limits included, without AtMostOneDestroyer |
| `SwapfsSessionProofs` | LiveSessionsSafe, GarbageIsCollectable | LiveSessionIntact, GarbageCollectable |
| `UringReadEngineProofs` | BuffersAreQuiet, PoolIsSound | BufferQuiet, PoolSound |
| `FileProofs` | AtomicFileIsSafe | AtomicFileSafe |
| | MappingsAreSafe | MappingsSafe |
| `SessionsProofs` | RequestsAreSettled | RequestsSettled: HyperAio and the asynchronous calls |
| | StreamsGoQuiet | QuietAfterCancel of both streams |
| | StreamsAreComplete | StreamsComplete of both streams |
| `NotifyProofs` | NothingLeftBehind | CopiesLeaveNothing: local and remote copies |
| | ToldRight | ReportsRight: local and remote copies |
| | WatchersFdsSafe | NotifyFdsSafe |
| `ZipArchiveProofs` | OutputIsSafe | OutputSafe |
| | ArchiveIsSound | ArchiveSound |
| | RoundTripHolds | RoundTrip |

None of these properties is inductive. Each module strengthens them to an
invariant that is, which TLC checked on the run's instance before it was proved.
A part of an invariant has a lemma, with one step per action.

**SwapfsProofs, the manager.** `IInv` consists of

- `Types`, `ControlTypes`: the types;
- `OpsCounted`, `ReadsCounted`: `activeOps_` is the number of threads inside a
  call, `readCount` the number of readers of the key. The cardinalities are
  what makes "zero" mean "nobody";
- `Discipline`: a thread with a key in hand has a key (KeyHeld), a writer is
  alone on a key that is not in the table (WriterOwnsKey, FreshKeysAbsent),
  readers have an entry (ReadersHaveEntry), a deleter is alone on a key without
  readers (DeleterIsAlone), the lists of RemoveAllData belong to one thread
  (BatchIsAlone), and what is marked has an owner (RemovingHasOwner);
- `FilesFollow`: where the file of a key is, given its entry and its writer;
- `DoorShut`: once Destroy has seen zero it stays zero, and the session is
  there while anybody is inside.

It assumes `AtMostOneDestroyer`, and needs it: of two concurrent Destroys one
may time out and clear `shuttingDown_`, which opens the door while the other has
already seen zero. Nothing in the class forbids it; the C API does.

`SumLemmas` has what several modules need of finite sets and sums: that a sum
over a finite set is a number, takes out an element, grows with its terms and
agrees where its terms do. The library's induction theorems have an operator as a parameter; these
argue from a least counterexample, which is a set.

**SwapfsProofs, the store.** The mapping takes a key to unborn, live, doomed or gone by
its entry and by who is still writing it. With `IInv`, a step of the manager
changes one key the way the store does, or none; the finalisations of
RemoveAllData are one deletion each.

**SwapfsProofs, the accounts.** `AccountsInv` says that what is not in the table
counts for nothing (EntriesEmpty), that a file is as large as its entry or its
writer's request (FilesBounded), that whoever refreshes holds an answer of
`GetFreeSize` that was true once (RefreshHeld), and that used, released and
in-flight space are the sums over entries and writers (Books). The limits follow
because a reservation is made against the sum of both.

**SwapfsProofs, the handle.** `ApiInv` adds to `IInv`: who creates or destroys the handle is
alone in the API (OwnerAlone), the place in the API fits the place in the
manager (PhasesMatch) and the table (TableMatches), and `activeCalls` counts the
threads behind the guard (CallsAreCounted). A Destroy is therefore the only one,
and each step of the manager is one `IInv` survives: the assumption of
a single destroyer is discharged.

**SwapfsSessionProofs.** `SInv` says what a process has in hand at each system call
(Phases), that cleanup and creation exclude each other by `cleanup.lock`
(LockHeld), that a session has one owner (OneOwner), that what a cleanup deletes
is nobody's or its owner is deleting it too (CleanedIsDead), and that a removal
takes the marker away only after everything else (RestIsSeen, Collectable).

**UringReadEngineProofs.** `UInv` follows the request of each Read: a ring is one
Read's (Holding), is clean when free (FreeIsClean), and while its Read waits
carries that Read's request once, submitted or completed, and besides only
cancellations, in which case the ring is to be rebuilt (Waiting).

**FileProofs, AtomicFile.** `AInv` has two halves. Ownership: which inode is the base
file, which are temporaries, which one the object and its stream name. Followed:
what was given is, in order, in the temporary's inode, in the `FILE`'s buffer and
with the workers (Written) unless the stream has lost some of it (`torn`); the base file holds what
was committed with nothing on its way to it (Held), except after a FinishWrite
that came while a write was still under way. Both are exceptions AtomicFileSafe
names.

**FileProofs, FileMapping.** `MapsInv` is about the memory and about the calls the
workers are at. `Sound(s, D)`: every valid entity but those of D has its pages,
no two have the same place, and every place that is mapped is one entity's; D are
the mappings whose pages are gone while the entity was not told yet (Dying). Of a
call (TaskOk, Alone): there is one mmap at most, so the length it read before it
lets the file grow is still the file's, and what it has made is the last entity,
on which nobody else is yet; an unmap is alone on its mapping. Calls that map and
unmap nothing keep all of it (Touches). `MapConstants` asks for a page that is not
empty and for programs of well-formed calls. `MappingsAreSafe` speaks of all
histories of `file_objects`, with MapPrograms any table of programs that has a
"two", before which the mappings rest in the other histories (MapsAssumption,
which TLC evaluates on the run's table, `MCMapPrograms`).

**SessionsProofs.** HyperAio: a request is in one of reqs, submission queue, kernel
and completion queue, once (OnePlace), unanswered there if nothing fails
(Unanswered), and a thread in a Start still has requests (HyperControl).
Asynchronous calls: a call is in one of seven stations (Unborn, Beginning,
Handing, Refused, Accepted, Settled, Dropped), each of which fixes who owns its
context. Streams: how many callbacks may come of a call at each of its steps
after it has looked at the result (WriterQuiet, ReaderQuiet; of the compressor
also where Start and a Cancel stand to each other, so that a result is
overwritten only for a Cancel begun before Start returned), and that delivered, buffer, zlib's
share and the rest of the input are together what was given, after what an earlier
Update has left in the stream (WriterFollows); of the decompressing stream, that delivered bytes, the block, what zlib
holds, the input and the codes to come expand to the whole (ReaderFollows), for
which the fold over the codes is a sum that can be cut anywhere (BytesSplit).

**NotifyProofs.** `CopyInv` has what the copying and the notify thread have in hand
at each step (CopyShapes, CopyPhases), who is to close which descriptor (FdsInv:
the thread that ends last does), how much of each file is there (WholeInv: the
bytes reported so far and those of the files still to come are the total), what
a cancellation has reached (CancelInv) and what was reported (ProgressInv).
`RemoteInv` follows the temporary directory and the session of a remote copy
through a service that may answer early, late and twice, and its reports from the
service to the program: what is posted or tested was received before the end of
the session was told, since the callback is dropped with it. `WatchInv` says that
the two numbers the manager knows are the two instances open (FdsHeld), what a
polling thread has in hand (PollersShape), and that there is one at most where
no start doubled it (LoneReader).

**ZipArchiveProofs.** `OutInv` is enough for the output directory: finitely many names
are taken, so AutoRenamePath finds one that is free or a link that leads nowhere,
only such a link is removed or written through, and nothing is half there before
the extraction has ended, with an error or cancelled, at the entry it was at. `WriteInv` follows the file: every record
ends before the position of the stream (Bodies), the entry being written is the
last and its header has the length it will keep (AtEntry), data begins where no
other data does (DataAlone), a finished entry is told of by its local header, its
data, its directory header and the program's account alike (Finishes), and once
the file is closed its records are those of the entries, the directory and the
end (ClosedWell). Shorter is what makes the end record readable: the directory
takes less room than the entries, unless these are beyond the limit, so its size
alone never calls for the 64-bit record, which the reader looks for by the number
of entries and the offset only. `ReadInv` then says that the reader is at a header
of the directory and has extracted the entries before it. `ZipAssumption` asks
that Zip64From is less than Max32 (in the code by `ZIP_4GB_MAX_UNCOMPRESSED`),
that deflate produces something, and that what is in the output directory
beforehand is finite and no file of it has the name of a directory of the archive.

**Only model-checked.**

- All liveness (RemovalSettles, DestroyEnds, ReadEnds, CallsReturn, EventsDelivered,
  CopiesReturn): fairness and ENABLED are out of the prover's reach.
- WatchersServed: Subscribed holds of three watchers and not of four (section 4),
  so it has no proof for every number of them, and CallbacksRight filters the
  queue of events, about which the provers know nothing.
- Everything of `FileCalls`: `CorePathOps`, `NapiPathOps`, `LegacyPathOps` and
  `TreeOps` use RECURSIVE operators for recursion over trees, with which this
  prover has no SMT backend.
- The handles (HandlesSafe, ObjectsAgree, TransfersRight): HandlesSafe is not true
  of every program (a RandomAccessFile whose object cannot be made leaves its
  number open), so it holds of the programs `MCFileObjects` lists, which fail
  elsewhere; agreement compares sets of outcomes that are computed for each of
  those programs.

## 6. What is not modelled

- Contents of buffers in swapfs, errno mapping, logging, permissions, and the
  path checks of `ResolveConfig`, `PrepareSwapRoot` and `ResolveRemovalPath`.
- `QueryData` of swapfs: it only reads the table, in one section.
- The io_uring engine's destructor when a Read is still under way. In that case
  ReleaseSlot's `notify_all` after the unlock may touch a destroyed condition
  variable; the C API does not let it happen.
- Compression: BufferRead and BufferWrite, the accelerator plugin, the
  arithmetic of the progress callback, times, attributes and name encodings.
- Power loss: the code syncs nowhere in AtomicFile, so there is nothing to show.
- Two calls that interleave inside the work of one (a recursive copy is one step).
- The conversion of values, the tables of exported names, the Taihe interface
  files, `UriToAbsolute`.
- `@ohos.fileio`'s watcher, its remote uris, and the result of its lseek beyond
  2^31; hash,
  security label, statfs and environment, which are one call of another library
  each, without state; `@ohos.document`, which only throws; `connectdfs`, which
  passes a call on; the Rust and TypeScript helpers.

## 7. Where the code and its documents, tests or copies disagree

Met while modelling; the models follow the code, and the properties of section 4
leave these cases out by name. Paths are relative to `src/interfaces/kits/`
unless they begin with `docs/` or `src/`.

- `c/compress/frameworks/format/zip/zip_reader_impl.c:117`: An EOCD whose count is exactly 0xFFFF is taken for zip64, but the writer adds the zip64 records only above 0xFFFF; the search finds no locator, the count stays 0 and OH_Archive_Reader_ExtractAllFile maps END_OF_LIST to OK. src/interfaces/kits/c/compress/interface/inner_api/archive/include/oh_archive.h:234 says "Extract all files from the archive."
- `c/compress/frameworks/format/zip/zip_reader.c:778`: SaveFile calls DeleteTempFileWithRootPath only when it was cancelled (lines 773 and 793); after a read, write or CRC error the part of the file stays. The comment at src/interfaces/kits/c/compress/frameworks/format/zip/zip_reader.c:107 says "删除当前正在解压Item发生异常生成的文件" (delete the file of the item being extracted when an exception happened).
- `c/compress/frameworks/stream/compress/stream_deflate.c:119`: DeflateWriteBuf returns `len < 0 ? ret : ARCHIVE_WRITE_ERROR` where ret is still Z_OK, so a failed write of the base stream is reported as success and its bytes are missing. src/interfaces/kits/c/compress/interface/inner_api/archive/include/oh_archive.h:298 says of Add "Returns OH_ARCHIVE_OK if successful".
- `c/compress/frameworks/stream/file/stream_file_posix.c:169`: The result of fclose is ignored, so that a full disk at the last flush goes unnoticed. src/interfaces/kits/c/compress/interface/inner_api/archive/include/oh_archive.h:305 says of Close that it "flushes any buffered data to the output".
- `c/compress/interface/inner_api/archive/src/oh_archive_streamwrite.c:288`: End looks at ctx->result for the last time before the last deflate; a Cancel after that returns OH_ARCHIVE_OK and End hands out the remainder, returns OH_ARCHIVE_OK and makes the state W_STREAM_ENDED. src/interfaces/kits/c/compress/interface/inner_api/archive/include/oh_archive.h:386 says of Cancel "Forces cancellation of the current blocking operation" and "Returns OH_ARCHIVE_OK if cancellation is successful".
- `c/compress/interface/inner_api/archive/src/oh_archive_streamwrite.c:246`: Start stores W_STREAM_STARTED and then OH_ARCHIVE_OK as the result: a Cancel between the two, or one that began before Start and resets the stream after it, returns OH_ARCHIVE_OK and its result is overwritten, so the session goes on over a stream that was reset. oh_archive.h:386 says of Cancel "Returns OH_ARCHIVE_OK if cancellation is successful".
- `c/compress/interface/inner_api/archive/src/oh_archive_streamwrite.c:110`: A deflate that fails (a second Update without data is enough, with Z_BUF_ERROR) ends the zlib stream; the context does not remember it, and every Start after that fails. Start leaves the input of an Update that failed in the stream, so an End without another Update compresses it into the next session.
- `c/compress/frameworks/format/zip/zip_reader.c:817`: A link entry unlinks what has its name before its target is checked. AutoRenamePath looks with stat (archive_utils.c:440), to which a link that leads nowhere is absent: it is deleted even when the new one is refused. A file entry of that name is written through the link, to wherever it leads, and a cancellation then removes the link and leaves the part.
- `c/compress/interface/inner_api/archive/src/oh_archive_reader.c:395`: Update's loop stops as soon as avail_in is 0, although inflate may then hold decoded bytes for which the block had no room; End does not call inflate again and an Update without data is refused, so that the tail of the stream is lost and both return OH_ARCHIVE_OK. src/interfaces/kits/c/compress/interface/inner_api/archive/include/oh_archive.h:460 says of End "End the decompression, flush all remaining data".
- `hyperaio/src/hyperaio.cpp:210`: A batch whose io_uring_submit failed is added to pendingCqeCount_ all the same; the harvest thread then holds cqeMutex_ in io_uring_wait_cqe for completions that cannot come, and DestroyCtx blocks on the mutex. src/interfaces/test/unittest/hyperaio/hyperaio_test.cpp:319 ("getting sqe success but submit failed") calls DestroyCtx after it and expects 0 at line 337; it passes because its liburing is a stub whose wait returns.
- `js/src/mod_fs/class_atomicfile/atomicfile_n_exporter.cpp:380`: StartWrite tests mkstemp's result and drops it, so the descriptor stays open for ever; fs_atomicfile.cpp closes it. docs/agents/js-fs-api.md:71 says of descriptors "每条路径都要明确所有权" (every path has to be clear about the ownership).
- `js/src/mod_fs/class_atomicfile/atomicfile_n_exporter.cpp:425`: FinishWrite closes the stream with closeSync and looks at no result; closeSync (class_stream/stream_n_exporter.cpp:187) resets the shared FILE, whose fclose is not looked at either, nor is it in Close of fs_stream.cpp:242, and streamrw.ts does not wait for its flush. On a full disk a file that lacks what was buffered, or a part that fwrite took of a chunk, is renamed over the base file and FinishWrite succeeds.
- `js/src/mod_fs/properties/access_core.cpp:174`: DoAccess, DoRmdirent and DoStat refuse an empty path with EINVAL; the dynamic binding passes it to the system, which has ENOENT for it, so access answers false. docs/agents/ani-static-binding.md:72 says "保持错误码、边界条件和资源所有权一致" (keep error codes, boundary conditions and ownership the same).
- `js/src/mod_fs/properties/move_core.cpp:151`: MoveFile of the static binding first asks for write access to the source, so a missing source is ENOENT (and one that may not be written EACCES); move.cpp looks at the destination first and answers EEXIST. docs/agents/ani-static-binding.md:72 says "保持错误码、边界条件和资源所有权一致".
- `cj/src/file_fs_impl.cpp:412`: Mkdir with an option goes to Mkdirs without the test for an existing path that mkdir_core.cpp and prop_n_exporter.cpp make before and after it, so a recursive mkdir of what exists succeeds instead of EEXIST. docs/agents/architecture.md:94 asks "同一个操作是否有 NAPI、ANI、CJ、C 变体需要保持一致？" (are there variants of one operation that have to stay the same).
- `js/src/mod_fs/properties/read_lines.cpp:206`: When GetFileSize fails the iterator, which has opened the file, is dropped without being freed. docs/agents/js-fs-api.md:74 says "对象实例化失败时，关闭 fd" (when the object cannot be made, close the descriptor).
- `cj/src/file_fs_impl.cpp:1000`: Truncate opens the file and returns without closing it; truncate.cpp and truncate_core.cpp close it. docs/agents/js-fs-api.md:71 says "每条路径都要明确所有权" (every path has to be clear about the ownership).
- `js/src/mod_fs/properties/movedir_core.cpp:191`: RecurMoveDir, like those of movedir.cpp and cj/src/file_fs_impl.cpp:707 and the copy of cj/src/copy_dir.cpp:89, does not test the result of scandir, so a directory that cannot be listed is treated as empty; MoveDirFunc then removes the source with everything in it and reports success. interfaces/test/unittest/js/mod_fs/properties/movedir_core_test.cpp:224 expects of a success "EXPECT_TRUE(FileUtils::Exists(expectedDestSubFile))".
- `js/src/mod_fs/properties/movedir_core.cpp:234`: When dest is the parent of src the destination path is the source itself: mode 3 removes it as the destination in the way, and in mode 2 everything is moved onto itself and then removed as the source; nothing tests for it, as AllowToCopy of copydir.cpp does. interfaces/test/unittest/js/mod_fs/properties/movedir_core_test.cpp:222 expects of a success "EXPECT_TRUE(FileUtils::Exists(expectedDestDir))".
- `js/src/mod_fs/properties/movedir.cpp:220`: The source is looked at when the call is made, not when it is worked on: when it has gone meanwhile and the destination exists, scandir fails unnoticed and the move is a success. interfaces/test/unittest/js/mod_fs/properties/movedir_core_test.cpp:118 has "FAILURE when src path is not exists".
- `js/src/mod_fs/class_watcher/fs_file_watcher.cpp:349`: A thread that ends clears the cache although a watcher has been created and started meanwhile (its start found taskRunning_ still set and made no thread): that watcher is never called. Between the two statements of DestroyTaskThread a start also assigns to a thread object that is still joinable, which ends the process.
- `js/src/mod_fs/class_watcher/fs_file_watcher.cpp:260`: A thread that begins only after the stop that was to end it finds run_ reset, sets it and polls -1 for ever with taskRunning_ set: no later watcher gets a thread.
- `js/src/mod_fs/class_watcher/fs_file_watcher.cpp:331`: The name of the member is appended to the same string for every watcher matched: the second one is told directory/name/name. watcher_entity.cpp:329 starts from the directory's name each time.
- `cj/src/watcher_impl.cpp:200`: NotifyEvent calls the callback of the watcher whose start made the thread for every watcher matched.
- `js/src/mod_fs/class_watcher/watcher_entity.cpp:250`: Two starts in a row leave two workers that both find run_ unset: the first to end its read resets reading_, and a stop then closes the instance the other one reads from.
- `js/src/mod_fs/class_watcher/watcher_entity.cpp:87`: The entry of a file that was deleted stays in the table; a start after the file was made anew finds it watched and watches nothing.
- `js/src/mod_fs/properties/copy_core.cpp:732`: poll waits without a limit and only the IN_IGNORED of a watch still there wakes it: when the destination is removed during the copy its watches are gone already, and the call waits in join for ever.
- `js/src/mod_fs/properties/copy_core.cpp:438`: SubscribeLocalListener returns without closing the inotify descriptor when eventfd fails; the callback object that would close it has not got it yet.
- `js/src/mod_fs/properties/copy_core.cpp:657`: The destination is opened without O_TRUNC: when it was longer, its old size is reported as progress, above the total, and the total is not reported in the end.
- `cj/src/copy.cpp:460`: IN_IGNORED carries no name: for a directory the size of the directory itself becomes the progress.
- `js/src/mod_fs/properties/copy_core.cpp:629`: CloseNotifyFdLocked gives up readMutex before it closes and resets closed: the notify thread may begin a read in between.
- `cj/src/translistener.cpp:228`: OnFinished and OnFailed set the result without cvMutex_: a call between its look and its sleep misses the notification.
- `js/src/mod_fs/properties/copy_listener/trans_listener_core.cpp:167`: A path in the sandbox without a / returns EIO with the temporary directory left; trans_listener.cpp:171 and cj/src/translistener.cpp:125 do the same.
- `js/src/mod_fs/properties/copy_listener/trans_listener.cpp:301`: OnFileReceive only posts an event: a report may be told after the call has returned.
- `cj/src/translistener.cpp:199`: A thread of its own tests callback_ and uses it at line 204, without callbackMutex_ and with a bare this: the callback may be gone in between, and the listener once the call has returned. Reports may also overtake each other.
- `native/task_signal/task_signal.cpp:40`: Between MarkRemoteTask and SetFileInfoOfRemoteTask a cancellation goes to another manager with empty names and has no effect; remoteTask_ and sessionName_ are never reset, so that a signal used again for a local copy cancels the old session instead.
- `js/src/mod_fs/properties/create_randomaccessfile.cpp:141`: InstantiateRandomAccessFile: a class or an entity that cannot be made leaves the descriptor open in the dynamic binding, and so does the core version; wrong options of a File throw EINVAL and leave the duplicate open. docs/agents/js-fs-api.md:71 says of descriptors "每条路径都要明确所有权" (every path has to be clear about the ownership).
- `js/src/mod_fs/class_randomaccessfile/fs_randomaccessfile.cpp:282`: CloseSync of the static binding never clears the entity of a RandomAccessFile: a second close closes a number that may belong to another object by then. The dynamic binding removes the entity.
- `js/src/mod_fs/class_randomaccessfile/randomaccessfile_n_exporter.cpp:181`: ReadExec and WriteExec of a RandomAccessFile, and lock of a File, use the entity's address on a worker thread; a close meanwhile frees it. A Stream shares its FILE with the worker.
- `js/src/mod_fs/class_randomaccessfile/randomaccessfile_n_exporter.cpp:44`: DoReadRAF and DoWriteRAF return ENOMEM (12) without memory, which the callers take for the number of bytes moved; the same in the core and in Cangjie.
- `js/src/mod_fs/properties/mmap_core.cpp:114`: ExpandFileIfNeeded asks for the size and then sets it: of two mmaps of one file on two workers the later may cut off what the earlier one has mapped, and a write that makes the file longer in between is lost.
- `js/src/mod_fs/class_filemapping/fs_filemapping.cpp:362`: Unmap on a worker unmaps before it marks the entity: a read meanwhile faults, and of two unmaps the second may unmap what another mmap has put there.
- `js/src/mod_fs/properties/mmap_core.cpp:187`: Without memory for FsFileMapping the entity's destructor has already unmapped what DoMmap unmaps again.
- `js/src/mod_fs/class_file/ani/file_ani.cpp:56`: The static binding takes any value of exclusive for true, the dynamic one looks at it; docs/agents/ani-static-binding.md:72 asks to keep "错误码、边界条件和资源所有权一致".
- `js/src/mod_fs/class_filemapping/napi/filemapping_napi.cpp:105`: A length below zero is left out of account by the dynamic binding of FileMapping.read and write and is out of bounds for the static one.
- `js/src/mod_fileio/properties/truncate.cpp:48`: truncateSync throws for a length that is no number and then goes on without returning, so the file is cut to nothing.
- `js/src/mod_file/class_file/file_n_exporter.cpp:487`: FileCopy takes any count of one sendfile but -1 for a success: after a short one (sendfile moves 2 GiB at most) the copy is a part, and move removes the source all the same (lines 652 and 620). The write of writeText and writeArrayBuffer (767, 812) may be short in the same way. copy_file.cpp of mod_fs goes on until all is sent.
- `js/src/mod_fileio/properties/copy_file.cpp:80`: A short write is answered with errno, which nothing has set: it may be 0, and the copy is then a success.
- `js/src/mod_file/class_file/file_n_exporter.cpp:652`: move of a file onto itself (or onto a link to it): FileCopy reports success because source and destination are one file, and MoveExec then removes it.
- `js/src/mod_file/class_file/file_n_exporter.cpp:469`: FileCopy keeps its result in a bool, so a failed copy returns 1, which is none of the errors CopyComp and MoveComp know: neither success nor fail is called, only complete.
- `js/src/mod_file/class_file/file_n_exporter.cpp:499`: copy of a directory makes an empty directory and reports success.
- `js/src/mod_file/class_file/file_n_exporter.cpp:602`: move of a directory leaves the links in it, and so the directory itself, behind and reports success.
- `js/src/mod_file/class_file/file_n_exporter.cpp:908`: readArrayBuffer keeps what it read in a string that ends with the first zero and answers with as many bytes as were asked for: those after it are not the file's.
- `js/src/mod_fileio/properties/rmdirent.cpp:60`: rmdir looks at the entries with stat, so the directory a link leads to is emptied; the rmdir of @ohos.file.fs does not follow links.
- `js/src/mod_fileio/properties/copy_file.cpp:64`: copyFile opens the destination without O_TRUNC: what was longer keeps its end. copy_file.cpp of mod_fs truncates it.
- `js/src/mod_fileio/properties/open.cpp:64`: openSync refuses O_CREAT without a mode, and O_DIRECTORY too since the bits of O_TMPFILE contain it; open does not ask for one and lets the system take what it finds.
- `js/src/mod_fileio/properties/posix_fallocate.cpp:69`: posix_fallocate returns its error number and the code looks for -1, which it never is: every failure is reported as a success.
- `js/src/mod_fileio/class_stream/stream_n_exporter.cpp:249`: read and write of a Stream give their worker the bare FILE and close frees it meanwhile; in the programs modelled nobody closes a Stream with a call under way (the Stream of @ohos.file.fs shares it).
- `js/src/mod_fileio/class_stream/stream_n_exporter.cpp:255`: read of a Stream tells a failure by ferror, which stays set after an earlier one, and takes the code from an errno that may then be 0: the worker's form reports success and nothing read.
- `js/src/mod_fileio/class_dir/dir_n_exporter.cpp:90`: The lock_guard of close, read and listfile is a temporary without a name and is unlocked at once; two closes under way both pass the check and the second hands a null DIR to closedir.
- `js/src/mod_fileio/class_dir/dir_n_exporter.cpp:250`: readSync of a Dir that cannot make a Dirent returns undefined and throws nothing, and the entry is lost.
- `src/utils/filemgmt_libn/src/n_async/n_async_work_promise.cpp:64`: A promise whose creation or queueing fails leaves its context behind; nothing frees it.
- `src/utils/filemgmt_libn/src/n_async/n_async_work_callback.cpp:107`: CallbackComplete returns without calling back when the scope cannot be opened; an accepted call is then never answered, and its context kept.

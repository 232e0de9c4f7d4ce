---------------------------- MODULE FileWatchers ----------------------------
(***************************************************************************)
(* The watchers of files and directories.  The manager of all watchers of  *)
(* the process is written three times: watcher_entity.cpp for the dynamic  *)
(* binding ("napi"), fs_file_watcher.cpp with its cache for the static one *)
(* ("core") and watcher_impl.cpp for Cangjie ("cj").  They keep the same   *)
(* tables and differ in their locks, in who polls and in who closes.       *)
(*                                                                         *)
(* One thread of the program creates, starts and stops watchers, a call in *)
(* as many steps as there are places where a polling thread can come in    *)
(* between; polling threads, one for every start that makes one, wait for  *)
(* events and hand them to the callbacks.  Callbacks run later on the      *)
(* program's thread: what is modelled is their being sent.                 *)
(***************************************************************************)
EXTENDS Inotify, SequencesExt

CONSTANTS
    Watch,          \* of each watcher: its file, its events, its callback
    Plans,          \* what is tried, see Plan
    AllEvents,      \* IN_ALL_EVENTS
    MaxPollers      \* bound: polling threads at a time

ASSUME PlansAssumption == Plans # {} /\ \A x \in Plans : x.binding \in {"napi", "core", "cj"}

Watchers == DOMAIN Watch
Pollers == 1 .. MaxPollers

(* A plan: the binding, the watchers used, how often the program may begin *)
(* anew once no watcher is left, whether files may be deleted, whether the *)
(* system may refuse a descriptor and other parts open files, and bounds   *)
(* on the calls made and the events that happen.                           *)
Plan(binding, watchers, gens, deletes, refuses, maxCalls, maxEvents) ==
    [binding |-> binding, watchers |-> watchers, gens |-> gens, deletes |-> deletes,
     refuses |-> refuses, calls |-> maxCalls, events |-> maxEvents]

VARIABLES
    plan,
    k,                                  \* the kernel
    notifyFd, eventFd,                  \* notifyFd_, eventFd_
    run, reading, closed,               \* run_, reading_, closed_
    task, joinable,                     \* taskRunning_, taskThread_.joinable() (core)
    infos,                              \* watcherInfoSet_ or watcherInfoCache_, in order
    wd,                                 \* the wd of each watcher's info, 0 for -1
    watched,                            \* wdFileNameMap_ or wdFileNameCache_: wd 0 when absent
    js,                                 \* the program's thread: where it is, for which watcher
    poller,
    created, started,                   \* watchers made; registered ones whose start succeeded
    owed,                               \* <<watcher, event>> that happened since it was started
    sent,                               \* the callbacks the last step sent
    doubled,                            \* two threads have polled at a time
    gens, events, calls                 \* counted up to the bounds

tables == <<infos, wd, watched>>
flags == <<run, reading, closed>>
ghosts == <<created, started, owed, sent, doubled>>
bounds == <<gens, events, calls>>
vars == <<plan, k, notifyFd, eventFd, flags, task, joinable, tables, js, poller, ghosts, bounds>>

Absent == [wd |-> 0, events |-> {}]
Idle == [pc |-> "idle", w |-> 0, es |-> {}]
NoPoller == [pc |-> "none", who |-> 0, fds |-> <<0, 0>>, at |-> <<0, 0>>, buf |-> << >>, todo |-> << >>]
Is(binding) == plan.binding = binding

InitWith(x) ==
    /\ plan = x
    /\ k = Kernel /\ notifyFd = 0 /\ eventFd = 0
    /\ run = FALSE /\ reading = FALSE /\ closed = FALSE /\ task = FALSE /\ joinable = FALSE
    /\ infos = << >> /\ wd = [w \in Watchers |-> 0] /\ watched = [f \in Files |-> Absent]
    /\ js = Idle /\ poller = [p \in Pollers |-> NoPoller]
    /\ created = {} /\ started = {} /\ owed = {} /\ sent = {} /\ doubled = FALSE
    /\ gens = 0 /\ events = 0 /\ calls = 0
Init == \E x \in Plans : InitWith(x)

At(pc, w) == js' = [pc |-> pc, w |-> w, es |-> {}]
AtWith(pc, w, es) == js' = [pc |-> pc, w |-> w, es |-> es]
Return == js' = Idle
Calls(w) == js = Idle /\ w \in plan.watchers /\ calls < plan.calls /\ calls' = calls + 1
FileOf(w) == Watch[w].file
EventsOf(w) == Watch[w].events
Registered(w) == w \in Range(infos)

-----------------------------------------------------------------------------
(* The tables.  The three managers have their own versions of them.        *)
Remaining(seq, w) ==
    UNION {EventsOf(v) : v \in {u \in Range(seq) : FileOf(u) = FileOf(w) /\ wd[u] > 0}}
Without(w) == SelectSeq(infos, LAMBDA v : v # w)
(* As it would be if the other watchers of the file did not count.         *)
RemoveWatcherInfoAlone(w) == {}
RemoveWatcherInfo(w) == Remaining(Without(w), w)
CoreRemoveWatcherInfo(w) == Remaining(Without(w), w)
CjRemoveWatcherInfo(w) == Remaining(Without(w), w)

(* A start finds the file watched for all of its events, or says which     *)
(* events the file is to be watched for.                                   *)
CheckEventWatched(w) ==
    LET entry == watched[FileOf(w)]
    IN [is |-> entry.wd > 0 /\ EventsOf(w) \subseteq entry.events,
        wd |-> entry.wd, events |-> entry.events \cup EventsOf(w)]
FindWatchedEvents(w) == CheckEventWatched(w)
CjCheckEventWatched(w) == CheckEventWatched(w)

(* Two infos with the same file, events and callback are the same.         *)
AddWatcherInfo(w) ==
    IF \E v \in Range(infos) : Watch[v] = Watch[w] THEN infos ELSE Append(infos, w)
CoreAddWatcherInfo(w) == AddWatcherInfo(w)
CjAddWatcherInfo(w) == AddWatcherInfo(w)

(* The watchers an event is for, by the watch it came from.                *)
FileWatched(n) == {f \in Files : watched[f].wd = n}
Matching(e) ==
    SelectSeq(infos, LAMBDA w : FileOf(w) \in FileWatched(e.wd) /\ wd[w] > 0 /\ e.event \in EventsOf(w))
(* As it would be if the search ended at the first of them.                *)
FindFirstWatcherInfo(e) == SubSeq(Matching(e), 1, IF Matching(e) = << >> THEN 0 ELSE 1)
FindWatcherInfos(e) == Matching(e)

-----------------------------------------------------------------------------
(* Creating a watcher: the descriptors are opened when there are none, then *)
(* the object is made and its info added.                                  *)
InitNotify ==
    LET k1 == Opened(k, "inotify")
    IN /\ Cardinality(Free(k)) > 1
       /\ k' = Opened(k1, "event") /\ notifyFd' = NewFd(k) /\ eventFd' = NewFd(k1)
Begins(w) ==
    /\ Calls(w) /\ w \notin created
    /\ gens' = IF infos = << >> THEN gens + 1 ELSE gens
    /\ gens' <= plan.gens
    /\ UNCHANGED <<plan, doubled, flags, task, joinable, tables, poller, created, started, owed, events>>
    /\ sent' = {}
Initialises(w) ==
    \/ notifyFd # 0 /\ At("add", w) /\ UNCHANGED <<k, notifyFd, eventFd>>
    \/ notifyFd = 0 /\ InitNotify /\ At("add", w)

(* A refused eventfd closes what inotify_init gave.                        *)
InitRefused == notifyFd = 0 /\ plan.refuses /\ Return /\ UNCHANGED <<k, notifyFd, eventFd>>
(* watcher_impl.cpp keeps it.                                              *)
CjInitRefused ==
    /\ notifyFd = 0 /\ plan.refuses /\ Return /\ Free(k) # {}
    /\ k' = Opened(k, "inotify") /\ notifyFd' = NewFd(k) /\ eventFd' = 0

(* The events asked for are some and known ones; a call with others is     *)
(* refused and changes nothing.                                            *)
ParseParam(w) == EventsOf(w) # {} /\ EventsOf(w) \subseteq AllEvents
ToWatcherInfo(w) == EventsOf(w) # {} /\ EventsOf(w) \subseteq AllEvents
CreateWatcher(w) == Is("napi") /\ ParseParam(w) /\ Begins(w) /\ (Initialises(w) \/ InitRefused)
CoreCreateWatcher(w) == Is("core") /\ ToWatcherInfo(w) /\ Begins(w) /\ (Initialises(w) \/ InitRefused)
AniCreateWatcher(w) == CoreCreateWatcher(w)
CjCreateWatcher(w) == Is("cj") /\ Begins(w) /\ (Initialises(w) \/ CjInitRefused)

Added ==
    /\ js.pc = "add" /\ Return
    /\ infos' = CASE Is("napi") -> AddWatcherInfo(js.w)
                  [] Is("core") -> CoreAddWatcherInfo(js.w)
                  [] Is("cj") -> CjAddWatcherInfo(js.w)
    /\ created' = (IF infos' = infos THEN created ELSE created \cup {js.w}) /\ sent' = {}
    /\ UNCHANGED <<plan, doubled, k, notifyFd, eventFd, flags, task, joinable, wd, watched, poller, started, owed, bounds>>

-----------------------------------------------------------------------------
(* Starting a watcher.  napi and cj hold watchMutex_ over the whole.       *)
StartOk(w) == started' = IF Registered(w) THEN started \cup {w} ELSE started
Watches(w, n, es) == wd' = [wd EXCEPT ![w] = n] /\ watched' = [watched EXCEPT ![FileOf(w)] = [wd |-> n, events |-> es]]
Subscribes(w, es) ==
    /\ CanWatch(k, notifyFd, FileOf(w))
    /\ k' = AddWatch(k, notifyFd, FileOf(w), es)
    /\ Watches(w, AddedWd(k, notifyFd, FileOf(w)), es)

(* A thread that polls, made for watcher w.                                *)
Spawned(w) ==
    LET p == Min({q \in Pollers : poller[q].pc = "none"})
    IN [poller EXCEPT ![p] = [NoPoller EXCEPT !.pc = "begin", !.who = w]]
CanSpawn == \E p \in Pollers : poller[p].pc = "none"

StartNotify(w, seen) ==
    \/ notifyFd # 0 /\ seen.is /\ wd' = [wd EXCEPT ![w] = seen.wd] /\ UNCHANGED <<k, watched>>
    \/ notifyFd # 0 /\ ~seen.is /\ Subscribes(w, seen.events)
StartRefused(w, seen) ==
    /\ notifyFd = 0 \/ (~seen.is /\ ~CanWatch(k, notifyFd, FileOf(w)))
    /\ UNCHANGED <<k, wd, watched, started, poller>>
StartsLeave == UNCHANGED <<plan, doubled, notifyFd, eventFd, flags, task, joinable, infos, created, owed, gens, events>>

(* Every start of napi leaves GetNotifyEvent to a worker.                  *)
Start(w) ==
    /\ Is("napi") /\ Calls(w) /\ w \in created /\ CanSpawn
    /\ \/ StartNotify(w, CheckEventWatched(w)) /\ StartOk(w) /\ poller' = Spawned(w)
       \/ StartRefused(w, CheckEventWatched(w))
    /\ UNCHANGED js /\ sent' = {} /\ StartsLeave

CjStartNotify(w) == StartNotify(w, CjCheckEventWatched(w))
CjStart(w) ==
    /\ Is("cj") /\ Calls(w) /\ w \in created /\ CanSpawn
    /\ \/ CjStartNotify(w) /\ StartOk(w) /\ poller' = IF run THEN poller ELSE Spawned(w)
       \/ StartRefused(w, CjCheckEventWatched(w))
    /\ UNCHANGED js /\ sent' = {} /\ StartsLeave

(* The core locks its cache for each look, and starts a thread when none   *)
(* is marked as running.                                                   *)
CoreStartNotify(w) ==
    /\ LET seen == FindWatchedEvents(w)
       IN \/ notifyFd = 0 /\ UNCHANGED <<wd, js, started>>
          \/ notifyFd # 0 /\ seen.is /\ wd' = [wd EXCEPT ![w] = seen.wd] /\ At("thread", w) /\ UNCHANGED started
          \/ notifyFd # 0 /\ ~seen.is /\ AtWith("subscribe", w, seen.events) /\ UNCHANGED <<wd, started>>
    /\ UNCHANGED <<k, watched, poller>> /\ sent' = {} /\ StartsLeave
AniStart(w) == Is("core") /\ Calls(w) /\ w \in created /\ CanSpawn /\ CoreStartNotify(w)
CoreSubscribe ==
    /\ js.pc = "subscribe"
    /\ \/ Subscribes(js.w, js.es) /\ At("thread", js.w)
       \/ ~CanWatch(k, notifyFd, FileOf(js.w)) /\ Return /\ UNCHANGED <<k, wd, watched>>
    /\ sent' = {} /\ UNCHANGED <<calls, started, poller>> /\ StartsLeave
AsyncGetNotifyEvent ==
    /\ js.pc = "thread"
    /\ \/ task /\ Return /\ StartOk(js.w) /\ UNCHANGED <<task, poller>>
       \/ ~task /\ task' = TRUE /\ CanSpawn /\ poller' = Spawned(js.w) /\ At("assign", js.w) /\ UNCHANGED started
    /\ sent' = {}
    /\ UNCHANGED <<plan, doubled, k, notifyFd, eventFd, flags, joinable, tables, created, owed, bounds>>
(* Assigning to a thread object that is still joinable ends the process.   *)
AssignThread ==
    /\ js.pc = "assign"
    /\ IF joinable THEN At("terminated", js.w) /\ UNCHANGED <<joinable, started>>
       ELSE joinable' = TRUE /\ Return /\ StartOk(js.w)
    /\ sent' = {}
    /\ UNCHANGED <<plan, doubled, k, notifyFd, eventFd, flags, task, tables, poller, created, owed, bounds>>

-----------------------------------------------------------------------------
(* Stopping a watcher.                                                     *)
Closes == k' = Closed(Closed(k, notifyFd), eventFd) /\ notifyFd' = 0 /\ eventFd' = 0 /\ run' = FALSE
KeepsOpen == UNCHANGED <<k, notifyFd, eventFd, run>>
(* As it would be if the numbers were kept.                                *)
CloseNotifyFdKeepsNumbers ==
    /\ closed' = FALSE
    /\ IF infos = << >> /\ run
       THEN k' = Closed(Closed(k, notifyFd), eventFd) /\ run' = FALSE /\ UNCHANGED <<notifyFd, eventFd>>
       ELSE KeepsOpen
CloseNotifyFd ==
    /\ closed' = FALSE
    /\ IF infos = << >> /\ run THEN Closes ELSE KeepsOpen
(* The core wakes its thread first, when it has one to wake.               *)
WakeupThread == IF task /\ joinable THEN Written(k, eventFd) ELSE k
CoreCloseNotifyFd ==
    /\ closed' = FALSE
    /\ IF infos = << >>
       THEN /\ k' = Closed(Closed(WakeupThread, notifyFd), eventFd)
            /\ notifyFd' = 0 /\ eventFd' = 0 /\ run' = FALSE
       ELSE KeepsOpen
CjCloseNotifyFd(k1, left) ==
    IF left = << >>
    THEN k' = Closed(Closed(k1, notifyFd), eventFd) /\ notifyFd' = 0 /\ eventFd' = 0 /\ run' = FALSE
    ELSE k' = k1 /\ UNCHANGED <<notifyFd, eventFd, run>>

(* A close that meets a read is left to the reader (napi) or dropped       *)
(* (core).                                                                 *)
CloseNotifyFdLocked ==
    IF reading THEN closed' = TRUE /\ KeepsOpen /\ UNCHANGED reading
    ELSE CloseNotifyFd /\ UNCHANGED reading
(* As it would be if a read under way did not matter.                      *)
CoreCloseNotifyFdAtOnce == CoreCloseNotifyFd /\ UNCHANGED reading
CoreCloseNotifyFdLocked ==
    IF reading THEN KeepsOpen /\ UNCHANGED <<reading, closed>> ELSE CoreCloseNotifyFd /\ UNCHANGED reading

StopsLeave == UNCHANGED <<plan, doubled, task, joinable, poller, created, gens, events>>
Unregistered(w) ==
    /\ infos' = Without(w) /\ started' = started \ {w} /\ owed' = {o \in owed : o[1] # w}

(* The events that remain are watched for, when the file is still there.   *)
NotifyToWatchNewEvents(w, es) ==
    LET n == AddedWd(k, notifyFd, FileOf(w))
    IN IF ~CanWatch(k, notifyFd, FileOf(w)) THEN UNCHANGED <<k, watched>>
       ELSE /\ k' = AddWatch(k, notifyFd, FileOf(w), es)
            /\ watched' = IF n = wd[w] THEN [watched EXCEPT ![FileOf(w)] = [wd |-> n, events |-> es]] ELSE watched

StopNotify(w) ==
    /\ IF notifyFd = 0 THEN UNCHANGED <<k, infos, started, owed, watched, js>>
       ELSE /\ Unregistered(w)
            /\ IF RemoveWatcherInfo(w) # {}
               THEN NotifyToWatchNewEvents(w, RemoveWatcherInfo(w)) /\ UNCHANGED js
               ELSE At("rm", w) /\ UNCHANGED <<k, watched>>
    /\ sent' = {} /\ StopsLeave /\ UNCHANGED <<notifyFd, eventFd, flags, wd>>
Stop(w) == Is("napi") /\ Calls(w) /\ w \in created /\ StopNotify(w)
CoreStopNotify(w) ==
    /\ IF notifyFd = 0 THEN UNCHANGED <<infos, started, owed, js>>
       ELSE /\ Unregistered(w)
            /\ AtWith(IF CoreRemoveWatcherInfo(w) # {} THEN "shrink" ELSE "rm", w, CoreRemoveWatcherInfo(w))
    /\ sent' = {} /\ StopsLeave /\ UNCHANGED <<k, notifyFd, eventFd, flags, wd, watched>>
AniStop(w) == Is("core") /\ Calls(w) /\ w \in created /\ CoreStopNotify(w)
CoreShrink ==
    /\ js.pc = "shrink" /\ Return
    /\ NotifyToWatchNewEvents(js.w, js.es)
    /\ sent' = {} /\ StopsLeave /\ UNCHANGED <<notifyFd, eventFd, flags, infos, wd, started, owed, calls>>

(* Under readMutex_.                                                       *)
RmWatchStep ==
    /\ js.pc = "rm" /\ At("close", js.w)
    /\ k' = IF ~(closed /\ reading) /\ CanRemove(k, notifyFd, wd[js.w]) THEN RmWatch(k, notifyFd, wd[js.w]) ELSE k
    /\ sent' = {} /\ StopsLeave /\ UNCHANGED <<notifyFd, eventFd, flags, tables, started, owed, calls>>
StopCloses ==
    /\ js.pc = "close" /\ Return
    /\ watched' = [watched EXCEPT ![FileOf(js.w)] = Absent]
    /\ IF Is("napi") THEN CloseNotifyFdLocked ELSE CoreCloseNotifyFdLocked
    /\ sent' = {} /\ StopsLeave /\ UNCHANGED <<infos, wd, started, owed, calls>>

(* Cangjie holds its mutex over the whole and has no other.                *)
CjRemoves(w) ==
    /\ watched' = [watched EXCEPT ![FileOf(w)] = Absent]
    /\ CjCloseNotifyFd(IF CanRemove(k, notifyFd, wd[w]) THEN RmWatch(k, notifyFd, wd[w]) ELSE k, Without(w))
CjStopNotify(w) ==
    /\ IF notifyFd = 0 THEN UNCHANGED <<k, infos, started, owed, watched, notifyFd, eventFd, run>>
       ELSE /\ Unregistered(w)
            /\ IF CjRemoveWatcherInfo(w) # {}
               THEN NotifyToWatchNewEvents(w, CjRemoveWatcherInfo(w)) /\ UNCHANGED <<notifyFd, eventFd, run>>
               ELSE CjRemoves(w)
    /\ sent' = {} /\ StopsLeave /\ UNCHANGED <<reading, closed, wd, js>>

CjStop(w) == Is("cj") /\ Calls(w) /\ w \in created /\ CjStopNotify(w)

-----------------------------------------------------------------------------
(* The polling threads.                                                    *)
Steps(p, pc) ==
    poller' = [poller EXCEPT ![p] = IF pc = "none" THEN NoPoller ELSE [@ EXCEPT !.pc = pc, !.at = <<0, 0>>]]
PollerLeaves == UNCHANGED <<plan, eventFd, notifyFd, js, created, started, doubled, bounds>>
Quiet == sent' = {} /\ UNCHANGED owed
(* watchMutex_, which the program's thread holds inside a stop.            *)
Unlocked == Is("core") \/ js.pc \notin {"rm", "close"}

(* GetNotifyEvent: one that finds run_ set has nothing to do.              *)
GetNotifyEvent(p) ==
    /\ poller[p].pc = "begin" /\ ~Is("cj")
    /\ Steps(p, IF run THEN "none" ELSE "run")
    /\ doubled' = (doubled \/ (~run /\ \E q \in Pollers \ {p} : poller[q].pc \notin {"none", "begin"}))
    /\ Quiet /\ UNCHANGED <<plan, eventFd, notifyFd, js, created, started, bounds, k, flags, task, joinable, tables>>
CjGetNotifyEvent(p) ==
    /\ poller[p].pc = "begin" /\ Is("cj") /\ Steps(p, "run")
    /\ Quiet /\ PollerLeaves /\ UNCHANGED <<k, flags, task, joinable, tables>>
PollBegins(p) ==
    /\ poller[p].pc = "run" /\ run' = TRUE
    /\ Steps(p, "load")
    /\ Quiet /\ PollerLeaves /\ UNCHANGED <<k, reading, closed, task, joinable, tables>>
PollLoads(p) ==
    /\ poller[p].pc = "load"
    /\ poller' = [poller EXCEPT ![p].fds = <<eventFd, notifyFd>>, ![p].pc = "loop"]
    /\ Quiet /\ PollerLeaves /\ UNCHANGED <<k, flags, task, joinable, tables>>

(* The loop ends when run_ is reset; poll resolves its numbers on entry.   *)
Ended == IF Is("core") THEN "destroy" ELSE "none"
PollEnters(p) ==
    LET fds == poller[p].fds
    IN /\ poller[p].pc = "loop"
       /\ IF ~run THEN Steps(p, Ended)
          ELSE IF Stale(k, fds[1]) THEN Steps(p, "invalid")
          ELSE IF Stale(k, fds[2]) THEN Steps(p, "loop")
          ELSE poller' = [poller EXCEPT ![p].pc = "poll", ![p].at = <<InstanceOf(k, fds[1]), InstanceOf(k, fds[2])>>]
       /\ Quiet /\ PollerLeaves /\ UNCHANGED <<k, flags, task, joinable, tables>>
(* Only the core asks for the event descriptor to be readable, and waits   *)
(* for half a second at most.                                              *)
PollReturns(p) ==
    LET me == poller[p]
    IN /\ me.pc = "poll"
       /\ \/ Is("core") /\ Readable(k, me.at[1]) /\ Steps(p, "invalid")
          \/ Is("core") /\ ~Readable(k, me.at[1]) /\ ~Readable(k, me.at[2]) /\ Steps(p, "loop")
          \/ (Is("core") => ~Readable(k, me.at[1])) /\ Readable(k, me.at[2])
             /\ Steps(p, IF Is("cj") THEN "read" ELSE "lock")
       /\ Quiet /\ PollerLeaves /\ UNCHANGED <<k, flags, task, joinable, tables>>
PollInvalid(p) ==
    /\ poller[p].pc = "invalid" /\ run' = FALSE /\ Steps(p, Ended)
    /\ Quiet /\ PollerLeaves /\ UNCHANGED <<k, reading, closed, task, joinable, tables>>

(* ReadNotifyEventLocked: the first lock, the read, the second lock.       *)
ReadBegins(p) ==
    /\ poller[p].pc = "lock"
    /\ reading' = (reading \/ ~closed)
    /\ Steps(p, IF closed THEN "loop" ELSE "read")
    /\ Quiet /\ PollerLeaves /\ UNCHANGED <<k, run, closed, task, joinable, tables>>
ReadEnters(p) ==
    LET i == InstanceOf(k, notifyFd)
        good == KindOf(k, i) = "inotify"
    IN /\ poller[p].pc = "read"
       /\ poller' = [poller EXCEPT ![p].at = <<0, i>>, ![p].pc = IF good THEN "reading" ELSE "unlock"]
       /\ Quiet /\ PollerLeaves /\ UNCHANGED <<k, flags, task, joinable, tables>>
ReadReturns(p) ==
    LET i == poller[p].at[2]
    IN /\ poller[p].pc = "reading" /\ Readable(k, i)
       /\ poller' = [poller EXCEPT ![p].buf = k.inst[i].q, ![p].pc = "notify", ![p].at = <<0, 0>>]
       /\ k' = Emptied(k, i)
       /\ Quiet /\ PollerLeaves /\ UNCHANGED <<flags, task, joinable, tables>>
ReadEnds(p) ==
    /\ \/ poller[p].pc = "unlock"
       \/ poller[p].pc = "notify" /\ poller[p].buf = << >>
    /\ Unlocked /\ Steps(p, "loop")
    /\ CASE Is("cj") -> UNCHANGED <<k, notifyFd, eventFd, flags>>
         [] Is("napi") -> reading' = FALSE /\ (IF closed THEN CloseNotifyFd
                                               ELSE KeepsOpen /\ UNCHANGED closed)
         [] Is("core") -> reading' = FALSE /\ (IF closed THEN CoreCloseNotifyFd
                                               ELSE KeepsOpen /\ UNCHANGED closed)
    /\ Quiet /\ UNCHANGED <<plan, doubled, js, created, started, bounds, task, joinable, tables>>

(* A callback: for whom, what happened, how often the member's name was    *)
(* put behind the file's.                                                  *)
Sent(w, e, names) == [to |-> w, file |-> FileWatched(e.wd), e |-> e, names |-> IF e.named THEN names ELSE 0]
Settles(S) == sent' = S /\ owed' = {o \in owed : \A c \in S : o # <<c.to, c.e.id>>}
(* As it would be if the name were put together once for all of them.      *)
NotifyEventGrowing(p, e) ==
    Settles({Sent(Matching(e)[n], e, n) : n \in DOMAIN Matching(e)})
NotifyEvent(p, e) == Settles({Sent(Matching(e)[n], e, 1) : n \in DOMAIN Matching(e)})
(* Cangjie calls the callback of the watcher whose start made the thread.  *)
CjNotifyEvent(p, e) ==
    Settles(IF Matching(e) = << >> THEN {} ELSE {Sent(poller[p].who, e, 1)})
NotifyNext(p) ==
    LET me == poller[p]
    IN /\ ~Is("core") /\ me.pc = "notify" /\ me.buf # << >> /\ Unlocked
       /\ IF Is("cj") THEN CjNotifyEvent(p, Head(me.buf)) ELSE NotifyEvent(p, Head(me.buf))
       /\ poller' = [poller EXCEPT ![p].buf = Tail(@)]
       /\ PollerLeaves /\ UNCHANGED <<k, flags, task, joinable, tables>>
(* The core takes the watchers out of its cache and calls them afterwards, *)
(* the name growing with every one of them.                                *)
CoreNotifyFinds(p) ==
    LET me == poller[p]
    IN /\ Is("core") /\ me.pc = "notify" /\ me.buf # << >>
       /\ poller' = [poller EXCEPT ![p].todo = FindWatcherInfos(Head(me.buf)), ![p].pc = "call"]
       /\ Quiet /\ PollerLeaves /\ UNCHANGED <<k, flags, task, joinable, tables>>
CoreNotifyEvent(p) ==
    LET me == poller[p]
        e == Head(me.buf)
    IN /\ me.pc = "call"
       /\ Settles({Sent(me.todo[n], e, n) : n \in DOMAIN me.todo})
       /\ poller' = [poller EXCEPT ![p].buf = Tail(@), ![p].todo = << >>, ![p].pc = "notify"]
       /\ PollerLeaves /\ UNCHANGED <<k, flags, task, joinable, tables>>

(* DestroyTaskThread: the mark is taken back, then all is cleared.         *)
DestroyTaskThread(p) ==
    /\ poller[p].pc = "destroy" /\ task' = FALSE
    /\ Steps(p, IF task THEN "clear" ELSE "none")
    /\ Quiet /\ PollerLeaves /\ UNCHANGED <<k, flags, joinable, tables>>
ClearCache(p) ==
    /\ poller[p].pc = "clear" /\ run' = FALSE /\ joinable' = FALSE
    /\ infos' = << >> /\ watched' = [f \in Files |-> Absent]
    /\ Steps(p, "none")
    /\ Quiet /\ PollerLeaves /\ UNCHANGED <<k, reading, closed, task, wd>>

-----------------------------------------------------------------------------
(* The world: files change or go, other parts of the process open files.   *)
FileChanges(f, b) ==
    /\ events < plan.events /\ f \in k.files
    /\ events' = events + 1 /\ k' = Happens(k, f, b, events + 1)
    /\ owed' = owed \cup {<<w, events + 1>> : w \in {v \in started : FileOf(v) = f /\ b \in EventsOf(v)}}
    /\ sent' = {}
    /\ UNCHANGED <<plan, doubled, notifyFd, eventFd, flags, task, joinable, tables, js, poller, created, started, gens, calls>>
FileGoes(f) ==
    /\ plan.deletes /\ k.files = Files /\ k' = Deleted(k, f) /\ sent' = {}
    /\ UNCHANGED <<plan, doubled, notifyFd, eventFd, flags, task, joinable, tables, js, poller, created, started, owed, bounds>>
OtherOpens ==
    /\ plan.refuses /\ NumbersOf(k, "other") = {} /\ Free(k) # {} /\ k' = Opened(k, "other") /\ sent' = {}
    /\ \A i \in DOMAIN k.inst : k.inst[i].kind # "other"
    /\ UNCHANGED <<plan, doubled, notifyFd, eventFd, flags, task, joinable, tables, js, poller, created, started, owed, bounds>>

Program(w) ==
    \/ CreateWatcher(w) \/ AniCreateWatcher(w) \/ CjCreateWatcher(w)
    \/ Start(w) \/ AniStart(w) \/ CjStart(w)
    \/ Stop(w) \/ AniStop(w) \/ CjStop(w)
Proceeds == Added \/ CoreSubscribe \/ AsyncGetNotifyEvent \/ AssignThread \/ CoreShrink \/ RmWatchStep \/ StopCloses
Polls(p) ==
    \/ GetNotifyEvent(p) \/ CjGetNotifyEvent(p) \/ PollBegins(p) \/ PollLoads(p) \/ PollEnters(p) \/ PollReturns(p) \/ PollInvalid(p)
    \/ ReadBegins(p) \/ ReadEnters(p) \/ ReadReturns(p) \/ ReadEnds(p)
    \/ NotifyNext(p) \/ CoreNotifyFinds(p) \/ CoreNotifyEvent(p) \/ DestroyTaskThread(p) \/ ClearCache(p)
Alive == js.pc # "terminated"
Next ==
    /\ Alive
    /\ \/ \E w \in Watchers : Program(w)
       \/ Proceeds
       \/ \E p \in Pollers : Polls(p)
       \/ \E f \in Files, b \in AllEvents : FileChanges(f, b)
       \/ \E f \in Files : FileGoes(f)
       \/ OtherOpens

(* Threads that can go on do: the program's inside a call, the pollers.    *)
Fairness == WF_vars(Proceeds) /\ \A p \in Pollers : WF_vars(Alive /\ Polls(p))
Spec == Init /\ [][Next]_vars /\ Fairness

-----------------------------------------------------------------------------
(* What holds of programs that do not begin anew once they have stopped    *)
(* their last watcher.                                                     *)
Calm == plan.gens = 1

(* With more watchers a stop() of one that was never started can leave the *)
(* table ahead of the kernel: NotifyToWatchNewEvents has the kernel watch  *)
(* for less, finds the wd is not the stopped watcher's and returns.  What  *)
(* a stopped watcher that was started again had added is then still in the *)
(* table, and a fourth watcher that asks for it is not subscribed.         *)
Few == Cardinality(plan.watchers) <= 3

(* A watcher that was started is heard: as long as its file is there, the  *)
(* inotify instance in use watches the file for all of its events,         *)
(* whatever others on the same file are started and stopped.               *)
Subscribed ==
    Calm /\ Few => \A w \in started :
        FileOf(w) \in k.files =>
            \E x \in k.inst[InstanceOf(k, notifyFd)].watches : x.file = FileOf(w) /\ EventsOf(w) \subseteq x.events

(* An event a started watcher asked for reaches its callback, or the       *)
(* watcher is stopped first.  (Cangjie with one watcher: every callback is *)
(* the first one's.)                                                       *)
EventsDelivered ==
    (Calm /\ Few /\ (Is("cj") => Cardinality(plan.watchers) = 1)) => <>[](owed = {})

(* A callback is sent to a watcher that asked for such an event of the     *)
(* file; in the dynamic binding the watcher is registered at that moment,  *)
(* so that nothing is sent after stop() has returned, and the name of a    *)
(* member of a directory is put behind the directory's once.               *)
CallbacksRight ==
    \A c \in sent :
        /\ Is("cj") \/ c.e.event \in EventsOf(c.to)
        /\ Is("napi") => /\ Registered(c.to) /\ FileOf(c.to) \in c.file
                         /\ c.names = (IF c.e.named THEN 1 ELSE 0)

(* Watchers are served: what was subscribed stays so and what is sent is   *)
(* what was asked for, also when several watchers share one file and the   *)
(* descriptor that the kernel knows it by.                                 *)
WatchersServed == Subscribed /\ CallbacksRight

(* The descriptors of the manager are the two it knows, and no other       *)
(* descriptor of the process is closed by it.                              *)
NotifyFdsOwned ==
    /\ NumbersOf(k, "inotify") = {notifyFd} \ {0}
    /\ NumbersOf(k, "event") = {eventFd} \ {0}
    /\ \A i \in DOMAIN k.inst : k.inst[i].kind = "other" => \E n \in DOMAIN k.tab : k.tab[n] = i

(* The instance a lone polling thread reads from is not closed under it:   *)
(* two starts of the dynamic binding in a row may make two such threads.   *)
NotClosedWhileRead ==
    (Calm /\ ~Is("cj") /\ ~doubled) =>
        \A p \in Pollers : poller[p].pc = "reading" => InstanceOf(k, notifyFd) = poller[p].at[2]

(* No descriptor is lost, closed for another or closed under its reader.   *)
NotifyFdsSafe == NotifyFdsOwned /\ NotClosedWhileRead
=============================================================================

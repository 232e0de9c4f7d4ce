---------------------------- MODULE CopyProgress ----------------------------
(***************************************************************************)
(* A copy on this device that reports its progress.  The static binding    *)
(* (copy_core.cpp, "core") and Cangjie (cj/src/copy.cpp, "cj") copy on the *)
(* calling thread, while a second thread watches the destination through   *)
(* inotify and reports how much of it is there; the call ends by closing   *)
(* what that thread waits for and joining it.  The dynamic binding         *)
(* (copy.cpp, "napi") leaves the copying to the distributed file service   *)
(* on a worker and passes its progress on.                                 *)
(*                                                                         *)
(* The unit of data is what one sendfile moves.                            *)
(***************************************************************************)
EXTENDS Inotify, SequencesExt

CONSTANTS
    Jobs,       \* the copies tried, see Job
    DirSize     \* st_size of a directory

VARIABLES
    job,
    k,          \* the kernel
    o,          \* what both threads share: FsFileInfos and FsCallbackObject
    c,          \* the copying thread
    t,          \* the notify thread
    size,       \* of each file at the destination, -1 when absent
    need,       \* needCancel_ of the task signal
    posted      \* napi: reports on their way to the program's thread

vars == <<job, k, o, c, t, size, need, posted>>

(* A copy: of a file ("file") or of a directory's content ("dir"), given   *)
(* as the members in the order RecurCopyDir visits them, with their place  *)
(* and length; the sizes found at the destination, whether a listener is   *)
(* there, whether it may be cancelled, what the system refuses ("none" for *)
(* nothing), whether a source may lose its end while it is copied, and     *)
(* whether source and destination are the same or one inside the other.    *)
Member(kind, name, dir, len) == [kind |-> kind, name |-> name, dir |-> dir, len |-> len]
Job(binding, kind, tree, old, listener, cancels, refused, shrinks, overlaps) ==
    [binding |-> binding, kind |-> kind, tree |-> tree, old |-> old, listener |-> listener,
     cancels |-> cancels, refused |-> refused, shrinks |-> shrinks, overlaps |-> overlaps]
Is(binding) == job.binding = binding
Refused(what) == job.refused = what
IsFile == job.kind = "file"
Root == IF IsFile THEN job.tree[1].name ELSE "root"
FilesOf(j) == {n \in DOMAIN j.tree : j.tree[n].kind = "file"}
Lengths(j) == [n \in DOMAIN j.tree |-> j.tree[n].len]
LengthOf(j, ns) == MapThenSumSet(LAMBDA n : Lengths(j)[n], ns)
GetDirSize == LengthOf(job, FilesOf(job))

Shared ==
    [notifyFd |-> 0, eventFd |-> 0, cbNotify |-> 0, cbEvent |-> 0,   \* infos' and the callback's
     run |-> TRUE, reading |-> FALSE, closed |-> FALSE,
     wds |-> << >>, paths |-> {}, seen |-> << >>,                    \* wds, filePaths, fileList
     progress |-> 0, total |-> 0, max |-> 0, ex |-> "ok",
     reg |-> FALSE, said |-> << >>]                                  \* callbackMap_; the reports made
Copying == [pc |-> "call", at |-> 1, off |-> 0, len |-> 0, sent |-> 0, r |-> "ok", early |-> FALSE]
NoThread == [pc |-> "none", fds |-> <<0, 0>>, in |-> 0, buf |-> << >>]

InitWith(j) ==
    /\ job = j
    /\ k = [Kernel EXCEPT !.files = {n \in Files : n \in DOMAIN job.old /\ job.old[n] >= 0}]
    /\ o = Shared /\ c = Copying /\ t = NoThread
    /\ size = job.old /\ need = FALSE /\ posted = << >>
Init == \E j \in Jobs : InitWith(j)

Goes(pc) == c' = [c EXCEPT !.pc = pc]
Fails(err) == c' = [c EXCEPT !.pc = "close", !.r = err]

-----------------------------------------------------------------------------
(* Reports.  A report smaller than one made before is dropped.             *)
ReceiveComplete(s, p, total) ==
    IF p < s.max THEN s ELSE [s EXCEPT !.max = p, !.said = Append(@, <<p, total>>)]
NapiReceiveComplete(s, p, total) == ReceiveComplete(s, p, total)
CjReceiveComplete(s, p, total) == ReceiveComplete(s, p, total)
OnFileReceive(s) == IF s.reg THEN ReceiveComplete(s, s.progress, s.total) ELSE s
CjOnFileReceive(s) == IF s.reg THEN CjReceiveComplete(s, s.progress, s.total) ELSE s
Reported(s) == IF Is("cj") THEN CjOnFileReceive(s) ELSE OnFileReceive(s)

(* How much of the destination is there, of a file watched itself or of    *)
(* one under a watched directory.                                          *)
(* As it would be if a file seen again counted with all of its size.       *)
UpdateProgressAgain(s, name) ==
    [s EXCEPT !.progress = @ + size[name], !.seen = Append(@, <<name, size[name]>>)]
Counted(s, name) == Max({0} \cup {s.seen[n][2] : n \in {m \in DOMAIN s.seen : s.seen[m][1] = name}})
UpdateProgressSize(s, name) ==
    IF size[name] <= Counted(s, name) THEN s
    ELSE [s EXCEPT !.progress = @ + size[name] - Counted(s, name), !.seen = Append(@, <<name, size[name]>>)]
CjUpdateProgressSize(s, name) == UpdateProgressSize(s, name)

GetReceivedInfo(s, wd) == \E n \in DOMAIN s.wds : s.wds[n] = wd
CheckFileValid(s, name) == name \in s.paths
(* IN_IGNORED, which names no file, counts where a file is watched itself. *)
HandleProgress(s, e) ==
    IF ~GetReceivedInfo(s, e.wd) THEN [send |-> FALSE, o |-> s]
    ELSE IF IsFile THEN [send |-> TRUE, o |-> [s EXCEPT !.progress = size[Root]]]
    ELSE IF e.event = "ignored" \/ ~CheckFileValid(s, e.id) THEN [send |-> FALSE, o |-> s]
    ELSE [send |-> TRUE, o |-> UpdateProgressSize(s, e.id)]
(* Cangjie goes by the event instead of the source: IN_IGNORED of a        *)
(* directory takes the directory's own size for the progress.              *)
CjHandleProgress(s, e) ==
    IF ~GetReceivedInfo(s, e.wd) THEN [send |-> FALSE, o |-> s]
    ELSE IF e.named /\ e.event # "ignored"
         THEN IF CheckFileValid(s, e.id) THEN [send |-> TRUE, o |-> CjUpdateProgressSize(s, e.id)]
              ELSE [send |-> FALSE, o |-> s]
    ELSE IF IsFile THEN [send |-> TRUE, o |-> [s EXCEPT !.progress = size[Root]]]
    ELSE [send |-> TRUE, o |-> [s EXCEPT !.progress = DirSize]]

-----------------------------------------------------------------------------
(* Closing: the watches go first, and the IN_IGNORED of each is what wakes *)
(* a thread inside poll.                                                   *)
RmWatches(kern, fd, wds) ==
    [kern EXCEPT !.inst =
        FoldLeft(LAMBDA kk, wd : IF CanRemove(kk, fd, wd) THEN RmWatch(kk, fd, wd) ELSE kk, kern, wds).inst]
(* As it would be if the watches were left to the kernel to remove.        *)
CloseFdAlone == Closed(Closed(k, o.cbEvent), o.cbNotify)
CloseFd == Closed(RmWatches(Closed(k, o.cbEvent), o.cbNotify, o.wds), o.cbNotify)
CjCloseFd == CloseFd
NoInfosFds(s) == [s EXCEPT !.eventFd = 0, !.notifyFd = 0]
NoCallbackFds(s) == [s EXCEPT !.cbEvent = 0, !.cbNotify = 0]

CloseNotifyFdLocked ==
    /\ c.pc = "close" /\ Is("core")
    /\ o' = [o EXCEPT !.closed = TRUE]
    /\ Goes(IF o.reading THEN "stop" ELSE "closing")
    /\ UNCHANGED <<job, k, t, size, need, posted>>
CloseNotifyFd ==
    /\ c.pc = "closing" /\ Goes("closefd")
    /\ o' = NoInfosFds([o EXCEPT !.closed = FALSE])
    /\ UNCHANGED <<job, k, t, size, need, posted>>
CloseFdStep ==
    /\ c.pc = "closefd" /\ Goes("stop")
    /\ k' = CloseFd /\ o' = NoCallbackFds(o)
    /\ UNCHANGED <<job, t, size, need, posted>>
CjCloseNotifyFd ==
    /\ Is("cj")
    /\ \/ c.pc = "close" /\ k' = CjCloseFd /\ o' = NoCallbackFds(o) /\ Goes("closing2")
       \/ c.pc = "closing2" /\ o' = NoInfosFds(o) /\ Goes("stop") /\ UNCHANGED k
    /\ UNCHANGED <<job, t, size, need, posted>>

-----------------------------------------------------------------------------
(* The copying thread.                                                     *)
RegisterListener == o' = [o EXCEPT !.reg = TRUE]
DoCopy ==
    /\ c.pc = "call" /\ RegisterListener
    /\ c' = [c EXCEPT !.pc = IF Is("napi") THEN "worker" ELSE "local", !.early = need]
    /\ UNCHANGED <<job, k, t, size, need, posted>>

(* A missing destination of a file is made first; Cangjie goes on when     *)
(* that fails.                                                             *)
Created(name) == size' = [size EXCEPT ![name] = IF @ < 0 THEN 0 ELSE @] /\ k' = [k EXCEPT !.files = @ \cup {name}]
CheckOrCreatePath ==
    IF size[Root] < 0 /\ Refused("create") THEN UNCHANGED <<size, k>> ELSE Created(Root)
ExecLocal ==
    /\ c.pc = "local"
    /\ IF IsFile /\ job.overlaps THEN Fails("EINVAL") /\ UNCHANGED <<size, k>>
       ELSE /\ IF IsFile THEN CheckOrCreatePath ELSE UNCHANGED <<size, k>>
            /\ IF IsFile /\ Is("core") /\ size'[Root] < 0 THEN Fails("errno")
               ELSE Goes(IF job.listener THEN "subscribe" ELSE "exec")
    /\ UNCHANGED <<job, o, t, need, posted>>

(* SubscribeLocalListener, alone still: the thread is started after it.    *)
(* The core leaves the inotify descriptor open when eventfd is refused.    *)
Subscribed(kern, fd, ev) ==
    IF CanWatch(kern, fd, Root)
    THEN /\ k' = AddWatch(kern, fd, Root, {"modify"})
         /\ o' = [o EXCEPT !.notifyFd = fd, !.eventFd = ev, !.cbNotify = fd, !.cbEvent = ev,
                           !.wds = <<AddedWd(kern, fd, Root)>>, !.total = GetDirSize]
         /\ t' = [NoThread EXCEPT !.pc = "begin"] /\ Goes("exec")
    ELSE k' = Closed(Closed(kern, fd), ev) /\ Fails("errno") /\ UNCHANGED <<o, t>>
SubscribeLocalListener ==
    LET k1 == Opened(k, "inotify")
        fd == NewFd(k)
    IN /\ c.pc = "subscribe"
       /\ CASE Refused("inotify") -> Fails("errno") /\ UNCHANGED <<k, o, t>>
            [] Refused("eventfd") -> Fails("errno") /\ k' = (IF Is("core") THEN k1 ELSE k) /\ UNCHANGED <<o, t>>
            [] OTHER -> Subscribed(Opened(k1, "event"), fd, NewFd(k1))
       /\ UNCHANGED <<job, size, need, posted>>

(* ExecCopy: a file onto a file, a directory into a directory.             *)
ExecCopy ==
    /\ c.pc = "exec"
    /\ IF (IsFile /\ size[Root] < 0) \/ (~IsFile /\ Root \notin k.files) \/ (~IsFile /\ job.overlaps)
       THEN Fails("EINVAL") ELSE Goes("next")
    /\ UNCHANGED <<job, k, o, t, size, need, posted>>

Here == job.tree[c.at]
NextMember == c' = [c EXCEPT !.at = @ + 1, !.pc = "next"]
(* CopySubDir: made when missing, and watched when something watches.      *)
CopySubDir ==
    /\ c.pc = "next" /\ c.at <= Len(job.tree) /\ Here.kind = "dir"
    /\ IF Refused("mkdir") THEN Fails("errno") /\ UNCHANGED <<k, o>>
       ELSE LET k1 == [k EXCEPT !.files = @ \cup {Here.name}]
                watch == o.notifyFd # 0 /\ CanWatch(k1, o.notifyFd, Here.name)
            IN /\ k' = IF watch THEN AddWatch(k1, o.notifyFd, Here.name, {"modify"}) ELSE k1
               /\ o' = IF watch THEN [o EXCEPT !.wds = Append(@, AddedWd(k1, o.notifyFd, Here.name))] ELSE o
               /\ NextMember
    /\ UNCHANGED <<job, t, size, need, posted>>
SkipLink ==
    /\ c.pc = "next" /\ c.at <= Len(job.tree) /\ Here.kind = "link" /\ NextMember
    /\ UNCHANGED <<job, k, o, t, size, need, posted>>
(* CopyFile opens both and takes the source's size.                        *)
CopyFile ==
    /\ c.pc = "next" /\ c.at <= Len(job.tree) /\ Here.kind = "file"
    /\ o' = [o EXCEPT !.paths = IF IsFile THEN @ ELSE @ \cup {Here.name}]
    /\ IF Refused("open") THEN Fails("errno") /\ UNCHANGED <<size, k>>
       ELSE /\ Created(Here.name)
            /\ c' = [c EXCEPT !.pc = "send", !.off = 0, !.len = Here.len]
    /\ UNCHANGED <<job, t, need, posted>>
(* One round of SendFileCore: at most a unit is moved, then the signal is  *)
(* looked at.  The source may be shorter than it was.                      *)
Moved(n) ==
    /\ size' = [size EXCEPT ![Here.name] = Max({@, c.off + n})]
    /\ k' = IF n = 0 THEN k ELSE Happens(k, Here.dir, "modify", Here.name)
Ends(n) == n = 0 \/ c.off + n > c.len
(* As it would be if what is left were not looked at in the end.           *)
SendFileCoreEnds(n) == IF Ends(n) THEN NextMember ELSE c' = [c EXCEPT !.off = @ + n, !.sent = @ + n]
SendFileCoreGoesOn(n) ==
    IF ~Ends(n) THEN c' = [c EXCEPT !.off = @ + n, !.sent = @ + n]
    ELSE IF c.off + n = c.len THEN NextMember
    ELSE Fails("EIO")
(* As it would be if the signal were only looked at between two files.     *)
CheckCancelBetween(n) == need /\ n = 0
CheckCancelIfNeed(n) == need
SendFile(n) ==
    /\ c.pc = "send" /\ n <= 1 /\ c.off + n <= Here.len
    /\ n = 1 \/ c.off = Here.len \/ job.shrinks
    /\ IF Refused("sendfile") THEN Fails("errno") /\ UNCHANGED <<size, k>>
       ELSE /\ Moved(n)
            /\ IF CheckCancelIfNeed(n) THEN c' = [c EXCEPT !.pc = "close", !.r = "ECANCELED", !.sent = @ + n]
               ELSE SendFileCoreGoesOn(n)
    /\ UNCHANGED <<job, o, t, need, posted>>
Copied ==
    /\ c.pc = "next" /\ c.at > Len(job.tree) /\ Goes("close")
    /\ UNCHANGED <<job, k, o, t, size, need, posted>>

Stops ==
    /\ c.pc = "stop" /\ o' = [o EXCEPT !.run = FALSE] /\ Goes("join")
    /\ UNCHANGED <<job, k, t, size, need, posted>>
WaitNotifyFinished ==
    /\ c.pc = "join" /\ t.pc = "none" /\ Goes("end")
    /\ UNCHANGED <<job, k, o, t, size, need, posted>>
(* CopyComplete reports the whole, and the listener is taken off.          *)
CopyComplete(s) == IF job.listener THEN Reported([s EXCEPT !.progress = s.total]) ELSE s
Returns(err) == c' = [c EXCEPT !.pc = "returned", !.r = err]
Ended ==
    /\ c.pc = "end"
    /\ IF c.r # "ok" THEN o' = [o EXCEPT !.ex = c.r, !.reg = FALSE] /\ Returns(c.r)
       ELSE o' = [CopyComplete(o) EXCEPT !.reg = FALSE] /\ Returns(o.ex)
    /\ UNCHANGED <<job, k, t, size, need, posted>>

-----------------------------------------------------------------------------
(* The notify thread.                                                      *)
ThreadGoes(pc) == t' = IF pc = "none" THEN NoThread ELSE [t EXCEPT !.pc = pc, !.in = 0]
ThreadLeaves == UNCHANGED <<job, c, size, need, posted>>
GetNotifyEvent ==
    /\ t.pc = "begin" /\ t' = [t EXCEPT !.pc = "loop", !.fds = <<o.eventFd, o.notifyFd>>]
    /\ ThreadLeaves /\ UNCHANGED <<k, o>>
NotifyLoop ==
    /\ t.pc = "loop"
    /\ ThreadGoes(IF o.run /\ o.ex = "ok" /\ o.eventFd # 0 /\ o.notifyFd # 0 THEN "enter" ELSE "none")
    /\ ThreadLeaves /\ UNCHANGED <<k, o>>
PollEnters ==
    /\ t.pc = "enter"
    /\ IF Stale(k, t.fds[1]) THEN ThreadGoes("none") /\ o' = [o EXCEPT !.run = FALSE]
       ELSE /\ t' = IF Stale(k, t.fds[2]) THEN [t EXCEPT !.pc = "loop"]
                    ELSE [t EXCEPT !.pc = "poll", !.in = InstanceOf(k, t.fds[2])]
            /\ UNCHANGED o
    /\ ThreadLeaves /\ UNCHANGED k
PollReturns ==
    /\ t.pc = "poll" /\ Readable(k, t.in) /\ ThreadGoes(IF Is("cj") THEN "read" ELSE "lock")
    /\ ThreadLeaves /\ UNCHANGED <<k, o>>

(* ReadNotifyEventLocked, and ReadNotifyEvent between its two locks.       *)
ReadLocks ==
    /\ t.pc = "lock"
    /\ o' = [o EXCEPT !.reading = ~o.closed] /\ ThreadGoes(IF o.closed THEN "loop" ELSE "read")
    /\ ThreadLeaves /\ UNCHANGED k
ReadNotifyEvent ==
    LET i == InstanceOf(k, o.notifyFd)
        reads == i # 0 /\ (o.run \/ Is("cj"))
    IN /\ t.pc = "read" /\ (reads => Readable(k, i))
       /\ t' = [t EXCEPT !.pc = "handle", !.buf = IF reads THEN k.inst[i].q ELSE << >>]
       /\ k' = IF reads THEN Emptied(k, i) ELSE k
       /\ ThreadLeaves /\ UNCHANGED o
HandleNext ==
    LET h == IF Is("cj") THEN CjHandleProgress(o, Head(t.buf)) ELSE HandleProgress(o, Head(t.buf))
    IN /\ t.pc = "handle" /\ o.run /\ t.buf # << >>
       /\ IF h.send /\ h.o.progress = h.o.total
          THEN o' = [h.o EXCEPT !.run = FALSE] /\ t' = [t EXCEPT !.buf = << >>]
          ELSE /\ o' \in IF h.send THEN {h.o, Reported(h.o)} ELSE {h.o}    \* at most every 300 ms
               /\ t' = [t EXCEPT !.buf = Tail(@)]
       /\ ThreadLeaves /\ UNCHANGED k
(* As it would be if the reader left the closing to the copying thread.    *)
ReadUnlocksOnly == o' = [o EXCEPT !.reading = FALSE] /\ UNCHANGED k
ReadNotifyEventLocked ==
    IF o.closed THEN k' = CloseFd /\ o' = NoCallbackFds(NoInfosFds([o EXCEPT !.reading = FALSE, !.closed = FALSE]))
    ELSE o' = [o EXCEPT !.reading = FALSE] /\ UNCHANGED k
ReadEnds ==
    /\ t.pc = "handle" /\ (~o.run \/ t.buf = << >>)
    /\ t' = [t EXCEPT !.pc = "loop", !.buf = << >>]
    /\ IF Is("cj") THEN UNCHANGED <<k, o>> ELSE ReadNotifyEventLocked
    /\ ThreadLeaves

-----------------------------------------------------------------------------
(* The dynamic binding: the service copies and calls back with what it has *)
(* done; reports are made later, on the program's thread.                  *)
ProcessListener(p) ==
    /\ c.pc = "worker" /\ job.listener /\ p > c.off /\ p <= GetDirSize
    /\ o' = [o EXCEPT !.progress = p, !.total = GetDirSize] /\ c' = [c EXCEPT !.off = p]
    /\ posted' = IF p # GetDirSize THEN Append(posted, <<p, GetDirSize>>) ELSE posted
    /\ UNCHANGED <<job, k, t, size, need>>
NapiExecCopy ==
    /\ c.pc = "worker"
    /\ \/ /\ Refused("copy") /\ c' = [c EXCEPT !.pc = "complete", !.r = "errno"] /\ UNCHANGED <<o, posted>>
       \/ /\ ~Refused("copy") /\ Goes("complete")
          /\ o' = IF job.listener THEN [o EXCEPT !.progress = o.total] ELSE o
          /\ posted' = IF job.listener THEN Append(posted, <<o.total, o.total>>) ELSE posted
    /\ UNCHANGED <<job, k, t, size, need>>
NapiCompletes ==
    /\ c.pc = "complete" /\ o' = [o EXCEPT !.reg = FALSE] /\ Returns(c.r)
    /\ UNCHANGED <<job, k, t, size, need, posted>>
NapiReports ==
    /\ posted # << >> /\ posted' = Tail(posted)
    /\ o' = NapiReceiveComplete(o, Head(posted)[1], Head(posted)[2])
    /\ UNCHANGED <<job, k, c, t, size, need>>

(* The program cancels through the signal it gave.                         *)
Cancel ==
    /\ job.cancels /\ ~need /\ need' = TRUE
    /\ UNCHANGED <<job, k, o, c, t, size, posted>>

Copies ==
    \/ DoCopy \/ ExecLocal \/ SubscribeLocalListener \/ ExecCopy
    \/ CopySubDir \/ SkipLink \/ CopyFile \/ Copied
    \/ \E n \in 0 .. 1 : SendFile(n)
    \/ CloseNotifyFdLocked \/ CloseNotifyFd \/ CloseFdStep \/ CjCloseNotifyFd
    \/ Stops \/ WaitNotifyFinished \/ Ended
    \/ \E p \in 1 .. GetDirSize : ProcessListener(p)
    \/ NapiExecCopy \/ NapiCompletes
Notifies ==
    \/ GetNotifyEvent \/ NotifyLoop \/ PollEnters \/ PollReturns
    \/ ReadLocks \/ ReadNotifyEvent \/ HandleNext \/ ReadEnds
Next == Copies \/ Notifies \/ NapiReports \/ Cancel

(* Both threads go on where they can, and the program's thread too.        *)
Fairness == WF_vars(Copies) /\ WF_vars(Notifies) /\ WF_vars(NapiReports)
Spec == Init /\ [][Next]_vars /\ Fairness

-----------------------------------------------------------------------------
(* Nothing at the destination is longer than what is copied over it, and   *)
(* the copy is not Cangjie's of a directory (see CjHandleProgress).        *)
Fresh ==
    /\ \A n \in FilesOf(job) : job.old[job.tree[n].name] <= job.tree[n].len
    /\ ~(Is("cj") /\ ~IsFile)
Over == c.pc = "returned" /\ posted = << >>

(* What is reported never goes back and never passes the total, and a copy *)
(* that succeeds has reported the total in the end, whichever events the   *)
(* notify thread saw and when it was stopped.                              *)
ProgressRight ==
    Fresh =>
        /\ \A n \in DOMAIN o.said :
            /\ o.said[n][1] <= o.said[n][2]
            /\ n > 1 => o.said[n - 1][1] <= o.said[n][1]
        /\ (Over /\ c.r = "ok" /\ job.listener) => Last(o.said)[1] = o.total

(* A call that returned has left no descriptor behind, whoever closed them *)
(* (but for the inotify descriptor of the core when eventfd is refused).   *)
NoDescriptorLeft ==
    (c.pc = "returned" /\ ~(Is("core") /\ Refused("eventfd"))) =>
        \A n \in DOMAIN k.tab : k.tab[n] = 0

(* A local copy that succeeds has put every file there in full, even when  *)
(* a source lost its end meanwhile.                                        *)
CopiedAll ==
    (c.pc = "returned" /\ c.r = "ok" /\ ~Is("napi")) =>
        \A n \in FilesOf(job) : size[job.tree[n].name] >= job.tree[n].len

(* A local copy cancelled before it began does not succeed, unless there   *)
(* is no file in it, and moves one unit at most.                           *)
CancelHeeded ==
    (c.pc = "returned" /\ c.early /\ ~Is("napi") /\ FilesOf(job) # {}) => c.r # "ok" /\ c.sent <= 1

(* Every call returns: the notify thread is woken and joined.              *)
CopyReturns == <>(c.pc = "returned")
=============================================================================

------------------------------ MODULE MCNotify ------------------------------
(* What is told the program while it happens: changes of watched files,    *)
(* the progress of a copy on this device and of one from another device.   *)
(* A history is one of one of the three; the others stay as they begin.    *)
EXTENDS FileWatchers

CONSTANTS
    CopyFiles, CopyDirs, DirSize,
    CopyJobs,       \* the copies on this device, see CopyProgress
    RemoteCalls,    \* the copies from another one, see RemoteCopy
    MaxProgress

VARIABLES
    scene,      \* whose history this is
    job, ck, co, cc, ct, size, need, posted,
    call, rr, listener, tmp, service, signal, said

copyVars == <<job, ck, co, cc, ct, size, need, posted>>
remoteVars == <<call, rr, listener, tmp, service, signal, said>>
watchVars == <<plan, k, notifyFd, eventFd, run, reading, closed, task, joinable, infos, wd, watched, js, poller,
               created, started, owed, sent, doubled, gens, events, calls>>

MCWatch ==
    << [file |-> "d", events |-> {"a"}, callback |-> 1],
       [file |-> "d", events |-> {"a", "b"}, callback |-> 2],
       [file |-> "f", events |-> {"b"}, callback |-> 1],
       [file |-> "d", events |-> {"a"}, callback |-> 1],
       [file |-> "d", events |-> {"b"}, callback |-> 2] >>
MCPlans ==
    {Plan(b, {1, 2}, 1, FALSE, FALSE, 6, 1) : b \in {"napi", "core", "cj"}}
    \cup {Plan(b, {1, 3}, 1, TRUE, FALSE, 4, 1) : b \in {"napi", "core", "cj"}}
    \cup {Plan(b, {1}, 1, FALSE, TRUE, 4, 1) : b \in {"napi", "core", "cj"}}
    \cup {Plan(b, {1, 4}, 2, FALSE, TRUE, 5, 0) : b \in {"napi", "core", "cj"}}
    \cup {Plan(b, {1, 2, 5}, 1, FALSE, FALSE, 6, 0) : b \in {"napi", "core"}}

Bindings == {"core", "cj", "napi"}
Member(kind, name, dir, len) == [kind |-> kind, name |-> name, dir |-> dir, len |-> len]
One == << Member("file", "f", "f", 2) >>
Tree == << Member("dir", "d", "root", 0), Member("file", "a", "d", 2), Member("link", "l", "d", 0),
           Member("file", "b", "d", 1) >>
Empty == << Member("dir", "d", "root", 0) >>
AtFile(n) == [x \in {"f"} |-> n]
AtTree(n, m) == [x \in {"root", "a", "b"} |-> IF x = "root" THEN 1 ELSE IF x = "a" THEN n ELSE m]
Job(binding, kind, tree, old, listens, cancels, refused, shrinks, overlaps) ==
    [binding |-> binding, kind |-> kind, tree |-> tree, old |-> old, listener |-> listens,
     cancels |-> cancels, refused |-> refused, shrinks |-> shrinks, overlaps |-> overlaps]
MCJobs ==
    {Job(b, "file", One, AtFile(n), TRUE, TRUE, "none", FALSE, FALSE) : b \in Bindings, n \in {-1, 1, 3}}
    \cup {Job(b, "file", One, AtFile(-1), l, FALSE, x, s, v) : b \in {"core", "cj"}, l \in BOOLEAN,
            x \in {"none", "inotify", "eventfd", "create", "open", "sendfile"}, s \in BOOLEAN, v \in BOOLEAN}
    \cup {Job(b, "dir", Tree, AtTree(-1, 1), TRUE, TRUE, x, FALSE, FALSE) : b \in {"core", "cj"}, x \in {"none", "mkdir"}}
    \cup {Job(b, "dir", Empty, AtTree(-1, -1), TRUE, TRUE, "none", FALSE, v) : b \in {"core", "cj"}, v \in BOOLEAN}
    \cup {Job("napi", "file", One, AtFile(-1), l, TRUE, x, FALSE, FALSE) : l \in BOOLEAN, x \in {"none", "copy"}}
MCCalls ==
    {[binding |-> b, authority |-> "bundle", refused |-> x, fails |-> f, signalled |-> TRUE] :
        b \in Bindings, x \in {"none", "mkdir", "path", "session", "sandbox"}, f \in BOOLEAN}
    \cup {[binding |-> b, authority |-> "docs", refused |-> x, fails |-> f, signalled |-> TRUE] :
        b \in Bindings, x \in {"none", "session"}, f \in BOOLEAN}
    \cup {[binding |-> b, authority |-> "docs", refused |-> "none", fails |-> FALSE, signalled |-> FALSE] : b \in Bindings}

(* What a job is: of one file, or of a directory whose files have names of *)
(* their own.                                                              *)
FileNames(j) == {j.tree[n].name : n \in {m \in DOMAIN j.tree : j.tree[m].kind = "file"}}
ASSUME JobsAssumption ==
    /\ CopyJobs # {}
    /\ \A j \in CopyJobs :
        /\ j.binding \in Bindings /\ j.kind \in {"file", "dir"} /\ j.listener \in BOOLEAN
        /\ j.tree \in Seq([kind : {"file", "dir", "link"}, name : STRING, dir : STRING, len : Nat])
        /\ j.kind = "file" => Len(j.tree) = 1 /\ j.tree[1].kind = "file"
        /\ j.old \in [DOMAIN j.old -> Int] /\ FileNames(j) \subseteq DOMAIN j.old
        /\ \A m, n \in DOMAIN j.tree :
            j.tree[m].kind = "file" /\ j.tree[n].kind = "file" /\ m # n => j.tree[m].name # j.tree[n].name
ASSUME CallsAssumption ==
    /\ RemoteCalls # {} /\ MaxProgress \in Nat
    /\ \A x \in RemoteCalls :
        x \in [binding : Bindings, authority : STRING, refused : STRING, fails : BOOLEAN, signalled : BOOLEAN]
ASSUME NumbersAssumption == MaxFd \in Nat

Copy == INSTANCE CopyProgress WITH
    Files <- CopyFiles, Dirs <- CopyDirs, Jobs <- CopyJobs,
    k <- ck, o <- co, c <- cc, t <- ct
Remote == INSTANCE RemoteCopy WITH Sessions <- RemoteCalls, r <- rr

ScenesInit ==
    \/ scene = "watch" /\ Init /\ Copy!InitWith(CHOOSE j \in CopyJobs : TRUE) /\ Remote!InitWith(CHOOSE x \in RemoteCalls : TRUE)
    \/ scene = "copy" /\ InitWith(CHOOSE x \in Plans : TRUE) /\ Copy!Init /\ Remote!InitWith(CHOOSE x \in RemoteCalls : TRUE)
    \/ scene = "remote" /\ InitWith(CHOOSE x \in Plans : TRUE) /\ Copy!InitWith(CHOOSE j \in CopyJobs : TRUE) /\ Remote!Init
ScenesNext ==
    /\ \/ scene = "watch" /\ Next /\ UNCHANGED <<copyVars, remoteVars>>
       \/ scene = "copy" /\ Copy!Next /\ UNCHANGED <<watchVars, remoteVars>>
       \/ scene = "remote" /\ Remote!Next /\ UNCHANGED <<watchVars, copyVars>>
    /\ UNCHANGED scene
ScenesSpec ==
    /\ ScenesInit /\ [][ScenesNext]_<<scene, watchVars, copyVars, remoteVars>>
    /\ Fairness
    /\ WF_copyVars(scene = "copy" /\ Copy!Copies)
    /\ WF_copyVars(scene = "copy" /\ Copy!Notifies)
    /\ WF_copyVars(scene = "copy" /\ Copy!NapiReports)
    /\ WF_remoteVars(scene = "remote" /\ Remote!CallSteps)
    /\ WF_remoteVars(scene = "remote" /\ Remote!ServiceEnds)
    /\ WF_remoteVars(scene = "remote" /\ Remote!Answers)

(* A copy that returned has left nothing behind, however it ended: no      *)
(* descriptor of its inotify and event files, no temporary directory but   *)
(* that of a name refused in the sandbox.                                  *)
CopiesLeaveNothing == Copy!NoDescriptorLeft /\ Remote!NoTemporaryLeft
(* What the program is told of a copy is right: the progress only grows    *)
(* and ends at the total, success means that everything is there, a        *)
(* cancelled copy ends as cancelled, and no report that came after the end *)
(* is passed on.                                                           *)
ReportsRight ==
    /\ Copy!ProgressRight /\ Copy!CopiedAll /\ Copy!CancelHeeded
    /\ Remote!NoStrayReport /\ Remote!CancelEndsCopy
(* A copy of either kind returns.                                          *)
CopiesReturn == (scene = "copy" => Copy!CopyReturns) /\ (scene = "remote" => Remote!RemoteReturns)
=============================================================================

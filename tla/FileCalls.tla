----------------------------- MODULE FileCalls -----------------------------
(***************************************************************************)
(* Programs calling the file interfaces of the three bindings, and the two *)
(* older interfaces, on one tree of files.  A call of the dynamic binding  *)
(* or of @ohos.fileio is answered at once or leaves its work to a worker   *)
(* thread, which finds the tree as other calls have left it in the         *)
(* meantime; calls of the static and of the Cangjie binding are answered   *)
(* at once, those of @system.file never.                                   *)
(***************************************************************************)
EXTENDS TreeOps, LegacyPathOps

CONSTANTS Programs,    \* what is called, on which trees, see Program
          Cloud        \* the directory of files in the cloud

VARIABLES prog, fs, faults, calls, pending, last

vars == <<prog, fs, faults, calls, pending, last>>

(* A program: the trees it may find, the calls it makes, in which bindings *)
(* and how many (a bound), the errors of which the system may give one,    *)
(* whether the bindings are known to agree on its calls, and whether what  *)
(* they answer is known to hold.                                           *)
Program(trees, chosen, bindings, max, failing, agree, hold) ==
    [trees |-> trees, calls |-> chosen, bindings |-> bindings, max |-> max, failing |-> failing,
     agree |-> agree, hold |-> hold]
This == Programs[prog]

(* A call: its operation, two paths, whether they are given as descriptors *)
(* (copyFile), two numbers, a word, the options of listFile and the bytes  *)
(* to write.                                                               *)
NoOpt == [num |-> 0, rec |-> FALSE, over |-> -1, names |-> Names]
Call(op, p, q, n, w) ==
    [op |-> op, p |-> p, q |-> q, pfd |-> FALSE, qfd |-> FALSE, n |-> n, k |-> -1, w |-> w,
     local |-> FALSE, opt |-> NoOpt, d |-> << >>]
Flag(c) == IF c.local THEN "local" ELSE "default"
Src(c) == [fd |-> c.pfd, p |-> c.p]
Dest(c) == [fd |-> c.qfd, p |-> c.q]

NapiCall(c, s) ==
    CASE c.op = "rename" -> RenameSync(s, c.p, c.q)
      [] c.op = "symlink" -> SymlinkSync(s, c.p, c.q)
      [] c.op = "unlink" -> UnlinkSync(s, c.p)
      [] c.op = "access" -> AccessSync(s, c.p, c.w, Flag(c), Cloud)
      [] c.op = "mkdir" -> MkdirSync(s, c.p, c.w)
      [] c.op = "rmdir" -> RmdirentSync(s, c.p)
      [] c.op = "mkdtemp" -> MkdtempSync(s, c.p)
      [] c.op = "truncate" -> TruncateSync(s, c.p, c.n)
      [] c.op = "utimes" -> Utimes(s, c.p, c.n)
      [] c.op = "lstat" -> LstatSync(s, c.p)
      [] c.op = "stat" -> StatSync(s, c.p)
      [] c.op = "setxattr" -> SetXattrSync(s, c.p, c.w)
      [] c.op = "getxattr" -> GetXattrSync(s, c.p)
      [] c.op = "readText" -> ReadTextSync(s, c.p, c.n, c.k)
      [] c.op = "readLines" -> ReadLinesSync(s, c.p)
      [] c.op = "listFile" -> ListFileSync(s, c.p, c.opt)
      [] c.op = "copyFile" -> CopyFileSync(s, Src(c), Dest(c), c.n)
      [] c.op = "moveFile" -> MoveFileSync(s, c.p, c.q, c.n)
      [] c.op = "copyDir" -> CopyDirSync(s, c.p, c.q, c.n)
      [] c.op = "moveDir" -> MoveDirSync(s, c.p, c.q, c.n)

(* utimes has no asynchronous form.                                        *)
NapiSchedule(c, s) ==
    CASE c.op = "rename" -> RenameAsync(s, c.p, c.q)
      [] c.op = "symlink" -> SymlinkAsync(s, c.p, c.q)
      [] c.op = "unlink" -> UnlinkAsync(s, c.p)
      [] c.op = "access" -> AccessAsync(s, c.p, c.w)
      [] c.op = "mkdir" -> MkdirAsync(s, c.p)
      [] c.op = "rmdir" -> RmdirentAsync(s, c.p)
      [] c.op = "mkdtemp" -> MkdtempAsync(s, c.p)
      [] c.op = "truncate" -> TruncateAsync(s, c.p, c.n)
      [] c.op = "lstat" -> LstatAsync(s, c.p)
      [] c.op = "stat" -> StatAsync(s, c.p)
      [] c.op = "setxattr" -> SetXattrAsync(s, c.p, c.w)
      [] c.op = "getxattr" -> GetXattrAsync(s, c.p)
      [] c.op = "readText" -> ReadTextAsync(s, c.p, c.n, c.k)
      [] c.op = "readLines" -> ReadLinesAsync(s, c.p)
      [] c.op = "listFile" -> ListFileAsync(s, c.p, c.opt)
      [] c.op = "copyFile" -> CopyFileAsync(s, Src(c), Dest(c), c.n)
      [] c.op = "moveFile" -> MoveFileAsync(s, c.p, c.q, c.n)
      [] c.op = "copyDir" -> CopyDirAsync(s, c.p, c.q, c.n)
      [] c.op = "moveDir" -> MoveDirAsync(s, c.p, c.q, c.n)

NapiExec(c, s) ==
    CASE c.op = "rename" -> RenameExec(s, c.p, c.q)
      [] c.op = "symlink" -> SymlinkExec(s, c.p, c.q)
      [] c.op = "unlink" -> UnlinkExec(s, c.p)
      [] c.op = "access" -> AccessExec(s, c.p, c.w, Flag(c), Cloud)
      [] c.op = "mkdir" -> MkdirExec(s, c.p, c.w)
      [] c.op = "rmdir" -> RmDirent(s, c.p)
      [] c.op = "mkdtemp" -> MkdTempExec(s, c.p)
      [] c.op = "truncate" -> TruncateCore(s, c.p, c.n)
      [] c.op = "lstat" -> LstatExec(s, c.p)
      [] c.op = "stat" -> StatExec(s, c.p)
      [] c.op = "setxattr" -> SetXattrExec(s, c.p, c.w)
      [] c.op = "getxattr" -> GetXattrCore(s, c.p)
      [] c.op = "readText" -> ReadTextExec(s, c.p, c.n, c.k)
      [] c.op = "readLines" -> ReadLinesExec(s, c.p)
      [] c.op = "listFile" -> ListFileExec(s, c.p, c.opt)
      [] c.op = "copyFile" -> CopyFileExec(s, Src(c), Dest(c))
      [] c.op = "moveFile" -> MoveFile(s, c.p, c.q, c.n)
      [] c.op = "copyDir" -> CopyDirFunc(s, c.p, c.q, c.n)
      [] c.op = "moveDir" -> MoveDirFunc(s, c.p, c.q, c.n)

AniCall(c, s) ==
    CASE c.op = "rename" -> AniRename(s, c.p, c.q)
      [] c.op = "symlink" -> AniSymlink(s, c.p, c.q)
      [] c.op = "unlink" -> AniUnlink(s, c.p)
      [] c.op = "access" -> AniAccess(s, c.p, c.w, Flag(c), Cloud)
      [] c.op = "mkdir" -> AniMkdir(s, c.p, c.w)
      [] c.op = "rmdir" -> AniRmdir(s, c.p)
      [] c.op = "mkdtemp" -> AniMkdtemp(s, c.p)
      [] c.op = "truncate" -> AniTruncate(s, c.p, c.n)
      [] c.op = "utimes" -> AniUtimes(s, c.p, c.n)
      [] c.op = "lstat" -> AniLstat(s, c.p)
      [] c.op = "stat" -> AniStat(s, c.p)
      [] c.op = "setxattr" -> AniSetXattr(s, c.p, c.w)
      [] c.op = "getxattr" -> AniGetXattr(s, c.p)
      [] c.op = "readText" -> AniReadText(s, c.p, c.n, c.k)
      [] c.op = "readLines" -> AniReadLines(s, c.p)
      [] c.op = "listFile" -> AniListFile(s, c.p, c.opt)
      [] c.op = "copyFile" -> AniCopyFile(s, Src(c), Dest(c), c.n)
      [] c.op = "moveFile" -> AniMoveFile(s, c.p, c.q, c.n)
      [] c.op = "copyDir" -> AniCopyDir(s, c.p, c.q, c.n)
      [] c.op = "moveDir" -> AniMoveDir(s, c.p, c.q, c.n)

CjCall(c, s) ==
    CASE c.op = "rename" -> CjRename(s, c.p, c.q)
      [] c.op = "symlink" -> CjSymlink(s, c.p, c.q)
      [] c.op = "unlink" -> CjUnlink(s, c.p)
      [] c.op = "access" -> CjAccess(s, c.p, c.w, Flag(c), Cloud)
      [] c.op = "mkdir" -> CjMkdir(s, c.p, c.w)
      [] c.op = "rmdir" -> CjRmdir(s, c.p)
      [] c.op = "mkdtemp" -> CjMkdtemp(s, c.p)
      [] c.op = "truncate" -> CjTruncate(s, c.p, c.n)
      [] c.op = "utimes" -> CjUtimes(s, c.p, c.n)
      [] c.op = "lstat" -> CjLstat(s, c.p)
      [] c.op = "stat" -> CjStat(s, c.p)
      [] c.op = "setxattr" -> CjSetXattr(s, c.p, c.w)
      [] c.op = "getxattr" -> CjGetXattr(s, c.p)
      [] c.op = "readText" -> CjReadText(s, c.p, c.n, c.k)
      [] c.op = "readLines" -> CjReadLines(s, c.p)
      [] c.op = "listFile" -> CjListFile(s, c.p, c.opt)
      [] c.op = "copyFile" -> CjCopyFile(s, Src(c), Dest(c))
      [] c.op = "moveFile" -> CjMoveFile(s, c.p, c.q, c.n)
      [] c.op = "copyDir" -> CjCopyDir(s, c.p, c.q, c.n)
      [] c.op = "moveDir" -> CjMoveDir(s, c.p, c.q, c.n)

(* @ohos.fileio: the form that answers at once and the one that does not.  *)
FioSync(c, s) ==
    CASE c.op = "rename" -> FioRename(s, c.p, c.q)
      [] c.op = "symlink" -> FioSymlink(s, c.p, c.q)
      [] c.op = "unlink" -> FioUnlinkSync(s, c.p)
      [] c.op = "access" -> FioAccessSync(s, c.p, c.w)
      [] c.op = "mkdir" -> FioMkdirSync(s, c.p, c.w)
      [] c.op = "rmdir" -> FioRmdir(s, c.p)
      [] c.op = "mkdtemp" -> FioMkdtemp(s, c.p)
      [] c.op = "truncate" -> FioTruncateSync(s, c.p, c.n)
      [] c.op = "lstat" -> FioLstatSync(s, c.p)
      [] c.op = "stat" -> FioStatSync(s, c.p)
      [] c.op = "readText" -> FioReadTextSync(s, c.p, c.n, c.k)
      [] c.op = "copyOver" -> FioCopyFileSync(s, Src(c), Dest(c), c.n)
      [] c.op = "readdir" -> FioReadDir(s, c.p)
      [] c.op = "chmod" -> FioChmod(s)
      [] c.op = "chown" -> FioChown(s)
      [] c.op = "lchown" -> FioLchown(s)

FioLater(c, s) ==
    CASE c.op = "unlink" -> FioUnlink(s, c.p)
      [] c.op = "access" -> FioAccess(s, c.p, c.w)
      [] c.op = "mkdir" -> FioMkdir(s, c.p, c.w)
      [] c.op = "truncate" -> FioTruncateAsync(s, c.p, c.n)
      [] c.op = "lstat" -> FioLstatAsync(s, c.p)
      [] c.op = "stat" -> FioStatAsync(s, c.p)
      [] c.op = "readText" -> FioReadTextAsync(s, c.p, c.n, c.k)
      [] c.op = "copyOver" -> FioCopyFileAsync(s, Src(c), Dest(c), c.n)
      [] OTHER -> FioSync(c, s)

SysSchedule(c, s) ==
    CASE c.op = "sysMkdir" -> MkdirCall(s, c.p)
      [] c.op = "sysRmdir" -> RmdirCall(s, c.p)
      [] c.op = "delete" -> DeleteCall(s, c.p)
      [] c.op = "sysAccess" -> AccessCall(s, c.p)
      [] c.op = "get" -> GetCall(s, c.p)
      [] c.op = "list" -> ListCall(s, c.p)
      [] c.op = "copy" -> CopyCall(s, c.p, c.q)
      [] c.op = "move" -> MoveCall(s, c.p, c.q)
      [] c.op = "writeText" -> WriteTextCall(s, c.p, c.n = 0)
      [] c.op = "writeBuffer" -> WriteArrayBufferCall(s, c.p)
      [] c.op = "sysReadText" -> ReadTextCall(s, c.p, c.n = 0)
      [] c.op = "readBuffer" -> ReadArrayBufferCall(s, c.p)

SysCall(c, s) ==
    CASE c.op = "sysMkdir" -> SysMkdir(s, c.p, c.w = "recursive")
      [] c.op = "sysRmdir" -> SysRmdir(s, c.p, c.w = "recursive")
      [] c.op = "delete" -> SysDelete(s, c.p)
      [] c.op = "sysAccess" -> SysAccess(s, c.p)
      [] c.op = "get" -> SysGet(s, c.p, c.w = "recursive")
      [] c.op = "list" -> SysList(s, c.p)
      [] c.op = "copy" -> SysCopy(s, c.p, c.q)
      [] c.op = "move" -> SysMove(s, c.p, c.q)
      [] c.op = "writeText" -> SysWriteText(s, c.p, c.d, c.w = "append")
      [] c.op = "writeBuffer" -> SysWriteArrayBuffer(s, c.p, c.d, c.w = "append", c.n)
      [] c.op = "sysReadText" -> SysReadText(s, c.p)
      [] c.op = "readBuffer" -> SysReadArrayBuffer(s, c.p, c.n, c.k)

----------------------------------------------------------------------------
Idle == [who |-> "nobody", c |-> Call("none", Root, Root, 0, ""),
         out |-> [e |-> "OK", fd |-> 0, v |-> "none", p |-> Root, n |-> 0, c |-> << >>, ps |-> {}, cf |-> {}, met |-> "none"]]
Answer(who, c, o) ==
    [who |-> who, c |-> c,
     out |-> [e |-> o.e, fd |-> o.fd, v |-> o.v, p |-> o.p, n |-> o.n, c |-> o.c, ps |-> o.ps, cf |-> o.cf, met |-> o.met]]

Init ==
    /\ prog \in DOMAIN Programs
    /\ fs \in This.trees /\ faults = This.failing
    /\ calls = 0 /\ pending = {} /\ last = Idle

Answered(who, c, o) ==
    /\ fs' = o.fs /\ faults' = o.f /\ prog' = prog
    /\ last' = Answer(who, c, o)

(* A descriptor given to copyFile is open on a file that is there.  No     *)
(* program moves a file onto itself with @system.file, which deletes it.   *)
Possible(c) ==
    /\ (c.pfd => Kind(fs, c.p) = "file") /\ (c.qfd => Kind(fs, c.q) = "file")
    /\ c.op = "move" => Follow(fs, c.p) # Follow(fs, c.q)

Made(who, c) == who \in This.bindings /\ Possible(c) /\ calls < This.max /\ calls' = calls + 1

Job(who, c) == [who |-> who, c |-> c]

NapiSync(c) ==
    /\ Made("napi", c)
    /\ \E o \in NapiCall(c, Start(fs, faults)) : Answered("napi", c, o)
    /\ UNCHANGED pending

NapiAsync(c) ==
    /\ Made("napi", c)
    /\ c.op # "utimes"
    /\ \E o \in NapiSchedule(c, Start(fs, faults)) :
          IF o.e = "OK"
          THEN pending' = pending \cup {Job("napi", c)} /\ faults' = o.f /\ last' = Idle /\ UNCHANGED <<prog, fs>>
          ELSE Answered("napi", c, o) /\ UNCHANGED pending

NapiWork(c) ==
    /\ Job("napi", c) \in pending /\ pending' = pending \ {Job("napi", c)}
    /\ \E o \in NapiExec(c, Start(fs, faults)) : Answered("napi", c, o)
    /\ UNCHANGED calls

AniSync(c) ==
    /\ Made("ani", c)
    /\ \E o \in AniCall(c, Start(fs, faults)) : Answered("ani", c, o)
    /\ UNCHANGED pending

(* An argument of the Cangjie binding is a string by its type.             *)
CjSync(c) ==
    /\ Made("cj", c)
    /\ c.p # NotAPath /\ c.q # NotAPath
    /\ \E o \in CjCall(c, Start(fs, faults)) : Answered("cj", c, o)
    /\ UNCHANGED pending

FileioSync(c) ==
    /\ Made("fileio", c)
    /\ \E o \in FioSync(c, Start(fs, faults)) : Answered("fileio", c, o)
    /\ UNCHANGED pending

Refused(c) == c.p = NotAPath \/ c.q = NotAPath
Later(who, c) == pending' = pending \cup {Job(who, c)} /\ last' = Idle /\ UNCHANGED <<prog, fs, faults>>

(* What the worker would refuse is refused at once.                        *)
FileioAsync(c) ==
    /\ Made("fileio", c)
    /\ IF Refused(c) THEN UNCHANGED pending /\ \E o \in Fail(Start(fs, faults), "EINVAL") : Answered("fileio", c, o)
       ELSE Later("fileio", c)

FileioWork(c) ==
    /\ Job("fileio", c) \in pending /\ pending' = pending \ {Job("fileio", c)}
    /\ \E o \in FioLater(c, Start(fs, faults)) : Answered("fileio", c, o)
    /\ UNCHANGED calls

System(c) ==
    /\ Made("system", c)
    /\ \E o \in SysSchedule(c, Start(fs, faults)) :
          IF o.e = "OK" THEN Later("system", c) ELSE Answered("system", c, o) /\ UNCHANGED pending

SystemWork(c) ==
    /\ Job("system", c) \in pending /\ pending' = pending \ {Job("system", c)}
    /\ Possible(c)
    /\ \E o \in SysCall(c, Start(fs, faults)) : Answered("system", c, o)
    /\ UNCHANGED calls

Next ==
    \E c \in This.calls :
        \/ NapiSync(c) \/ NapiAsync(c) \/ NapiWork(c)
        \/ AniSync(c) \/ CjSync(c)
        \/ FileioSync(c) \/ FileioAsync(c) \/ FileioWork(c)
        \/ System(c) \/ SystemWork(c)

Spec == Init /\ [][Next]_vars

----------------------------------------------------------------------------
(* Type correctness: a tree keeps its paths, and every node in it stands   *)
(* in a directory, whatever the calls did to it.                           *)
TypeOK ==
    /\ \A p \in DOMAIN fs : Has(fs, p) /\ p # Root => Kind(fs, Parent(p)) = "dir"
    /\ faults \in {{}, This.failing} /\ calls \in 0 .. This.max /\ \A j \in pending : j.c \in This.calls
    /\ last.out.ps \subseteq DOMAIN fs

(* The dynamic and the static binding give the same answers and leave the  *)
(* same tree for every call in every tree that calls lead to, as long as   *)
(* the system does not fail.                                               *)
Answering == {"readdir", "access", "mkdtemp", "stat", "lstat", "getxattr", "readText", "readLines", "listFile"}
Seen(c, S) ==       \* what the caller sees of a call; the values it has no use for are left out
    {LET r == IF c.op \in Answering THEN o ELSE Start(o.fs, {})
     IN [fs |-> o.fs, e |-> o.e, fd |-> o.fd, cf |-> o.cf, v |-> r.v, p |-> r.p, n |-> r.n, c |-> r.c, ps |-> r.ps] :
        o \in S}
Comparing == This.agree /\ calls < This.max
BindingsAgree ==
    Comparing => \A c \in This.calls : Possible(c) =>
        Seen(c, NapiCall(c, Start(fs, {}))) = Seen(c, AniCall(c, Start(fs, {})))

(* So do the two forms of a call of the dynamic binding: what is not       *)
(* refused at once does on the worker what the other form does, and what   *)
(* is refused is refused by both.                                          *)
FormsAgree ==
    Comparing => \A c \in This.calls : c.op # "utimes" /\ Possible(c) =>
        Seen(c, Then(NapiSchedule(c, Start(fs, {})), LAMBDA s : NapiExec(c, s)))
          = Seen(c, NapiCall(c, Start(fs, {})))

(* On the calls they share @ohos.fileio and what took its place have the   *)
(* same effect and are refused in the same states (with other words:       *)
(* errors are not compared).                                               *)
Shared == {"rename", "symlink", "unlink", "mkdir", "mkdtemp", "truncate", "lstat", "stat", "readText"}
Effect(c, S) ==
    {IF o.e # "OK" THEN <<o.fs>>
     ELSE <<o.fs, CASE c.op = "mkdtemp" -> o.p [] c.op = "readText" -> o.c [] c.op \in {"stat", "lstat"} -> <<o.n>> [] OTHER -> Root>> :
        o \in S}
LegacyAgrees ==
    "fileio" \in This.bindings /\ calls < This.max =>
        \A c \in This.calls : c.op \in Shared /\ c.w # "bad" =>
            LET new == Effect(c, NapiCall(c, Start(fs, {})))
            IN new = Effect(c, FioSync(c, Start(fs, {}))) /\ new = Effect(c, FioLater(c, Start(fs, {})))

(* The interfaces agree: the bindings, the forms of a call and the old     *)
(* module with the one that took its place.                                *)
InterfacesAgree == BindingsAgree /\ FormsAgree /\ LegacyAgrees

(* No call leaves a descriptor open behind it, however it ends, but an     *)
(* iterator of lines, which keeps the file it reads.                       *)
DescriptorsReleased ==
    last.out.fd = IF last.c.op = "readLines" /\ last.out.e = "OK" /\ last.who # "nobody" THEN 1 ELSE 0

(* Nothing dangles after a call: no descriptor, and no node of a tree      *)
(* without its directory.                                                  *)
NothingDangling == TypeOK /\ DescriptorsReleased

(* An operation on one node that reports a failure has left the tree as it *)
(* was (rmdir, recursive mkdir and the operations on trees may stop half   *)
(* way).                                                                   *)
OneNode == {"readdir", "delete", "sysAccess", "get", "list", "sysReadText", "readBuffer", "rename", "symlink", "unlink", "truncate", "utimes", "setxattr", "access", "stat",
            "lstat", "getxattr", "readText", "readLines", "listFile"}
FailureLeavesTree ==
    last'.who # "nobody" /\ last'.out.e # "OK" /\ (last'.c.op \in OneNode \/ (last'.c.op = "mkdir" /\ last'.c.w = "absent"))
        => fs' = fs

Listed(t, c) ==      \* what there is to list
    LET D == Follow(t, c.p)
        all == IF c.opt.rec THEN {q \in Subtree(t, D) \ {D} : t[q].k = "file"} ELSE Children(t, D)
    IN {q \in all : FilterResult(t, q, c.opt)}
Below(t, p) == {r \in Subtree(t, p) : r # p}
Same(t, r, u, d) == Has(u, d) /\ (u[d] = t[r] \/ u[d].c = t[Follow(t, r)].c)    \* d is r, moved or copied
Part(t, r, u, d) == Has(u, d) /\ IsPrefix(u[d].c, t[Follow(t, r)].c)             \* d is what a short transfer made of r
SameOrCut(t, r, u, d, cut) == Same(t, r, u, d) \/ (cut /\ Part(t, r, u, d))
ArrivedOrCut(t, u, p, q, cut) ==     \* what was below p in the tree t is below q in u, or what a short transfer left of it
    \A r \in Below(t, p) : LET d == Rebase(r, p, q) IN
        IF t[r].k = "dir" THEN Kind(u, d) = "dir" ELSE SameOrCut(t, r, u, d, cut)
Arrived(t, u, p, q) == ArrivedOrCut(t, u, p, q, FALSE)
Cut(out) == out.met = "SHORT"            \* fewer bytes were sent or written than asked for
Unlisted(a) ==                          \* a directory could not be listed, and nobody looked at that
    a.out.met = "EMFILE" /\ (a.c.op = "moveDir" \/ (a.c.op = "copyDir" /\ a.who = "cj"))
Promised(c, t, u, out, fault) ==     \* fault: a call of the system failed meanwhile
    CASE c.op = "mkdir" -> Kind(u, c.p) = "dir" /\ \A r \in DOMAIN t : Has(t, r) => u[r] = t[r]
      [] c.op = "rmdir" -> Subtree(u, c.p) = {} /\ \A r \in DOMAIN t : ~Under(c.p, r) => u[r] = t[r]
      [] c.op \in {"chmod", "chown", "lchown"} -> u = t
      [] c.op = "unlink" -> ~Has(u, c.p) /\ Has(t, c.p) /\ t[c.p].k # "dir"
      [] c.op = "readdir" -> out.ps = Children(t, Follow(t, c.p))
      [] c.op = "sysMkdir" -> Kind(u, c.p) = "dir" /\ \A r \in DOMAIN t : Has(t, r) => u[r] = t[r]
      [] c.op \in {"sysRmdir", "delete"} ->
            LET q == Follow(t, c.p) IN Subtree(u, q) = {} /\ \A r \in DOMAIN t : ~Under(q, r) => u[r] = t[r]
      [] c.op = "sysAccess" -> Exists(t, c.p)
      [] c.op \in {"get", "list"} ->
            LET D == Follow(t, c.p)
                all == IF c.op = "list" THEN Children(t, D)
                       ELSE {q \in (IF c.w = "recursive" THEN Below(t, D) ELSE Children(t, D)) : t[q].k = "file"}
            IN out.ps = {Rebase(q, D, c.p) : q \in all} \/ fault
      [] c.op = "copy" -> IF Kind(t, Follow(t, c.p)) = "dir" THEN Kind(u, c.q) = "dir" ELSE SameOrCut(t, c.p, u, Follow(u, c.q), Cut(out))
      [] c.op = "move" ->
            IF Kind(t, Follow(t, c.p)) = "dir"
            THEN ArrivedOrCut([r \in DOMAIN t |-> IF t[r].k = "link" THEN NoNode ELSE t[r]], u, Follow(t, c.p), c.q, Cut(out))
            ELSE SameOrCut(t, c.p, u, Follow(u, c.q), Cut(out)) /\ (~fault => ~Has(u, Follow(t, c.p)))
      [] c.op \in {"writeText", "writeBuffer"} ->
            LET old == IF Exists(t, c.p) /\ c.w = "append" THEN t[Follow(t, c.p)].c ELSE << >>
                gap == IF c.op = "writeBuffer" /\ c.w # "append" /\ c.n > 0 THEN Zeros(c.n) ELSE << >>
                now == u[Follow(u, c.p)].c
            IN now = old \o gap \o c.d \/ (Cut(out) /\ IsPrefix(now, old \o gap \o c.d))
      [] c.op \in {"sysReadText", "readBuffer"} ->
            \A i \in 1 .. Len(out.c) : LET at == IF c.op = "readBuffer" THEN c.n + i ELSE i IN
                at \in DOMAIN t[Follow(t, c.p)].c => out.c[i] = t[Follow(t, c.p)].c[at]
      [] c.op = "rename" -> u[c.q] = t[c.p] /\ (c.p # c.q => ~Has(u, c.p))
      [] c.op = "access" ->
            LET is == Exists(t, c.p) /\ (c.w = "w" => t[Follow(t, c.p)].w)
            IN ~c.local => (out.v = "yes" => is) /\ (out.v = "no" /\ ~fault => ~is)
      [] c.op = "mkdtemp" -> ~Has(t, out.p) /\ Kind(u, out.p) = "dir" /\ StrictlyUnder(c.p, out.p)
      [] c.op = "truncate" -> Len(u[Follow(t, c.p)].c) = c.n
      [] c.op = "readText" ->
            LET text == t[Follow(t, c.p)].c
                from == IF c.n = -1 THEN 0 ELSE c.n
            IN /\ Len(out.c) = (IF c.k = -1 \/ from + c.k > Len(text) THEN Len(text) - from ELSE c.k)
               /\ \A i \in 1 .. Len(out.c) : out.c[i] = text[from + i]
      [] c.op = "listFile" ->
            /\ out.ps \subseteq Listed(t, c)
            /\ Cardinality(out.ps) = (IF c.opt.num = 0 \/ Cardinality(Listed(t, c)) < c.opt.num
                                      THEN Cardinality(Listed(t, c)) ELSE c.opt.num)
      [] c.op = "copyOver" -> IsPrefix(t[Follow(t, c.p)].c, u[Follow(u, c.q)].c) \/ Cut(out)
      [] c.op = "copyFile" -> u[Follow(u, c.q)].c = t[Follow(t, c.p)].c
      [] c.op = "moveFile" -> Same(t, c.p, u, c.q) /\ (c.p # c.q => ~Has(u, c.p))
      [] c.op = "copyDir" ->
            Kind(t, c.p) = "dir" /\ Arrived(t, u, c.p, c.q \o <<Last(c.p)>>) /\ Arrived(t, u, c.p, c.p)
      [] c.op = "moveDir" ->
            Kind(t, c.p) = "dir" /\ Arrived(t, u, c.p, c.q \o <<Last(c.p)>>) /\ ~Has(u, c.p)
      [] OTHER -> TRUE
GoneMeanwhile(a) == a.c.op = "moveDir" /\ ~Has(fs, a.c.p) /\ Job(a.who, a.c) \in pending
SuccessIsTrue ==
    This.hold /\ last'.who # "nobody" /\ last'.out.e = "OK" =>
        \/ Promised(last'.c, fs, fs', last'.out, faults' # faults)
        \/ Unlisted(last')
        \/ GoneMeanwhile(last') /\ fs' = fs
(* What a call answers is so: without an error, of the tree it answered    *)
(* about or of the tree it made; with one, an operation on one node has    *)
(* left the tree as it was.  Three answers are not so: where @system.file  *)
(* takes a short count of sendfile or write for a success, what it copied, *)
(* moved or wrote is a part from the start; moveDir, and copyDir of the    *)
(* Cangjie binding, take a directory that cannot be listed for an empty    *)
(* one; and moveDir on a worker that no longer finds its source succeeds,  *)
(* without touching the tree.                                              *)
AnswersHold == [][SuccessIsTrue /\ FailureLeavesTree]_vars

(* The data of a file outlives every call that was not asked to destroy    *)
(* it: it is found in some file afterwards, whether the call failed or     *)
(* not.  There are two exceptions: move of @system.file removes the file   *)
(* of which a short sendfile has copied a part, and moveDir removes the    *)
(* directory it could not list and so found nothing to move in.            *)
Doomed(c, t) ==
    CASE c.op = "unlink" -> {c.p}
      [] c.op \in {"delete", "sysRmdir"} -> Subtree(t, Follow(t, c.p))
      [] c.op \in {"writeText", "writeBuffer"} -> {Follow(t, c.p)}
      [] c.op = "truncate" -> {Follow(t, c.p)}
      [] c.op = "rmdir" -> Subtree(t, c.p)
      [] c.op \in {"rename", "copyFile", "copyOver", "moveFile"} -> {Follow(t, c.q)}
      [] c.op = "copyDir" /\ c.n = 1 ->
            {Follow(t, Rebase(r, c.p, c.q \o <<Last(c.p)>>)) : r \in Subtree(t, c.p)}
      [] c.op = "moveDir" /\ c.n = 2 ->
            {Rebase(r, c.p, c.q \o <<Last(c.p)>>) : r \in Subtree(t, c.p)} \ Subtree(t, c.p)
      [] c.op = "moveDir" /\ c.n = 3 -> Subtree(t, c.q \o <<Last(c.p)>>) \ Subtree(t, c.p)
      [] OTHER -> {}
Unmoved(a, t) ==
    IF a.out.e = "OK" /\ ((a.c.op = "move" /\ Cut(a.out)) \/ (a.c.op = "moveDir" /\ Unlisted(a)))
    THEN Subtree(t, Follow(t, a.c.p)) ELSE {}
NothingLost ==
    [][last'.who # "nobody" =>
         \A r \in DOMAIN fs : fs[r].k = "file" /\ fs[r].c # << >> =>
             \/ \E d \in DOMAIN fs : fs'[d].k = "file" /\ fs'[d].c = fs[r].c
             \/ r \in Doomed(last'.c, fs) \cup Unmoved(last', fs)]_vars

(* When a directory could not be moved or copied for the files in its way, *)
(* the pairs reported are exactly what is left to do: every file still at  *)
(* the source of a move is the first of a pair or below one, and every     *)
(* pair names a source that is there and a destination that is taken.      *)
ConflictsAreRest ==
    [][last'.who # "nobody" /\ last'.out.e = "EEXIST" /\ last'.c.op \in {"moveDir", "copyDir"} =>
         /\ last'.out.cf # {}
         /\ \A x \in last'.out.cf : Has(fs', x[1]) /\ Exists(fs', x[2])
         /\ last'.c.op = "moveDir" =>
              \A r \in Subtree(fs', last'.c.p) : fs'[r].k # "dir" => \E x \in last'.out.cf : Under(x[1], r)]_vars
============================================================================

---------------------------- MODULE NapiPathOps ----------------------------
(***************************************************************************)
(* The operations of the dynamic (NAPI) binding of @ohos.file.fs that take *)
(* a path and neither copy nor move a tree: src/interfaces/kits/js/src/    *)
(* mod_fs/properties/*.cpp.  ...Sync is the call that answers at once,     *)
(* ...Async what the JavaScript thread does of the call that does not, and *)
(* ...Exec what a worker thread does of it later.                          *)
(***************************************************************************)
EXTENDS PosixFs

IsPath(p) == p # NotAPath
Params(s, ok, S) == IF ok THEN S ELSE Fail(s, "EINVAL")
Scheduled(s, ok) == Params(s, ok, {s})
ScheduledWith(s, ok) == Params(s, ok, NewReq(s))    \* with an object shared with the worker

----------------------------------------------------------------------------
RenameExec(s, p, q) == Then(NewReq(s), LAMBDA r : FsRename(r, p, q))
RenameSync(s, p, q) == Params(s, IsPath(p) /\ IsPath(q), RenameExec(s, p, q))
RenameAsync(s, p, q) == Scheduled(s, IsPath(p) /\ IsPath(q))

GetSymlinkArg(target, p) == IsPath(target) /\ IsPath(p)
SymlinkExec(s, target, p) == Then(NewReq(s), LAMBDA r : FsSymlink(r, target, p))
SymlinkSync(s, target, p) == Params(s, GetSymlinkArg(target, p), SymlinkExec(s, target, p))
SymlinkAsync(s, target, p) == Scheduled(s, GetSymlinkArg(target, p))

UnlinkExec(s, p) == Then(NewReq(s), LAMBDA r : FsUnlink(r, p))
UnlinkSync(s, p) == Params(s, IsPath(p), UnlinkExec(s, p))
UnlinkAsync(s, p) == Scheduled(s, IsPath(p))

----------------------------------------------------------------------------
(* access.  Beside the mode there is a flag: "local" asks whether the file *)
(* of the cloud directory is on this device, which its attribute says.     *)
UvAccess(s, p, mode) == Then(NewReq(s), LAMBDA r : FsAccess(r, p, mode))
IsCloudFilePath(cloud, p) == Under(cloud, p)

(* Whatever getxattr or the attribute says against it, the answer is an    *)
(* errno without its sign, which the callers do not take for an error.     *)
HandleLocalCheck(s, p) ==
    After(FsGetxattr(s, p),
          LAMBDA o : IF o.e = "OK" /\ o.v = "local" THEN Ret(o, "yes") ELSE Fail(o, "ENOENT"))
AccessCore(s, p, mode, flag, cloud) ==
    IF flag = "local" /\ IsCloudFilePath(cloud, p)
    THEN HandleLocalCheck(s, p) ELSE UvAccess(s, p, mode)

(* GetMode: the bits of reading and writing, or none                       *)
ValidMode(mode) == mode \in {"exist", "r", "w"}
GetAccessArgs(p, mode) == IsPath(p) /\ ValidMode(mode)
AccessExec(s, p, mode, flag, cloud) ==
    After(AccessCore(s, p, mode, flag, cloud),
          LAMBDA o : IF o.e \in {"ENOENT", "ENOMEM"} THEN Ret(Ok(o), "no") ELSE {o})
AccessSync(s, p, mode, flag, cloud) ==
    Params(s, GetAccessArgs(p, mode), AccessExec(s, p, mode, flag, cloud))
(* As it would be with the mode not looked at before the work is queued.   *)
AccessAsyncAnyMode(s, p, mode) == ScheduledWith(s, IsPath(p))
AccessAsync(s, p, mode) == ScheduledWith(s, GetAccessArgs(p, mode))

----------------------------------------------------------------------------
(* mkdir.  option is "absent", "single" or "recursive".                    *)
RECURSIVE CreateDirAll(_, _)
CreateDirAll(s, p) ==
    IF Kind(s.fs, p) = "dir" THEN {s}
    ELSE IF p = EmptyPath \/ p = Root THEN {s}
    ELSE Then(CreateDirAll(s, Parent(p)),
              LAMBDA o : IF Kind(o.fs, p) = "dir" THEN {o} ELSE FsMkdir(o, p))
Mkdirs(s, p, option) == IF option = "recursive" THEN CreateDirAll(s, p) ELSE FsMkdir(s, p)
MkdirCore(s, p) == Then(NewReq(s), LAMBDA r : FsMkdir(r, p))
MkdirExec(s, p, option) ==
    IF option = "absent" THEN MkdirCore(s, p)
    ELSE After(UvAccess(s, p, "exist"),
               LAMBDA o : IF o.e = "OK" THEN Fail(o, "EEXIST")
                          ELSE IF o.e # "ENOENT" THEN {o}
                          ELSE Then(Mkdirs(Ok(o), p, option),
                                    LAMBDA d : UvAccess(d, p, "exist")))
MkdirSync(s, p, option) == Params(s, IsPath(p), MkdirExec(s, p, option))
MkdirAsync(s, p) == Scheduled(s, IsPath(p))

RmDirent(s, p) ==
    Then(FsRemoveAll(s, p), LAMBDA o : IF o.v = "no" \/ Has(o.fs, p) THEN Fail(o, "ENOENT") ELSE {o})
RmdirentSync(s, p) == Params(s, IsPath(p), RmDirent(s, p))
RmdirentAsync(s, p) == Scheduled(s, IsPath(p))

MkdTempExec(s, p) == Then(NewReq(s), LAMBDA r : FsMkdtemp(r, p))
MkdtempSync(s, p) == Params(s, IsPath(p), MkdTempExec(s, p))
MkdtempAsync(s, p) == ScheduledWith(s, IsPath(p))

----------------------------------------------------------------------------
(* truncate by path: the descriptor is closed by its guard on every way    *)
TruncateCore(s, p, len) ==
    CloseAll(Then(Then(NewReq(s), LAMBDA r : FsOpen(r, p, {"r", "w"})),
                  LAMBDA o : Then(NewReq(o), LAMBDA r : FsFtruncate(r, r.p, len))))
TruncateSync(s, p, len) == Params(s, IsPath(p) /\ len >= 0, TruncateCore(s, p, len))
TruncateAsync(s, p, len) == Scheduled(s, IsPath(p) /\ len >= 0)

Utimes(s, p, mtime) ==
    Params(s, IsPath(p) /\ mtime >= 0,
           Then(Then(NewReq(s), LAMBDA r : FsStat(r, p)),
                LAMBDA o : Then(NewReq(o), LAMBDA r : FsUtime(r, p, mtime))))

LstatExec(s, p) == Then(NewReq(s), LAMBDA r : FsLstat(r, p))
LstatSync(s, p) == Params(s, IsPath(p), LstatExec(s, p))
LstatAsync(s, p) == ScheduledWith(s, IsPath(p))

CheckFsStat(s, p) == FsStat(s, p)
StatSync(s, p) ==
    Params(s, IsPath(p),
           Then(Then(NewReq(s), LAMBDA r : CheckFsStat(r, p)), LAMBDA o : NewReq(o)))
StatAsync(s, p) == ScheduledWith(s, IsPath(p))
StatExec(s, p) == Then(NewReq(s), LAMBDA r : CheckFsStat(r, p))

----------------------------------------------------------------------------
(* Extended attributes.  Not being able to tell the size of an attribute,  *)
(* for whatever reason, is answered with the empty string.                 *)
GetXattrCore(s, p) ==
    After(FsGetxattr(s, p), LAMBDA o : IF o.e # "OK" THEN Ret(Ok(o), "") ELSE FsGetxattr(o, p))
IsIllegalXattr(value) == value = "too long"
(* As it would be with the attribute read back to see that it is there.    *)
SetXattrExecReadsBack(s, p, value) == Then(FsSetxattr(s, p, value), LAMBDA o : FsGetxattr(o, p))
SetXattrExec(s, p, value) == FsSetxattr(s, p, value)
SetXattrSync(s, p, value) == Params(s, IsPath(p) /\ ~IsIllegalXattr(value), SetXattrExec(s, p, value))
SetXattrAsync(s, p, value) == Scheduled(s, IsPath(p) /\ ~IsIllegalXattr(value))
GetXattrSync(s, p) == Params(s, IsPath(p), GetXattrCore(s, p))
GetXattrAsync(s, p) == Scheduled(s, IsPath(p))

----------------------------------------------------------------------------
(* readText.  offset is -1 and len is -1 when the options do not give it.  *)
GetReadTextArg(offset, len) == offset >= -1 /\ len >= -1
TextRead(c, offset, len) ==
    LET size == Len(c)
        want == IF len = -1 \/ len > size THEN size ELSE len
        from == IF offset = -1 THEN 0 ELSE offset
    IN SubSeq(c, from + 1, IF from + want > size THEN size ELSE from + want)
OpenFile(s, p) == Then(NewReq(s), LAMBDA r : FsOpen(r, p, {"r"}))
ReadFromFile(s, offset, len) ==
    Then(NewReq(s),
         LAMBDA r : IF r.fs[r.p].k = "dir" THEN Fail(r, "EISDIR")
                    ELSE Read(r, [r EXCEPT !.c = TextRead(r.fs[r.p].c, offset, len)]))
ReadTextFile(s, p, offset, len) ==
    CloseAll(Then(OpenFile(s, p),
                  LAMBDA o : IF offset > Len(o.fs[o.p].c) THEN Fail(o, "EINVAL")
                             ELSE ReadFromFile(o, offset, len)))
ReadTextSync(s, p, offset, len) ==
    Params(s, IsPath(p) /\ GetReadTextArg(offset, len), ReadTextFile(s, p, offset, len))
ReadTextAsync(s, p, offset, len) == ScheduledWith(s, IsPath(p) /\ GetReadTextArg(offset, len))
ReadTextExec(s, p, offset, len) == ReadTextFile(s, p, offset, len)

(* readLines.  The iterator keeps the file open; on success it belongs to  *)
(* the object returned.  An allocation that fails in GetFileSize has an    *)
(* errno without its sign, which the worker does not take for an error.    *)
ReaderIterator(s, p) == FsOpen(s, p, {"r"})
GetFileSize(s, p) == Then(NewReq(s), LAMBDA r : FsStat(r, p))
InstantiateReaderIterator(s) == {[s EXCEPT !.v = "iterator"]}
ReadLinesSync(s, p) ==
    Params(s, IsPath(p),
           Then(Then(ReaderIterator(s, p), LAMBDA o : GetFileSize(o, p)), InstantiateReaderIterator))
ReadLinesAsync(s, p) == ScheduledWith(s, IsPath(p))
ReadLinesExec(s, p) ==
    Then(Then(ReaderIterator(s, p),
              LAMBDA o : After(GetFileSize(o, p),
                               LAMBDA g : IF g.e = "ENOMEM" THEN {[Ok(g) EXCEPT !.n = 0]} ELSE {g})),
         InstantiateReaderIterator)

----------------------------------------------------------------------------
(* listFile.  opt: num the most entries asked for (0: all), rec whether to *)
(* go below, over the size a file must exceed (-1: any), names the names   *)
(* a pattern admits.  scandir without an order: when the number runs out,  *)
(* which entries were met before is not determined.                        *)
GetOptionParam(opt) == opt.num >= 0 /\ opt.over >= -1
FilterResult(fs, q, opt) ==
    LET r == Follow(fs, q)
    IN /\ Last(q) \in opt.names
       /\ opt.over >= 0 => Has(fs, r) /\ Len(fs[r].c) > opt.over
Chosen(s, entries, opt, Match(_, _, _)) ==      \* which of the entries, at most as many as are asked for
    LET dirs == IF opt.rec THEN {q \in entries : s.fs[q].k = "dir"} ELSE {}
        match == {q \in entries \ dirs : Match(s.fs, q, opt)}
        left == opt.num - s.n
    IN IF opt.num = 0 \/ Cardinality(match) < left
       THEN {[s EXCEPT !.n = @ + Cardinality(match), !.ps = match \cup dirs]}
       ELSE IF left = 0 THEN {[s EXCEPT !.ps = {}]}
       ELSE {[s EXCEPT !.n = opt.num, !.ps = K \cup D] :
                K \in {K \in SUBSET match : Cardinality(K) = left}, D \in SUBSET dirs}
FilterFunc(s, entries, opt) == Chosen(s, entries, opt, FilterResult)
FilterFileRes(s, p, opt) ==
    Then(NewReq(s), LAMBDA r : Then(FsScandir(r, p), LAMBDA o : FilterFunc(o, o.ps, opt)))

RECURSIVE RecursiveFunc(_, _, _), ListEach(_, _, _, _)
ListEach(s, todo, found, opt) ==
    IF todo = {} THEN {[s EXCEPT !.ps = found]}
    ELSE UNION {Then(RecursiveFunc(s, d, opt),
                     LAMBDA o : ListEach(o, todo \ {d}, found \cup o.ps, opt)) : d \in todo}
RecursiveFunc(s, p, opt) ==
    Then(FilterFileRes(s, p, opt),
         LAMBDA o : ListEach(o, {q \in o.ps : o.fs[q].k = "dir"},
                             {q \in o.ps : o.fs[q].k = "file"}, opt))
ListFileExec(s, p, opt) ==
    LET clear == [s EXCEPT !.n = 0]          \* GetOptionArg clears what an earlier call left
    IN IF opt.rec THEN RecursiveFunc(clear, p, opt) ELSE FilterFileRes(clear, p, opt)
ListFileSync(s, p, opt) == Params(s, IsPath(p) /\ GetOptionParam(opt), ListFileExec(s, p, opt))
ListFileAsync(s, p, opt) == ScheduledWith(s, IsPath(p) /\ GetOptionParam(opt))
============================================================================

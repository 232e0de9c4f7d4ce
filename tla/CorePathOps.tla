---------------------------- MODULE CorePathOps ----------------------------
(***************************************************************************)
(* The same operations in the static (ANI) binding: the functions Do... of *)
(* src/interfaces/kits/js/src/mod_fs/properties/*_core.cpp, and what       *)
(* properties/ani/*_ani.cpp puts around them.  A call runs where it is     *)
(* made; there are no workers of its own.  The values of the arguments     *)
(* have their types already, so that only their ranges are tested.         *)
(* The Cangjie binding follows them.                                       *)
(***************************************************************************)
EXTENDS NapiPathOps

Valid(s, ok, S) == IF ok THEN S ELSE Fail(s, "EINVAL")

DoRename(s, p, q) == Then(NewReq(s), LAMBDA r : FsRename(r, p, q))
DoSymlink(s, target, p) == Then(NewReq(s), LAMBDA r : FsSymlink(r, target, p))
DoUnlink(s, p) == Then(NewReq(s), LAMBDA r : FsUnlink(r, p))
DoMkdtemp(s, p) == Then(NewReq(s), LAMBDA r : FsMkdtemp(r, p))
DoLstat(s, p) == Then(Then(NewReq(s), LAMBDA r : FsLstat(r, p)), LAMBDA o : NewReq(o))

----------------------------------------------------------------------------
CoreUvAccess(s, p, mode) == Then(NewReq(s), LAMBDA r : FsAccess(r, p, mode))
CoreHandleLocalCheck(s, p) ==
    After(FsGetxattr(s, p),
          LAMBDA o : IF o.e = "OK" /\ o.v = "local" THEN Ret(o, "yes") ELSE Fail(o, "ENOENT"))
CoreAccess(s, p, mode, flag, cloud) ==
    IF flag = "local" /\ Under(cloud, p)
    THEN CoreHandleLocalCheck(s, p) ELSE CoreUvAccess(s, p, mode)
ValidAccessArgs(p, mode) == p # EmptyPath /\ mode \in {"exist", "r", "w"}
DoAccess(s, p, mode, flag, cloud) ==
    Valid(s, ValidAccessArgs(p, mode),
          After(CoreAccess(s, p, mode, flag, cloud),
                LAMBDA o : IF o.e \in {"ENOENT", "ENOMEM"} THEN Ret(Ok(o), "no") ELSE {o}))

CoreMkdirExec(s, p, option) ==
    IF option = "absent" THEN Then(NewReq(s), LAMBDA r : FsMkdir(r, p))
    ELSE After(CoreUvAccess(s, p, "exist"),
               LAMBDA o : IF o.e = "OK" THEN Fail(o, "EEXIST")
                          ELSE IF o.e # "ENOENT" THEN {o}
                          ELSE Then(Mkdirs(Ok(o), p, option),
                                    LAMBDA d : CoreUvAccess(d, p, "exist")))
DoMkdir(s, p, option) == CoreMkdirExec(s, p, option)

CoreRmDirent(s, p) ==
    Then(FsRemoveAll(s, p), LAMBDA o : IF o.v = "no" \/ Has(o.fs, p) THEN Fail(o, "ENOENT") ELSE {o})
DoRmdirent(s, p) == Valid(s, p # EmptyPath, CoreRmDirent(s, p))

----------------------------------------------------------------------------
Truncate(s, p, len) ==
    CloseAll(Then(Then(NewReq(s), LAMBDA r : FsOpen(r, p, {"r", "w"})),
                  LAMBDA o : Then(NewReq(o), LAMBDA r : FsFtruncate(r, r.p, len))))
DoTruncate(s, p, len) == Valid(s, len >= 0, Truncate(s, p, len))
DoUtimes(s, p, mtime) ==
    Valid(s, mtime >= 0,
          Then(Then(NewReq(s), LAMBDA r : FsStat(r, p)),
               LAMBDA o : Then(NewReq(o), LAMBDA r : FsUtime(r, p, mtime))))
IsStatPath(p) == p # EmptyPath               \* IsPath: an empty path is none
CoreCheckFsStat(s, p) == FsStat(s, p)
DoStat(s, p) ==
    Valid(s, IsStatPath(p),
          Then(Then(NewReq(s), LAMBDA r : CoreCheckFsStat(r, p)), LAMBDA o : NewReq(o)))

CoreGetXattr(s, p) ==
    After(FsGetxattr(s, p), LAMBDA o : IF o.e # "OK" THEN Ret(Ok(o), "") ELSE FsGetxattr(o, p))
DoGetXattr(s, p) == CoreGetXattr(s, p)
DoSetXattr(s, p, value) == Valid(s, value # "too long", FsSetxattr(s, p, value))

----------------------------------------------------------------------------
ValidReadTextArg(offset, len) == offset >= -1 /\ len >= -1
CoreOpenFile(s, p) == Then(NewReq(s), LAMBDA r : FsOpen(r, p, {"r"}))
CoreReadFromFile(s, offset, len) ==
    Then(NewReq(s),
         LAMBDA r : IF r.fs[r.p].k = "dir" THEN Fail(r, "EISDIR")
                    ELSE Read(r, [r EXCEPT !.c = TextRead(r.fs[r.p].c, offset, len)]))
DoReadText(s, p, offset, len) ==
    Valid(s, ValidReadTextArg(offset, len),
          CloseAll(Then(CoreOpenFile(s, p),
                        LAMBDA o : IF offset > Len(o.fs[o.p].c) THEN Fail(o, "EINVAL")
                                   ELSE CoreReadFromFile(o, offset, len))))

CoreGetFileSize(s, p) == Then(NewReq(s), LAMBDA r : FsStat(r, p))
DoReadLines(s, p) ==
    Then(Then(ReaderIterator(s, p), LAMBDA o : CoreGetFileSize(o, p)), InstantiateReaderIterator)

(* The filters and the two walks of listfile_core.cpp are those of         *)
(* listfile.cpp, line for line.                                            *)
ValidOptionParam(opt) == opt.num >= 0 /\ opt.over >= -1
CoreFilterFileRes(s, p, opt) == FilterFileRes(s, p, opt)
CoreRecursiveFunc(s, p, opt) == RecursiveFunc(s, p, opt)
DoListFile(s, p, opt) ==
    LET clear == [s EXCEPT !.n = 0]
    IN Valid(s, ValidOptionParam(opt),
             IF opt.rec THEN CoreRecursiveFunc(clear, p, opt) ELSE CoreFilterFileRes(clear, p, opt))

----------------------------------------------------------------------------
(* The static binding turns the arguments into C++ values, which refuses   *)
(* what is no string, and the result into an object of the virtual         *)
(* machine, which may fail when the work has been done.                    *)

ToUTF8String(s, p, S) == IF p = NotAPath THEN Fail(s, "EINVAL") ELSE S
ToAni(S) == Then(S, LAMBDA o : {o} \cup Faulty(o, "UNKNOWN"))

AniRename(s, p, q) == ToUTF8String(s, p, ToUTF8String(s, q, DoRename(s, p, q)))
AniSymlink(s, target, p) == ToUTF8String(s, target, ToUTF8String(s, p, DoSymlink(s, target, p)))
AniUnlink(s, p) == ToUTF8String(s, p, DoUnlink(s, p))
AniRmdir(s, p) == ToUTF8String(s, p, DoRmdirent(s, p))
AniMkdir(s, p, option) == ToUTF8String(s, p, DoMkdir(s, p, option))
AniMkdtemp(s, p) == ToUTF8String(s, p, ToAni(DoMkdtemp(s, p)))
AniTruncate(s, p, len) == ToUTF8String(s, p, DoTruncate(s, p, len))
AniUtimes(s, p, mtime) == ToUTF8String(s, p, DoUtimes(s, p, mtime))
AniLstat(s, p) == ToUTF8String(s, p, ToAni(DoLstat(s, p)))
AniStat(s, p) == ToUTF8String(s, p, ToAni(DoStat(s, p)))

(* A mode that is none of the enumeration becomes the mode ERROR.          *)
ToAccessModeType(mode) == IF mode \in {"exist", "r", "w"} THEN mode ELSE "ERROR"
AniAccess(s, p, mode, flag, cloud) ==
    ToUTF8String(s, p, DoAccess(s, p, ToAccessModeType(mode), flag, cloud))

AniSetXattr(s, p, value) == ToUTF8String(s, p, DoSetXattr(s, p, value))
AniGetXattr(s, p) == ToUTF8String(s, p, ToAni(DoGetXattr(s, p)))
AniReadText(s, p, offset, len) == ToUTF8String(s, p, ToAni(DoReadText(s, p, offset, len)))

(* An iterator that cannot be wrapped is deleted, and its file closed.     *)
AniReadLines(s, p) ==
    ToUTF8String(s, p,
        Then(DoReadLines(s, p),
             LAMBDA o : {o} \cup {[d EXCEPT !.fd = @ - 1] : d \in Faulty(o, "UNKNOWN")}))

AniListFile(s, p, opt) == ToUTF8String(s, p, ToAni(DoListFile(s, p, opt)))

----------------------------------------------------------------------------
(* The same operations in the Cangjie binding: src/interfaces/kits/cj/src. *)
(* It does not share the core of the static binding, and differs from the  *)
(* other two where it was written anew: the answers of access, mkdir with  *)
(* an option, rmdir, truncate and readText.                                *)

(* FFIData::Create: an object whose identifier is handed to Cangjie.       *)
Created(S) == Then(S, LAMBDA o : {o} \cup Faulty(o, "ENOMEM"))

ParseFile(s, p) == NewReq(s)
CjCheckFsStat(s, p) == FsStat(s, p)
GetUvStat(s, p) == Then(Then(NewReq(s), LAMBDA r : CjCheckFsStat(r, p)), LAMBDA o : NewReq(o))
CjStat(s, p) == Created(Then(ParseFile(s, p), LAMBDA r : GetUvStat(r, p)))
CjLstat(s, p) == Created(Then(NewReq(s), LAMBDA r : FsLstat(r, p)))

(* What is absent is "no"; everything else, and everything the check of    *)
(* the cloud attribute has against the file, is an error.                  *)
CjUvAccess(s, p, mode) ==
    Then(NewReq(s), LAMBDA r : After(FsAccess(r, p, mode),
                                     LAMBDA o : IF o.e = "ENOENT" THEN Ret(Ok(o), "no") ELSE {o}))
CjHandleLocalCheck(s, p) ==
    Then(FsGetxattr(s, p), LAMBDA o : IF o.v = "local" THEN Ret(o, "yes") ELSE Fail(o, "ENOENT"))
CjAccess(s, p, mode, flag, cloud) ==
    IF flag = "local" /\ Under(cloud, p) THEN CjHandleLocalCheck(s, p) ELSE CjUvAccess(s, p, mode)

----------------------------------------------------------------------------
CjMkdir(s, p, option) ==
    IF option # "absent" THEN Mkdirs(s, p, option)
    ELSE Then(NewReq(s), LAMBDA r : FsMkdir(r, p))

(* The entries are removed one by one; a link is neither a file nor a      *)
(* directory to it and stays, and with it the directory.                   *)
RECURSIVE CjRmdir(_, _), RmEntries(_, _)
RmEntries(s, todo) ==
    IF todo = {} THEN {s}
    ELSE UNION {Then(IF s.fs[q].k = "file" THEN Then(NewReq(s), LAMBDA r : FsUnlink(r, q))
                     ELSE IF s.fs[q].k = "dir" THEN CjRmdir(s, q) ELSE {s},
                     LAMBDA o : RmEntries(o, todo \ {q})) : q \in todo}
(* As it would be if only the directory's own entry were removed.          *)
CjRmdirAlone(s, p) == IF Has(s.fs, p) THEN {[s EXCEPT !.fs = Put(@, p, NoNode)]} ELSE Fail(s, "ENOENT")
CjRmdir(s, p) ==
    Then(Then(NewReq(s), LAMBDA r : FsScandir(r, p)),
         LAMBDA o : Then(RmEntries(o, o.ps),
                         LAMBDA d : Then(NewReq(d), LAMBDA r : FsRmdir(r, p))))

CjRename(s, p, q) == FsRename(s, p, q)
CjUnlink(s, p) == Then(NewReq(s), LAMBDA r : FsUnlink(r, p))
CjSymlink(s, target, p) == Then(NewReq(s), LAMBDA r : FsSymlink(r, target, p))
CjMkdtemp(s, p) == Then(NewReq(s), LAMBDA r : FsMkdtemp(r, p))
CjUtimes(s, p, mtime) ==
    Params(s, mtime >= 0,
           Then(Then(NewReq(s), LAMBDA r : FsStat(r, p)),
                LAMBDA o : Then(NewReq(o), LAMBDA r : FsUtime(r, p, mtime))))

(* The descriptor that open returned is used and nobody closes it.         *)
CjTruncate(s, p, len) ==
    Params(s, len >= 0,
           Then(Then(NewReq(s), LAMBDA r : FsOpen(r, p, {"r", "w"})),
                LAMBDA o : Then(NewReq(o), LAMBDA r : FsFtruncate(r, r.p, len))))

----------------------------------------------------------------------------
CjIsIllegalXattr(value) == value = "too long"
CjSetXattr(s, p, value) == Params(s, ~CjIsIllegalXattr(value), FsSetxattr(s, p, value))
CjGetXattr(s, p) ==
    After(FsGetxattr(s, p),
          LAMBDA o : IF o.e # "OK" THEN Then(NewReq(Ok(o)), LAMBDA r : Ret(r, ""))
                     ELSE Then(NewReq(o), LAMBDA r : FsGetxattr(r, p)))

(* offset is never absent here: the interface in Cangjie passes 0          *)
ReadTextCheckArgs(offset, len) == offset >= -1 /\ len >= -1
ReadTextOpenFile(s, p) == Then(NewReq(s), LAMBDA r : FsOpen(r, p, {"r"}))
CjReadFromFile(s, offset, len) ==
    Then(NewReq(s),
         LAMBDA r : IF r.fs[r.p].k = "dir" THEN Fail(r, "EISDIR")
                    ELSE Read(r, [r EXCEPT !.c = TextRead(r.fs[r.p].c, offset, len)]))
CjReadText(s, p, offset, len) ==
    Params(s, ReadTextCheckArgs(offset, len),
           CloseAll(Then(ReadTextOpenFile(s, p),
                         LAMBDA o : IF offset > Len(o.fs[o.p].c) THEN Fail(o, "EINVAL")
                                    ELSE CjReadFromFile(o, offset, len))))
CjGetFileSize(s, p) == Then(NewReq(s), LAMBDA r : FsStat(r, p))
CjReadLines(s, p) ==
    Created(Then(Then(ReaderIterator(s, p), LAMBDA o : CjGetFileSize(o, p)),
                 LAMBDA o : {[o EXCEPT !.v = "iterator"]}))

(* list_file.cpp filters and walks as listfile.cpp does, line for line.    *)
CjFilterResult(fs, q, opt) == FilterResult(fs, q, opt)
CjFilterFileRes(s, p, opt) ==
    Then(NewReq(s), LAMBDA r : Then(FsScandir(r, p), LAMBDA o : Chosen(o, o.ps, opt, CjFilterResult)))
CjRecursiveFunc(s, p, opt) == RecursiveFunc(s, p, opt)
CjListFile(s, p, opt) ==
    LET clear == [s EXCEPT !.n = 0]
    IN Params(s, opt.num >= 0,
              IF opt.rec THEN CjRecursiveFunc(clear, p, opt) ELSE CjFilterFileRes(clear, p, opt))
============================================================================

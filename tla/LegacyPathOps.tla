--------------------------- MODULE LegacyPathOps ---------------------------
(***************************************************************************)
(* The operations on paths of the older module @ohos.fileio, over calls of *)
(* libc: src/interfaces/kits/js/src/mod_fileio/properties/*.cpp.  The two  *)
(* forms of an operation make the same calls, one at once and one on a     *)
(* worker thread; where they differ there are two definitions.  Below them *)
(* the oldest interface, @system.file.                                     *)
(***************************************************************************)
EXTENDS NapiPathOps

NotANumber == -9                    \* an argument that is no number

FioRename(s, p, q) == Params(s, IsPath(p) /\ IsPath(q), FsRename(s, p, q))
FioSymlink(s, target, p) == Params(s, GetSymlinkArg(target, p), FsSymlink(s, target, p))
FioUnlinkSync(s, p) == Params(s, IsPath(p), FsUnlink(s, p))
FioUnlink(s, p) == Params(s, IsPath(p), FsUnlink(s, p))
FioAccessSync(s, p, mode) == Params(s, GetAccessArgs(p, mode), FsAccess(s, p, mode))
FioAccess(s, p, mode) == Params(s, GetAccessArgs(p, mode), FsAccess(s, p, mode))
FioMkdirSync(s, p, mode) == Params(s, IsPath(p) /\ mode # "bad", FsMkdir(s, p))
FioMkdir(s, p, mode) == Params(s, IsPath(p) /\ mode # "bad", FsMkdir(s, p))
FioMkdtemp(s, p) == Params(s, IsPath(p), FsMkdtemp(s, p))

(* They are kept for programs that call them, and do nothing.              *)
FioChmod(s) == {s}
FioChown(s) == {s}
FioLchown(s) == {s}

(* A length that is no number is refused and, when the call answers at     *)
(* once, the file is cut to nothing all the same.                          *)
LibcTruncate(s, p, len) ==
    LET q == Follow(s.fs, p)
    IN Check(s, Lookup(s.fs, q),
             IF s.fs[q].k = "dir" THEN Fail(s, "EISDIR")
             ELSE IF ~s.fs[q].w THEN Fail(s, "EACCES")
             ELSE IF len < 0 THEN Fail(s, "EINVAL") ELSE FsFtruncate(s, q, len))
FioTruncateSync(s, p, len) ==
    Params(s, IsPath(p), IF len = NotANumber THEN After(LibcTruncate(s, p, 0), LAMBDA o : Fail(o, "EINVAL"))
                         ELSE LibcTruncate(s, p, len))
(* As it would be with the worker not told the length.                     *)
FioTruncateAsyncToNothing(s, p, len) ==
    Params(s, IsPath(p) /\ len # NotANumber, LibcTruncate(s, p, IF len > 0 THEN 0 ELSE len))
FioTruncateAsync(s, p, len) == Params(s, IsPath(p) /\ len # NotANumber, LibcTruncate(s, p, len))

(* Of an object that could not be made one form says nothing.              *)
Instantiated(S, Else(_)) == Then(S, LAMBDA o : {o} \cup UNION {Else(x) : x \in Faulty(o, "UNKNOWN")})
FioStatSync(s, p) == Params(s, IsPath(p), Instantiated(FsStat(s, p), LAMBDA o : Ret(Ok(o), "none")))
FioStatAsync(s, p) == Params(s, IsPath(p), Instantiated(FsStat(s, p), LAMBDA o : Fail(o, "EIO")))
FioLstatSync(s, p) == Params(s, IsPath(p), Instantiated(FsLstat(s, p), LAMBDA o : Ret(Ok(o), "none")))
FioLstatAsync(s, p) == Params(s, IsPath(p), Instantiated(FsLstat(s, p), LAMBDA o : Fail(o, "EIO")))

----------------------------------------------------------------------------
(* A directory that is being read holds a descriptor.                      *)
Opendir(s, p) == {IF o.e = "OK" THEN [o EXCEPT !.fd = @ + 1] ELSE o : o \in FsScandir(s, p)}
Closedir(S) == {[o EXCEPT !.fd = @ - 1] : o \in S}

FioReadDir(s, p) == Params(s, IsPath(p), Then(Opendir(s, p), LAMBDA o : Closedir({o})))

(* rmdir: what stat takes for a directory is emptied, so the directory a   *)
(* link leads to is.                                                       *)
RECURSIVE Rmdirent(_, _), RmdirentEach(_, _)
RmdirentEach(s, todo) ==
    IF todo = {} THEN Closedir({s})
    ELSE UNION {After(Then(FsStat(s, q), LAMBDA o : IF o.v = "dir" THEN Rmdirent(o, q) ELSE FsUnlink(o, q)),
                      LAMBDA o : IF o.e = "OK" THEN RmdirentEach(o, todo \ {q}) ELSE Closedir({o})) : q \in todo}
Rmdirent(s, p) ==
    After(FsRmdir(s, p),
          LAMBDA o : IF o.e = "OK" THEN {o}
                     ELSE Then(Then(Opendir(Ok(o), p), LAMBDA d : RmdirentEach(d, d.ps)), LAMBDA d : FsRmdir(d, p)))
FioRmdir(s, p) == Params(s, IsPath(p), Rmdirent(s, p))

----------------------------------------------------------------------------
(* readText.  The worker reports every error as an argument's.             *)
Pread(s, offset, len) ==
    IF s.fs[s.p].k = "dir" THEN Fail(s, "EISDIR") ELSE Read(s, [s EXCEPT !.c = TextRead(s.fs[s.p].c, offset, len)])
FioReadTextSync(s, p, offset, len) ==
    Params(s, IsPath(p) /\ GetReadTextArg(offset, len),
        CloseAll(Then(Then(FsOpen(s, p, {"r"}), LAMBDA o : FsStat(o, o.p)),
                      LAMBDA o : IF offset > o.n THEN Fail(o, "EINVAL")
                                 ELSE After(Pread(o, offset, len), LAMBDA r : IF r.e = "OK" THEN {r} ELSE Fail(r, "EINVAL")))))
FioReadTextExec(s, p, offset, len) ==
    After(CloseAll(Then(Then(FsOpen(s, p, {"r"}), LAMBDA o : FsStat(o, o.p)),
                        LAMBDA o : IF offset > o.n THEN Fail(o, "EINVAL") ELSE Pread(o, offset, len))),
          LAMBDA r : IF r.e = "OK" THEN {r} ELSE Fail(r, "EINVAL"))
FioReadTextAsync(s, p, offset, len) ==
    Params(s, IsPath(p) /\ GetReadTextArg(offset, len), FioReadTextExec(s, p, offset, len))

----------------------------------------------------------------------------
(* copyFile writes over the destination and does not cut it first.  After  *)
(* a short write it answers with errno, which may be anything, and nothing *)
(* as well.                                                                *)
Overlaid(c, d) == d \o SubSeq(c, Len(d) + 1, Len(c))
ReadAndWrite(s, q, d) ==
    IF s.fs[q].k = "dir" THEN Fail(s, "EISDIR")
    ELSE Done(s, [s.fs EXCEPT ![d].c = Overlaid(@, s.fs[q].c)])
         \cup {[x.o EXCEPT !.fs[d].c = Overlaid(@, SubSeq(s.fs[q].c, 1, x.n)), !.e = e] :
                  x \in Short(s, Len(s.fs[q].c)), e \in {"OK", "UNKNOWN"}}
OpenOperand(s, x, flags) == IF x.fd THEN {[s EXCEPT !.p = x.p]} ELSE FsOpen(s, x.p, flags)
FioCopyFileCore(s, src, dest) ==
    CloseAll(Then(OpenOperand(s, src, {"r"}),
                  LAMBDA o : Then(FsStat(o, o.p),
                      LAMBDA t : Then(OpenOperand(t, dest, {"w", "creat"}), LAMBDA d : ReadAndWrite(d, o.p, d.p)))))
FioParseJsOperand(x) == IsPath(x.p)
FioParseJsMode(mode) == mode = 0
FioCopyFileSync(s, src, dest, mode) ==
    Params(s, FioParseJsOperand(src) /\ FioParseJsOperand(dest) /\ FioParseJsMode(mode),
           After(FioCopyFileCore(s, src, dest), LAMBDA o : IF o.e = "ENAMETOOLONG" THEN Fail(o, "EINVAL") ELSE {o}))
FioCopyFileAsync(s, src, dest, mode) ==
    Params(s, FioParseJsOperand(src) /\ FioParseJsOperand(dest) /\ FioParseJsMode(mode), FioCopyFileCore(s, src, dest))

----------------------------------------------------------------------------
(***************************************************************************)
(* The oldest file interface, @system.file: src/interfaces/kits/js/src/    *)
(* mod_file/class_file/file_n_exporter.cpp.  Every call takes a URI below  *)
(* the files of the application, does its work on a worker thread and      *)
(* calls back: success or fail, then complete.  Its errors are URI (202),  *)
(* IO (300) and PATH (301); NONE is a failure of which neither callback    *)
(* hears.  Every path is resolved first, so that an operation on a link is *)
(* one on what the link leads to.                                          *)
(***************************************************************************)


CheckUri(p) == p \notin {NotAPath, EmptyPath}
OrIo(S) == {IF o.e = "OK" THEN o ELSE [o EXCEPT !.e = "IO"] : o \in S}
OrElse(S, Op(_)) == UNION {IF o.e = "OK" THEN {o} ELSE Op(Ok(o)) : o \in S}

GetRealPath(s, p) ==
    LET q == Follow(s.fs, p) IN Check(s, Lookup(s.fs, q), Read(s, [s EXCEPT !.p = q]))
(* What most calls make of it.                                             *)
Resolved(s, p, Op(_)) ==
    After(GetRealPath(s, p), LAMBDA o : IF o.e = "OK" THEN Op(o)
                                        ELSE Fail(o, IF o.e = "ENOENT" THEN "PATH" ELSE "IO"))
LibcRemove(s, p) == IF Kind(s.fs, p) = "dir" THEN FsRmdir(s, p) ELSE FsUnlink(s, p)

----------------------------------------------------------------------------
RECURSIVE MkParents(_, _, _)
MkParents(s, p, n) ==
    IF n >= Len(p) THEN {s}
    ELSE LET q == SubSeq(p, 1, n)
         IN Then(OrElse(FsAccess(s, q, "exist"), LAMBDA o : FsMkdir(o, q)), LAMBDA o : MkParents(o, p, n + 1))
SysMkdirs(s, p) ==
    Then(MkParents(s, p, 1),
         LAMBDA o : After(FsAccess(o, p, "exist"), LAMBDA a : IF a.e = "OK" THEN Fail(a, "EEXIST") ELSE FsMkdir(Ok(a), p)))
SysMkdir(s, p, recursive) ==
    After(GetRealPath(s, p),
          LAMBDA o : IF o.e # "ENOENT" THEN Fail(o, "IO")
                     ELSE OrIo(OrElse(IF recursive THEN SysMkdirs(Ok(o), p) ELSE {o}, LAMBDA m : FsMkdir(m, p))))

RECURSIVE Rmdirs(_, _), RmEach(_, _)
RmEach(s, todo) ==
    IF todo = {} THEN Closedir({s})
    ELSE UNION {After(OrElse(IF s.fs[q].k = "dir" THEN Rmdirs(s, q) ELSE Fail(s, "ENOTDIR"), LAMBDA o : LibcRemove(o, q)),
                      LAMBDA o : IF o.e = "OK" THEN RmEach(o, todo \ {q}) ELSE Closedir({o})) : q \in todo}
Rmdirs(s, p) == Then(Then(Opendir(s, p), LAMBDA o : RmEach(o, o.ps)), LAMBDA o : FsRmdir(o, p))
SysRmdir(s, p, recursive) ==
    Resolved(s, p, LAMBDA o : LET q == o.p IN
        OrIo(OrElse(IF recursive THEN Rmdirs(o, q) ELSE Fail(o, "none"), LAMBDA m : LibcRemove(m, q))))
SysDelete(s, p) == Resolved(s, p, LAMBDA o : OrIo(LibcRemove(o, o.p)))
SysAccess(s, p) == Resolved(s, p, LAMBDA o : {o})

----------------------------------------------------------------------------
(* get and list.  A directory below that cannot be opened ends the reading *)
(* of the one above it, which is then taken for complete.                  *)
RECURSIVE GetFileNames(_, _, _, _), NamesOfEach(_, _, _, _, _)
NamesOfEach(s, todo, found, rec, isList) ==
    IF todo = {} THEN Closedir({[s EXCEPT !.ps = found]})
    ELSE UNION {IF ~isList /\ rec /\ s.fs[q].k = "dir"
                THEN After(GetFileNames(s, q, rec, isList),
                           LAMBDA o : IF o.e # "OK" THEN Closedir({[Ok(o) EXCEPT !.ps = found]})
                                      ELSE NamesOfEach(o, todo \ {q}, found \cup o.ps, rec, isList))
                ELSE NamesOfEach(s, todo \ {q}, found \cup (IF isList \/ s.fs[q].k = "file" THEN {q} ELSE {}), rec, isList) :
                q \in todo}
GetFileNames(s, p, rec, isList) == Then(Opendir(s, p), LAMBDA o : NamesOfEach(o, o.ps, {}, rec, isList))
ConvertUri(r, from, to) == Rebase(r, from, to)
Converted(S, from, to) == {[o EXCEPT !.ps = {ConvertUri(r, from, to) : r \in @}] : o \in S}
SysGet(s, p, rec) ==
    Resolved(s, p, LAMBDA o :
        OrIo(Then(FsLstat(o, o.p),
                  LAMBDA t : IF t.v = "file" THEN {[t EXCEPT !.ps = {}]}
                             ELSE Converted(Then(GetFileNames(t, o.p, rec, FALSE), LAMBDA g : Ret(g, "dir")), o.p, p))))
SysList(s, p) ==
    Resolved(s, p, LAMBDA o :
        OrIo(Then(FsLstat(o, o.p),
                  LAMBDA t : IF t.v = "file" THEN {[t EXCEPT !.ps = {}]}
                             ELSE Converted(GetFileNames(t, o.p, FALSE, TRUE), o.p, p))))

----------------------------------------------------------------------------
(* copy and move.  FileCopy keeps its result in a Boolean: a failure that  *)
(* is not returned on the way becomes 1, which is none of the errors.  Any *)
(* number of bytes sent is a success.                                      *)
SendOrRemove(s, q, dest) ==
    After(SendfileOnce(s, q, s.p),
          LAMBDA o : IF o.e = "OK" THEN {o} ELSE After(LibcRemove(Ok(o), dest), LAMBDA r : Fail(r, "NONE")))
(* The two descriptors are closed; those open before stay so.              *)
ClosedTo(S, n) == {[o EXCEPT !.fd = n] : o \in S}
FileCopy(s, src, dest) ==
    After(GetRealPath(s, src), LAMBDA x :
        IF x.e # "OK" THEN Fail(x, "NONE")
        ELSE After(GetRealPath(x, dest), LAMBDA y :
            IF y.e = "OK" THEN IF y.p = x.p THEN {y} ELSE Fail(y, "IO")
            ELSE IF y.e # "ENOENT" THEN Fail(y, "NONE")
            ELSE ClosedTo(After(FsOpen(Ok(y), x.p, {"r"}), LAMBDA o :
                    Then(OrIo(FsStat(Ok(o), x.p)), LAMBDA t :
                        Then(OrIo(FsOpen(t, dest, {"w", "creat"})), LAMBDA d :
                            IF o.e # "OK" THEN Fail(d, "IO") ELSE SendOrRemove(d, x.p, dest)))), s.fd)))

(* Of a directory only the directory is copied.                            *)
DirCopy(s, src, dest) ==
    After(GetRealPath(s, src), LAMBDA x :
        IF x.e = "ENOENT" THEN Fail(x, "PATH")
        ELSE LET from == IF x.e = "OK" THEN x.p ELSE src IN
             After(GetRealPath(Ok(x), dest), LAMBDA y :
                IF y.e # "ENOENT" THEN IF (IF y.e = "OK" THEN y.p ELSE dest) = from THEN {Ok(y)} ELSE Fail(y, "IO")
                ELSE OrIo(Then(FsStat(Ok(y), from),
                               LAMBDA t : IF t.v = "dir" THEN FsMkdir(t, dest) ELSE Fail(t, "ENOTDIR")))))
(* The path is used as it is when it cannot be resolved.                   *)
ByKind(s, p, File(_, _), Dir(_, _)) ==
    After(GetRealPath(s, p), LAMBDA o :
        IF o.e = "ENOENT" THEN Fail(o, "PATH")
        ELSE LET q == IF o.e = "OK" THEN o.p ELSE p IN
             Then(OrIo(FsStat(Ok(o), q)), LAMBDA t : IF t.v = "file" THEN File(t, q) ELSE Dir(t, q)))
SysCopy(s, p, q) == ByKind(s, p, LAMBDA o, x : FileCopy(o, x, q), LAMBDA o, x : DirCopy(o, x, q))

RECURSIVE DirMove(_, _, _), SysMoveEach(_, _, _, _)
Ignoring(S) == {Ok(o) : o \in S}
SysMoveEach(s, todo, src, dest) ==
    IF todo = {} THEN Closedir({s})
    ELSE UNION {LET to == Rebase(q, src, dest)
                IN After(IF s.fs[q].k = "dir" THEN DirMove(s, q, to)
                         ELSE IF s.fs[q].k = "file"
                         THEN Then(FileCopy(s, q, to), LAMBDA o : Ignoring(LibcRemove(o, q)))
                         ELSE {s},
                         LAMBDA o : IF o.e = "OK" THEN SysMoveEach(o, todo \ {q}, src, dest) ELSE Closedir(Fail(o, "IO"))) :
                q \in todo}
DirMove(s, src, dest) ==
    After(GetRealPath(s, src), LAMBDA x :
        IF x.e = "ENOENT" THEN Fail(x, "PATH")
        ELSE LET from == IF x.e = "OK" THEN x.p ELSE src IN
             After(GetRealPath(Ok(x), dest), LAMBDA y :
                IF y.e = "OK" /\ y.p = from THEN {y}
                ELSE IF y.e # "ENOENT" THEN Fail(y, "PATH")
                ELSE Then(Then(OrIo(Then(FsStat(Ok(y), from),
                                         LAMBDA t : IF t.v = "dir" THEN Then(FsMkdir(t, dest), LAMBDA d : Opendir(d, from))
                                                    ELSE Fail(t, "ENOTDIR"))),
                               LAMBDA o : SysMoveEach(o, o.ps, from, dest)),
                          LAMBDA o : Ignoring(FsRmdir(o, from)))))
(* As it would be with the source removed however the copy ended.          *)
MoveFileToAlways(s, p, q) ==
    After(FileCopy(s, p, q), LAMBDA o : {[r EXCEPT !.e = o.e] : r \in LibcRemove(Ok(o), p)})
MoveFileTo(s, p, q) == Then(FileCopy(s, p, q), LAMBDA o : Ignoring(LibcRemove(o, p)))
SysMove(s, p, q) == ByKind(s, p, LAMBDA o, x : MoveFileTo(o, x, q), LAMBDA o, x : DirMove(o, x, q))

----------------------------------------------------------------------------
(* Writing and reading whole files.  A file that is not there is made.     *)
Zeros(n) == [i \in 1 .. n |-> 0]
(* One write, of which any number of bytes written is a success.           *)
LibcWrite(s, d, append, position) ==
    LET c == s.fs[s.p].c
        written(x) == IF append THEN c \o x ELSE IF x = << >> THEN c ELSE Zeros(position) \o x
    IN Done(s, [s.fs EXCEPT ![s.p].c = written(d)])
       \cup {[x.o EXCEPT !.fs[s.p].c = written(SubSeq(d, 1, x.n))] : x \in Short(s, Len(d))}
ToWrite(s, p, append, Op(_)) ==
    After(GetRealPath(s, p), LAMBDA o :
        IF o.e \notin {"OK", "ENOENT"} THEN Fail(o, "IO")
        ELSE OrIo(CloseAll(Then(FsOpen(Ok(o), IF o.e = "OK" THEN o.p ELSE p,
                                       {"w", "creat"} \cup (IF append THEN {} ELSE {"trunc"})), Op))))
SysWriteText(s, p, d, append) == ToWrite(s, p, append, LAMBDA o : LibcWrite(o, d, append, 0))
(* A position below zero is one that cannot be sought.                     *)
SysWriteArrayBuffer(s, p, d, append, position) ==
    ToWrite(s, p, append, LAMBDA o : LibcWrite(o, d, append, IF position < 0 THEN 0 ELSE position))

(* What is read becomes a string that ends with its first zero.            *)
CString(c) ==
    LET zeros == {i \in DOMAIN c : c[i] = 0}
    IN IF zeros = {} THEN c ELSE SubSeq(c, 1, (CHOOSE i \in zeros : \A j \in zeros : i <= j) - 1)
ToRead(s, p, Op(_)) ==
    Resolved(s, p, LAMBDA o :
        CloseAll(OrIo(Then(Then(FsOpen(o, o.p, {"r"}), LAMBDA d : FsStat(d, d.p)),
                           LAMBDA t : IF t.v = "dir" THEN Fail(t, "EISDIR") ELSE Op(t)))))
SysReadText(s, p) == ToRead(s, p, LAMBDA o : Read(o, [o EXCEPT !.c = CString(o.fs[o.p].c)]))
(* The number of bytes asked for is what the caller gets, whatever was     *)
(* read: what is beyond the string and its end may be anything.            *)
Junk == {0, 9}
SysReadArrayBuffer(s, p, position, length) ==
    ToRead(s, p, LAMBDA o :
        LET size == o.n
            begin == IF size < position THEN size ELSE position
            len == IF length = 0 THEN size - begin ELSE length
            from == IF begin < 0 THEN 0 ELSE begin
            got == CString(SubSeq(o.fs[o.p].c, from + 1, IF from + len < size THEN from + len ELSE size))
        IN UNION {Read(o, [o EXCEPT !.c = [i \in 1 .. len |-> IF i <= Len(got) THEN got[i]
                                                              ELSE IF i = Len(got) + 1 THEN 0 ELSE junk]]) : junk \in Junk})

----------------------------------------------------------------------------
(* What a call does before its work is queued: the arguments are looked    *)
(* at, and a call that is refused has its fail callback called at once.    *)
WithUri(s, ok) == IF ok THEN {s} ELSE Fail(s, "URI")
MkdirCall(s, p) == WithUri(s, CheckUri(p))
RmdirCall(s, p) == WithUri(s, CheckUri(p))
GetCall(s, p) == WithUri(s, CheckUri(p))
ListCall(s, p) == WithUri(s, CheckUri(p))
CopyCall(s, p, q) == WithUri(s, CheckUri(p) /\ CheckUri(q))
MoveCall(s, p, q) == WithUri(s, CheckUri(p) /\ CheckUri(q))
DeleteCall(s, p) == WithUri(s, CheckUri(p))
AccessCall(s, p) == WithUri(s, CheckUri(p))
Utf8Only(S, utf8) == Then(S, LAMBDA o : IF utf8 THEN {o} ELSE Fail(o, "IO"))
WriteTextCall(s, p, utf8) == Utf8Only(WithUri(s, CheckUri(p)), utf8)
ReadTextCall(s, p, utf8) == Utf8Only(WithUri(s, CheckUri(p)), utf8)
(* A buffer that cannot be kept for the worker is refused by exception.    *)
WriteArrayBufferCall(s, p) ==
    After({s} \cup Faulty(s, "UNKNOWN"), LAMBDA o : IF o.e = "OK" THEN WithUri(o, CheckUri(p)) ELSE Fail(o, "EINVAL"))
ReadArrayBufferCall(s, p) == WithUri(s, CheckUri(p))
============================================================================

----------------------------- MODULE FioHandles -----------------------------
(***************************************************************************)
(* @ohos.fileio, the older interface: numbers, Streams and Dirs.  A call   *)
(* has the fields of NapiHandles; of a transfer bo is where in the buffer  *)
(* it begins (the option offset), len the option length and off the option *)
(* position; perm says whether open was given a mode for a new file.  A    *)
(* number that open has returned is a "file" object with nothing but it.   *)
(* ...Sync answers at once; of the other form ...Async is done by the      *)
(* JavaScript thread, ...Exec by a worker, ...Compl by the former again.   *)
(* Numbers are far below 2^31 and arguments have the right types; uris     *)
(* that name a descriptor of another process are left out.                 *)
(***************************************************************************)
EXTENDS NapiHandles

(* Options of a transfer whose buffer has size bytes.                      *)
FioGetActualBuf(c, size) == c.bo \in 0 .. size
FioLength(c, size) == IF c.len = Absent THEN size - c.bo ELSE c.len
FioGetActualLen(c, size) == FioLength(c, size) \in 0 .. (size - c.bo)
FioOptions(c, size) == FioGetActualBuf(c, size) /\ FioGetActualLen(c, size) /\ c.off # Negative
FioGetReadArg(c) == FioOptions(c, BufLen)
FioGetWriteArg(c) == FioOptions(c, Len(c.d))
FioBytes(c) == SubSeq(c.d, c.bo + 1, c.bo + FioLength(c, Len(c.d)))

----------------------------------------------------------------------------
(* open.  The bits of O_TMPFILE contain O_DIRECTORY.                       *)
FioParseFlags(c) == c.m # "neg"
NeedsMode(m) == Creates(m) \/ m = "dir"
FioOpenCompl(s, c) == MadeFile([s EXCEPT !.n = s.fd], FALSE)
FioDoOpenExec(s, c) == SysOpen(s, c.file, c.m)
FioOpenSync(s, c) ==
    Params(s, FioParseFlags(c) /\ (c.perm \/ ~NeedsMode(c.m)),
           Then(SysOpen(s, c.file, c.m), LAMBDA o : FioOpenCompl(o, c)))
FioOpenAsync(s, c) == Scheduled(s, FioParseFlags(c))

HasNumber(s, c) == Number(s, c) >= 0
FioCloseExec(s, c) == {[o EXCEPT !.fd = NoFd] : o \in SysClose(s, s.fd)}
FioCloseSync(s, c) == Params(s, HasNumber(s, c), SysClose(s, Number(s, c)))
FioCloseAsync(s, c) == Scheduled(WithFd(s, c), HasNumber(s, c))

FioReadExec(s, c) == SysRead(s, s.fd, FioLength(c, BufLen), c.off)
FioReadSync(s, c) == Params(s, HasNumber(s, c) /\ FioGetReadArg(c), FioReadExec(WithFd(s, c), c))
FioReadAsync(s, c) == Scheduled(WithFd(s, c), HasNumber(s, c) /\ FioGetReadArg(c))
FioWriteExec(s, c) == SysWrite(s, s.fd, FioBytes(c), c.off)
FioWriteSync(s, c) == Params(s, HasNumber(s, c) /\ FioGetWriteArg(c), FioWriteExec(WithFd(s, c), c))
FioWriteAsync(s, c) == Scheduled(WithFd(s, c), HasNumber(s, c) /\ FioGetWriteArg(c))

(* lseek, fdatasync and posix_fallocate leave the number to the system.    *)
FioLseekExec(s, c) == SysLseek(s, s.fd, c.off, c.wh)
FioLseekSync(s, c) == FioLseekExec(WithFd(s, c), c)
(* As it would be with the number looked at first.                         *)
FioLseekAsyncLooks(s, c) == Scheduled(WithFd(s, c), HasNumber(s, c))
FioLseekAsync(s, c) == {WithFd(s, c)}
FioFsyncExec(s, c) == SysFsync(s, s.fd)
FioFsyncSync(s, c) == Params(s, HasNumber(s, c), FioFsyncExec(WithFd(s, c), c))
FioFsyncAsync(s, c) == Scheduled(WithFd(s, c), HasNumber(s, c))
FioFdatasyncExec(s, c) == SysFsync(s, s.fd)
FioFdatasyncSync(s, c) == FioFdatasyncExec(WithFd(s, c), c)
FioFdatasyncAsync(s, c) == {WithFd(s, c)}
FioFtruncateExec(s, c) == SysFtruncate(s, s.fd, IF c.len = Absent THEN 0 ELSE c.len)
FioFtruncateSync(s, c) == Params(s, HasNumber(s, c), FioFtruncateExec(WithFd(s, c), c))
FioFtruncateAsync(s, c) == Scheduled(WithFd(s, c), HasNumber(s, c))
(* posix_fallocate returns its error; the code looks for -1, which it      *)
(* never is, so that every call is a success.                              *)
FioFallocateExec(s, c) == {Ok(o) : o \in SysFallocate(s, s.fd, c.off, c.len)}
FioFallocateSync(s, c) == FioFallocateExec(WithFd(s, c), c)
FioFallocateAsync(s, c) == {WithFd(s, c)}
NewClassOr(s, e) == After(NewClass(s), LAMBDA o : IF o.e = "OK" THEN {o} ELSE Fail(o, e))
FioFstatExec(s, c) == SysFstat(s, s.fd)
FioFstatCompl(s, c) == NewClassOr(s, "EIO")
FioFstatSync(s, c) ==
    Params(s, HasNumber(s, c), Then(FioFstatExec(WithFd(s, c), c), LAMBDA o : NewClassOr(o, "EINVAL")))
FioFstatAsync(s, c) == Scheduled(WithFd(s, c), HasNumber(s, c))
(* The modes and the owners of files are not the program's to change.      *)
FioFchmodSync(s, c) == {s}
FioFchmodAsync(s, c) == {s}
FioFchownSync(s, c) == {s}
FioFchownAsync(s, c) == {s}

----------------------------------------------------------------------------
(* Stream.  The entity alone owns its FILE; a worker has the address of    *)
(* the FILE (flush: of the entity).                                        *)
FioInstantiateStream(s) ==
    After(NewClassOr(s, "EIO"), LAMBDA o : IF o.e = "OK" THEN MadeStream(o) ELSE LetGo(o, o.fp))
FioCreateStreamExec(s, c) == Fopen(s, c.file, c.m)
FioCreateStreamSync(s, c) == Then(FioCreateStreamExec(s, c), FioInstantiateStream)
FioCreateStreamAsync(s, c) == {s}
FioGetFdopenStreamArgs(s, c) == HasNumber(s, c)
FioFdopenStreamExec(s, c) == Fdopen(s, s.fd, c.m)
FioFdopenStreamSync(s, c) ==
    Params(s, FioGetFdopenStreamArgs(s, c), Then(FioFdopenStreamExec(WithFd(s, c), c), FioInstantiateStream))
FioFdopenStreamAsync(s, c) == Scheduled(WithFd(s, c), FioGetFdopenStreamArgs(s, c))

WithFp(s, c) == [s EXCEPT !.fp = s.objs[c.o].fp]
FioOnStream(s, c, e, S) == IF HasEntity(s, c) THEN S ELSE Fail(s, e)
FioFlushExec(s, c) == IF Live(s, c.o) THEN Fflush(s, s.objs[c.o].fp) ELSE Fail(s, "UB")
FioFlushSync(s, c) == FioOnStream(s, c, "EBADF", FioFlushExec(s, c))
FioFlushAsync(s, c) == FioOnStream(s, c, "EBADF", {s})
FioFread(s, c) == SeekFirst(s, c, LAMBDA o : Fread(o, o.fp, FioLength(c, BufLen)))
(* Where the FILE has met an error before, errno says what it likes: on a  *)
(* worker it may be 0, and then nothing was read and all is well.          *)
FioStreamReadExec(s, c) ==
    After(FioFread(s, c), LAMBDA o : Ferror({o}, o.fp)
                              \cup (IF o.e = "OK" /\ o.fps[o.fp].bad THEN {[o EXCEPT !.n = 0, !.c = << >>]} ELSE {}))
FioStreamReadSync(s, c) ==
    FioOnStream(s, c, "EBADF", Params(s, FioGetReadArg(c), Ferror(FioFread(WithFp(s, c), c), s.objs[c.o].fp)))
FioStreamRead(s, c) == FioOnStream(s, c, "EBADF", Scheduled(WithFp(s, c), FioGetReadArg(c)))
FioStreamWriteExec(s, c) == SeekFirst(s, c, LAMBDA o : Fwrite(o, o.fp, FioBytes(c)))
FioStreamWriteSync(s, c) ==
    FioOnStream(s, c, "EBADF", Params(s, FioGetWriteArg(c), FioStreamWriteExec(WithFp(s, c), c)))
FioStreamWrite(s, c) == FioOnStream(s, c, "EBADF", Scheduled(WithFp(s, c), FioGetWriteArg(c)))
FioStreamCloseSync(s, c) == FioOnStream(s, c, "EINVAL", LetGo(Dead(s, c.o), s.objs[c.o].fp))
FioStreamClose(s, c) == FioOnStream(s, c, "EBADF", LetGo(Dead(s, c.o), s.objs[c.o].fp))

----------------------------------------------------------------------------
(* Dir.  Its entity stays, what it loses is its DIR.  The guards of lock_  *)
(* are temporaries and guard nothing.                                      *)
(* As it would be with a DIR that nobody owns until there is an object.    *)
FioInstantiateDirLeaks(s) == After(NewClassOr(s, "EINVAL"), LAMBDA o : IF o.e = "OK" THEN MadeDir(o) ELSE {o})
FioInstantiateDir(s) == After(NewClassOr(s, "EINVAL"), LAMBDA o : IF o.e = "OK" THEN MadeDir(o) ELSE CloseOpened(o))
FioOpenDirExec(s, c) == SysOpen(s, c.file, "dir")
FioOpenDirSync(s, c) == Then(FioOpenDirExec(s, c), FioInstantiateDir)
FioOpenDirAsync(s, c) == {s}

CheckDirEntity(s, c, S) == IF HasEntity(s, c) THEN S ELSE Fail(s, "EBADF")
WithDir(s, c) == [s EXCEPT !.fd = s.objs[c.o].fd]
StillADir(s, c, S) == IF Live(s, c.o) THEN S ELSE Fail(s, "UB")
FioDirReadExec(s, c) == StillADir(s, c, Readdirs(s, s.fd, 1))
FioDirReadCompl(s, c) == NewClassOr(s, "EINVAL")
(* Without a Dirent the entry is passed over as if it were the last.       *)
FioDirReadSync(s, c) ==
    CheckDirEntity(s, c, Then(Readdirs(s, s.objs[c.o].fd, 1),
        LAMBDA o : IF o.n = 0 THEN {o} ELSE {o} \cup {[Ok(x) EXCEPT !.n = 0, !.c = << >>] : x \in Faulty(o, "UNKNOWN")}))
FioDirRead(s, c) == CheckDirEntity(s, c, {WithDir(s, c)})
(* A listNum below 0 is as good as 1.                                      *)
ListNum(c) == IF c.len < 0 THEN 1 ELSE c.len
FioVector2NV(s, n) == IF n = 0 THEN {s} ELSE NewClassOr(s, "EINVAL")       \* a Dirent for each
FioListFileExec(s, c) == StillADir(s, c, {[o EXCEPT !.at = o.n] : o \in Readdirs(s, s.fd, ListNum(c))})
FioListFileCompl(s, c) == FioVector2NV(s, s.at)
FioListFileSync(s, c) ==
    CheckDirEntity(s, c, Then(Readdirs(s, s.objs[c.o].fd, ListNum(c)), LAMBDA o : FioVector2NV(o, o.n)))
FioListFile(s, c) == CheckDirEntity(s, c, {WithDir(s, c)})
FioDirCloseExec(s, c) ==
    StillADir(s, c, {[Dead(o, c.o) EXCEPT !.fd = NoFd] : o \in SysClose(s, s.fd)})
FioDirCloseSync(s, c) == CheckDirEntity(s, c, {Dead(Ok(o), c.o) : o \in SysClose(s, s.objs[c.o].fd)})
FioDirClose(s, c) == CheckDirEntity(s, c, {WithDir(s, c)})
=============================================================================

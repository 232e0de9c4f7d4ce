---------------------------- MODULE NapiHandles ----------------------------
(***************************************************************************)
(* The dynamic (NAPI) binding of @ohos.file.fs for descriptors and the     *)
(* objects that hold one: File, Stream and RandomAccessFile.  A call c has *)
(* the fields its operation uses: o an object, file and via the path or    *)
(* the kind of uri, m a mode, d the bytes to write, len how many, off an   *)
(* offset (Absent when the options have none), wh a whence, ex whether a   *)
(* lock is exclusive ("yes", "no" or "absent"), start and end the options  *)
(* of a RandomAccessFile.                                                  *)
(* ...Async is what the JavaScript thread does of a call that does not     *)
(* answer at once, ...Exec what a worker thread does, ...Compl what is     *)
(* done when the JavaScript thread hears of it.                            *)
(***************************************************************************)
EXTENDS Descriptors

CONSTANT BufLen            \* the length of the buffers the program passes

Absent == -1               \* an option that is not there
Negative == -2             \* an option that is there and below zero

(* The number the program passes: of one of its objects, or one below 0.   *)
Number(s, c) == IF c.o = 0 THEN Negative ELSE s.objs[c.o].fd
Scheduled(s, ok) == Params(s, ok, {s})
ScheduledWith(s, ok) == Params(s, ok, NewReq(s))

GetActualLen(len) == len <= BufLen
GetReadArg(c) == GetActualLen(c.len) /\ c.off # Negative
GetWriteArg(c) == Len(c.d) <= BufLen /\ c.off # Negative

----------------------------------------------------------------------------
(* open.  via is "path" or the uri: of a bundle, of the media library, of  *)
(* docs, of a broker, with a descriptor of another process, or of a scheme *)
(* nobody knows.  OpenFile of the other processes is external to this      *)
(* repository: it gives a descriptor of a file that is there, or an error. *)
GetJsFlags(m) == m \notin {"neg", "both"}
OpenFileByPath(s, file, m) == Then(NewReq(s), LAMBDA r : SysOpen(r, file, m))
Elsewhere(s, file) == SysOpen(s, file, "rw") \cup Faulty(s, "EPERM")
OpenFileByDatashare(s, file) == Then(NewReq(s), LAMBDA r : Elsewhere(r, file))
OpenByFileDataUri(s, file, via, m) ==
    IF via = "media" THEN OpenFileByDatashare(s, file)
    ELSE IF via = "docs" /\ s.fs[file] = NoFile
         THEN After(OpenFileByDatashare(s, file),
                    LAMBDA o : IF o.e = "OK" THEN {o} ELSE Fail(o, "ENOENT"))
         ELSE OpenFileByPath(s, file, m)
OpenFileByBroker(s, file) == Elsewhere(s, file)
OpenFileByUri(s, file, via, m) ==
    IF via \in {"bundle", "media", "docs"} THEN OpenByFileDataUri(s, file, via, m)
    ELSE IF via = "broker" THEN OpenFileByBroker(s, file)
    ELSE IF via = "remote" THEN After(Elsewhere(s, file), LAMBDA o : IF o.e = "OK" THEN {o} ELSE Fail(o, "EINVAL"))
    ELSE Fail(s, "EINVAL")
OpenExec(s, c) ==
    IF c.via = "path" THEN OpenFileByPath(s, c.file, c.m) ELSE OpenFileByUri(s, c.file, c.via, c.m)

(* As it would be with the number not closed when there is no object.      *)
InstantiateFileLeaks(s, uri) ==
    Then(After(NewClass(s), LAMBDA o : IF o.e = "OK" THEN NewReq(o) ELSE Fail(o, "EIO")),
         LAMBDA o : MadeFile(o, uri))
InstantiateFile(s, uri) ==
    After(After(NewClass(s), LAMBDA o : IF o.e = "OK" THEN NewReq(o) ELSE Fail(o, "EIO")),
          LAMBDA o : IF o.e = "OK" THEN MadeFile(o, uri) ELSE CloseOpened(o))
OpenCompl(s, c) == InstantiateFile(s, c.via # "path")
OpenSync(s, c) == Params(s, GetJsFlags(c.m), Then(OpenExec(s, c), LAMBDA o : OpenCompl(o, c)))
(* As it would be with the flags left to the system.                       *)
OpenAsyncAny(s, c) == NewReq(s)
OpenAsync(s, c) == ScheduledWith(s, GetJsFlags(c.m))

DupSync(s, c) ==
    Params(s, Number(s, c) >= 0,
           Then(SysDup(s, Number(s, c)),
                LAMBDA o : After(Then(NewReq(o), LAMBDA r : {r} \cup Faulty(r, "EIO")),
                                 LAMBDA r : IF r.e = "OK" THEN InstantiateFile(r, FALSE) ELSE CloseOpened(r))))

----------------------------------------------------------------------------
(* close of a number (c.num) or of a File.  What is called first, the      *)
(* close or the removal of the entity, differs between the two forms.      *)
HasEntity(s, c) == c.o # 0 /\ Live(s, c.o)
HasFd(s, c) == HasEntity(s, c) /\ s.objs[c.o].fd # NoFd
ParseJsOperand(s, c) == IF c.num THEN Number(s, c) >= 0 ELSE HasFd(s, c)
CloseFd(s, fd) == Then(NewReq(s), LAMBDA r : SysClose(r, fd))
CloseFdWithFdsan(s, fd, isFd) == IF isFd THEN CloseFd(s, fd) ELSE SysClose(s, fd)     \* with the owner's tag
CloseSync(s, c) ==
    Params(s, ParseJsOperand(s, c),
           Then(CloseFdWithFdsan(s, Number(s, c), c.num), LAMBDA o : {IF c.num THEN o ELSE Dead(o, c.o)}))
CloseAsync(s, c) ==
    Params(s, ParseJsOperand(s, c), {[IF c.num THEN s ELSE Dead(s, c.o) EXCEPT !.fd = Number(s, c)]})
CloseExec(s, c) == {[o EXCEPT !.fd = NoFd] : o \in CloseFdWithFdsan(s, s.fd, c.num)}

ReadExec(s, c) == Then(NewReq(s), LAMBDA r : SysRead(r, s.fd, c.len, c.off))
ReadArgs(s, c) == Number(s, c) >= 0 /\ GetReadArg(c)
WithFd(s, c) == [s EXCEPT !.fd = Number(s, c)]
ReadSync(s, c) == Params(s, ReadArgs(s, c), ReadExec(WithFd(s, c), c))
ReadAsync(s, c) == ScheduledWith(WithFd(s, c), ReadArgs(s, c))
WriteExec(s, c) == Then(NewReq(s), LAMBDA r : SysWrite(r, s.fd, c.d, c.off))
WriteArgs(s, c) == Number(s, c) >= 0 /\ GetWriteArg(c)
WriteSync(s, c) == Params(s, WriteArgs(s, c), WriteExec(WithFd(s, c), c))
WriteAsync(s, c) == ScheduledWith(WithFd(s, c), WriteArgs(s, c))
LseekSync(s, c) ==
    Params(s, Number(s, c) >= 0 /\ c.wh # "bad", SysLseek(s, Number(s, c), c.off, c.wh))
(* fsync does not look at the number, which the system refuses.            *)
FsyncExec(s, c) == Then(NewReq(s), LAMBDA r : SysFsync(r, s.fd))
FsyncSync(s, c) == FsyncExec(WithFd(s, c), c)
FsyncAsync(s, c) == {WithFd(s, c)}
FdatasyncExec(s, c) == Then(NewReq(s), LAMBDA r : SysFsync(r, s.fd))
FdatasyncSync(s, c) == FdatasyncExec(WithFd(s, c), c)
FdatasyncAsync(s, c) == {WithFd(s, c)}

----------------------------------------------------------------------------
(* File.                                                                   *)
GetFileEntity(s, c, S) == Params(s, HasFd(s, c), S)
GetFD(s, c) == GetFileEntity(s, c, Ret(s, s.objs[c.o].fd))
RealPathCore(s) == Then(NewReq(s), LAMBDA r : {r} \cup Faulty(r, "EIO"))
GetPath(s, c) == GetFileEntity(s, c, IF s.objs[c.o].uri THEN {s} ELSE RealPathCore(s))
GetName(s, c) == GetFileEntity(s, c, IF s.objs[c.o].uri THEN {s} ELSE RealPathCore(s))
GetParent(s, c) == GetFileEntity(s, c, IF s.objs[c.o].uri THEN {s} ELSE RealPathCore(s))
LockMode(c) == IF c.ex = "yes" THEN "ex" ELSE "sh"
(* The worker reads the number from the entity of the File.                *)
(* As it would be with the entity not asked for before the work is posted. *)
LockAsyncAny(s, c) == {s}
LockAsync(s, c) == GetFileEntity(s, c, {s})
LockExec(s, c) ==
    IF ~Live(s, c.o) THEN Fail(s, "UB") ELSE SysFlock(s, s.objs[c.o].fd, LockMode(c), FALSE)
TryLock(s, c) == GetFileEntity(s, c, SysFlock(s, s.objs[c.o].fd, LockMode(c), TRUE))
UnLock(s, c) == GetFileEntity(s, c, SysFlock(s, s.objs[c.o].fd, "un", FALSE))

----------------------------------------------------------------------------
(* Stream.  A FILE is shared: by the entity and by the work under way.     *)
InstantiateStream(s) ==
    After(NewClass(s), LAMBDA o : IF o.e = "OK" THEN MadeStream(o) ELSE LetGo([o EXCEPT !.e = "EIO"], o.fp))
CreateStreamExec(s, c) == Fopen(s, c.file, c.m)
CreateStreamSync(s, c) == Then(CreateStreamExec(s, c), InstantiateStream)
CreateStreamAsync(s, c) == NewReq(s)
FdopenStreamExec(s, c) == Fdopen(s, s.fd, c.m)
GetFdopenStreamArgs(s, c) == Number(s, c) >= 0
FdopenStreamSync(s, c) ==
    Params(s, GetFdopenStreamArgs(s, c), Then(FdopenStreamExec(WithFd(s, c), c), InstantiateStream))
FdopenStreamAsync(s, c) == ScheduledWith(WithFd(s, c), GetFdopenStreamArgs(s, c))

GetFilePtr(s, c, Op(_)) ==
    IF ~HasEntity(s, c) THEN Fail(s, "UNKNOWN")
    ELSE Op([Share(s, s.objs[c.o].fp) EXCEPT !.fp = s.objs[c.o].fp])
StreamDone(S) == After(S, LAMBDA o : {[x EXCEPT !.fp = 0] : x \in LetGo(o, o.fp)})
StreamScheduled(s, c, ok) ==
    GetFilePtr(s, c, LAMBDA o : After(ScheduledWith(o, ok), LAMBDA r : IF r.e = "OK" THEN {r} ELSE StreamDone({r})))
StreamSync(s, c, ok, Exec(_, _)) ==
    GetFilePtr(s, c, LAMBDA o : StreamDone(Params(o, ok, Exec(o, c))))

SeekFirst(s, c, Op(_)) == Then(IF c.off >= 0 THEN Fseek(s, s.fp, c.off, "set") ELSE {s}, Op)
AsEio(S) == After(S, LAMBDA o : IF o.e \in {"OK", "UB"} THEN {o} ELSE Fail(o, "EIO"))
FlushExec(s, c) == Fflush(s, s.fp)
FlushSync(s, c) == StreamSync(s, c, TRUE, FlushExec)
FlushAsync(s, c) == GetFilePtr(s, c, LAMBDA o : {o})
StreamReadExec(s, c) == SeekFirst(s, c, LAMBDA o : AsEio(Ferror(Fread(o, o.fp, c.len), o.fp)))
StreamReadSync(s, c) == StreamSync(s, c, GetReadArg(c), StreamReadExec)
StreamRead(s, c) == StreamScheduled(s, c, GetReadArg(c))
StreamWriteExec(s, c) == SeekFirst(s, c, LAMBDA o : AsEio(Fwrite(o, o.fp, c.d)))
StreamWriteSync(s, c) == StreamSync(s, c, GetWriteArg(c), StreamWriteExec)
StreamWrite(s, c) == StreamScheduled(s, c, GetWriteArg(c))
(* A seek to an offset below zero only tells.                              *)
SeekTell(s, c) ==
    Then(IF c.off >= 0 THEN Fseek(s, s.fp, c.off, c.wh) ELSE {s}, LAMBDA o : Ftell(o, o.fp))
Seek(s, c) == StreamSync(s, c, c.wh # "bad", SeekTell)
StreamCloseSync(s, c) ==
    IF ~HasEntity(s, c) THEN Fail(s, "EIO") ELSE LetGo(Dead(s, c.o), s.objs[c.o].fp)
StreamClose(s, c) == StreamCloseSync(s, c)         \* the worker has nothing to do

----------------------------------------------------------------------------
(* RandomAccessFile.                                                       *)
GetRafOptions(c) == c.start # Negative /\ c.end # Negative
GetRafFlags(c) == c.m # "neg"
ParseJsFile(s, c) ==
    IF c.o = 0 THEN NewReq(s)
    ELSE IF ~HasFd(s, c) THEN Fail(s, "EINVAL")
    ELSE Then(After(SysDup(s, s.objs[c.o].fd), LAMBDA o : IF o.e = "OK" THEN {o} ELSE Fail(o, "EINVAL")),
              LAMBDA o : After(NewReq(o), LAMBDA r : IF r.e = "OK" THEN {r} ELSE CloseOpened(r)))
(* The guard of the descriptor does not close it: without an object it     *)
(* stays open.                                                             *)
InstantiateRandomAccessFile(s, start, end) ==
    After(NewClass(s), LAMBDA o : IF o.e = "OK" THEN MadeRaf(o, start, end) ELSE Fail(o, "EIO"))
OpenRaf(s, c) == IF c.o = 0 THEN Then(NewReq(s), LAMBDA r : SysOpen(r, c.file, c.m)) ELSE {s}
CreateRafExec(s, c) == OpenRaf(s, c)
CreateRafCompl(s, c) == InstantiateRandomAccessFile(s, c.start, c.end)
(* Wrong options of a File are noticed when the object is made, which has  *)
(* none then; the exception is thrown all the same.                        *)
CreateRafSync(s, c) ==
    Then(ParseJsFile(s, c),
         LAMBDA o : IF c.o = 0 /\ ~(GetRafFlags(c) /\ GetRafOptions(c)) THEN Fail(o, "EINVAL")
                    ELSE Then(CreateRafExec(o, c),
                              LAMBDA r : IF GetRafOptions(c) THEN CreateRafCompl(r, c)
                                         ELSE After(InstantiateRandomAccessFile(r, Absent, Absent),
                                                    LAMBDA x : Fail(x, "EINVAL"))))
CreateRafAsync(s, c) ==
    Then(ParseJsFile(s, c),
         LAMBDA o : ScheduledWith(o, (c.o = 0 => GetRafFlags(c)) /\ GetRafOptions(c)))

(* An entity whose number was given away is used all the same.             *)
GetRAFEntity(s, c, S) == IF HasFd(s, c) THEN S ELSE Fail(s, IF HasEntity(s, c) THEN "UB" ELSE "EIO")
RafGetFD(s, c) == GetRAFEntity(s, c, Ret(s, s.objs[c.o].fd))
GetFPointer(s, c) == GetRAFEntity(s, c, Ret(s, s.objs[c.o].ptr))
SetFilePointerSync(s, c) == GetRAFEntity(s, c, {[s EXCEPT !.objs[c.o].ptr = c.off]})
CalculateOffset(off, ptr) == IF off < 0 THEN ptr ELSE off + ptr
(* Without memory the error is returned as it is, and is taken for the     *)
(* number of bytes moved.                                                  *)
NoMem == 12
OrNoMem(s, S) == S \cup (IF "ENOMEM" \in s.f THEN {[s EXCEPT !.n = NoMem, !.f = {}]} ELSE {})
DoReadRAF(s, c) == OrNoMem(s, SysRead(s, s.objs[c.o].fd, c.len, s.at))
DoWriteRAF(s, c) == OrNoMem(s, SysWrite(s, s.objs[c.o].fd, c.d, s.at))
Advance(s, c) == {[s EXCEPT !.objs[c.o].ptr = s.at + s.n]}
At(s, c) == [s EXCEPT !.at = CalculateOffset(c.off, s.objs[c.o].ptr)]
RafReadSync(s, c) ==
    GetRAFEntity(s, c, Params(s, GetReadArg(c), Then(DoReadRAF(At(s, c), c), LAMBDA o : Advance(o, c))))
RafWriteSync(s, c) ==
    GetRAFEntity(s, c, Params(s, GetWriteArg(c), Then(DoWriteRAF(At(s, c), c), LAMBDA o : Advance(o, c))))
(* The place is taken when the call is made; the worker has the entity.    *)
RafRead(s, c) == GetRAFEntity(s, c, Params(s, GetReadArg(c), NewReq(At(s, c))))
RafWrite(s, c) == GetRAFEntity(s, c, Params(s, GetWriteArg(c), NewReq(At(s, c))))
RafReadExec(s, c) ==
    IF ~Live(s, c.o) THEN Fail(s, "UB") ELSE Then(DoReadRAF(s, c), LAMBDA o : Advance(o, c))
RafWriteExec(s, c) ==
    IF ~Live(s, c.o) THEN Fail(s, "UB") ELSE Then(DoWriteRAF(s, c), LAMBDA o : Advance(o, c))
RafCloseSync(s, c) ==
    GetRAFEntity(s, c, Then(CloseFdWithFdsan(s, s.objs[c.o].fd, FALSE), LAMBDA o : {Dead(o, c.o)}))
(* getReadStream and getWriteStream: the number is only asked for its path *)
CreateStreamOf(s, c) == Then(SysDup(s, s.objs[c.o].fd), LAMBDA o : After({o} \cup Faulty(o, "EIO"), CloseOpened))
GetReadStream(s, c) ==
    GetRAFEntity(s, c, IF Od(s, s.objs[c.o].fd).acc = "w" THEN Fail(s, "EACCES") ELSE CreateStreamOf(s, c))
GetWriteStream(s, c) ==
    GetRAFEntity(s, c, IF Od(s, s.objs[c.o].fd).acc = "r" THEN Fail(s, "EACCES") ELSE CreateStreamOf(s, c))
============================================================================

----------------------------- MODULE CjHandles -----------------------------
(***************************************************************************)
(* Descriptors and the objects that hold one in the Cangjie binding, which *)
(* answers every call at once and knows an object by the number of an      *)
(* instance, and the functions that hand an object of this binding to the  *)
(* dynamic one and back.                                                   *)
(***************************************************************************)
EXTENDS CoreHandles

Instance(s, c, S) == IF HasEntity(s, c) THEN S ELSE Fail(s, "INVALID")
CjNew(s) == NewReq(s)                       \* FFIData::Create

----------------------------------------------------------------------------
(* open, dup, close.                                                       *)
GetCjFlags(m) == m \notin {"neg", "both"}
CjOpenFileByPath(s, file, m) == Then(NewReq(s), LAMBDA r : SysOpen(r, file, m))
CjOpenFileByDatashare(s, file) == Then(NewReq(s), LAMBDA r : Elsewhere(r, file))
CjOpenByFileDataUri(s, file, via, m) ==
    IF via # "bundle" /\ s.fs[file] = NoFile THEN CjOpenFileByDatashare(s, file)
    ELSE After(CjOpenFileByPath(s, file, m),
               LAMBDA o : IF o.e # "OK" /\ via = "media" THEN CjOpenFileByDatashare(Ok(o), file) ELSE {o})
CjOpenFileByBroker(s, file) == Elsewhere(s, file)
CheckDataShareUri(s, file) ==
    After(Elsewhere(s, file), LAMBDA o : IF o.e = "OK" THEN {o} ELSE Fail(o, "EINVAL"))
CjOpenFileByUri(s, file, via, m) ==
    CASE via \in {"bundle", "media", "docs"} -> CjOpenByFileDataUri(s, file, via, m)
      [] via = "broker" -> CjOpenFileByBroker(s, file)
      [] via = "remote" -> CheckDataShareUri(s, file)
      [] OTHER -> Fail(s, "EINVAL")
(* The guard of the number, the entity, and the instance that takes its    *)
(* place: only without the first is the number closed.                     *)
CjInstantiateFile(s) ==
    Then(After(NewReq(s), LAMBDA o : IF o.e = "OK" THEN {o} ELSE CloseOpened(o)), NewReq)
CjOpen(s, c) ==
    Params(s, GetCjFlags(c.m),
           Then(IF c.via = "path" THEN CjOpenFileByPath(s, c.file, c.m)
                ELSE CjOpenFileByUri(s, c.file, c.via, c.m),
                LAMBDA o : Then(Then(CjInstantiateFile(o), CjNew), LAMBDA r : MadeFile(r, c.via # "path"))))
CjDup(s, c) ==
    Params(s, Number(s, c) >= 0,
           Then(SysDup(s, Number(s, c)),
                LAMBDA o : After(Then(Then(Then(NewReq(o), LAMBDA r : {r} \cup Faulty(r, "EIO")), NewReq), CjNew),
                                 LAMBDA r : IF r.e = "OK" THEN MadeFile(r, FALSE) ELSE CloseOpened(r))))
CjCloseFd(s, fd) == Then(NewReq(s), LAMBDA r : SysClose(r, fd))
CjCloseByFd(s, fd) == Params(s, fd >= 0, CjCloseFd(s, fd))
CjCloseFile(s, o) == Params(s, s.objs[o].fd # NoFd, CjCloseFd(s, s.objs[o].fd))
(* The instance is released however the close went.                        *)
CjClose(s, c) ==
    IF c.num THEN CjCloseByFd(s, Number(s, c))
    ELSE Instance(s, c, {Dead(o, c.o) : o \in CjCloseFile(s, c.o)})

----------------------------------------------------------------------------
(* Numbers.  An offset selects the function: Read or ReadCur.              *)
CjGetActualLen(len) == IF len = 0 THEN BufLen ELSE len       \* 0: no option
CjGetReadArg(c) == c.len <= BufLen /\ c.off # Negative
CjGetWriteArg(c) == c.off # Negative
CheckReadArgs(s, c) == Number(s, c) >= 0 /\ c.off # Negative
CjRead(s, c) ==
    Params(s, CheckReadArgs(s, c) /\ CjGetReadArg(c),
           Then(NewReq(s), LAMBDA r : SysRead(r, Number(s, c), CjGetActualLen(c.len), c.off)))
CjWrite(s, c) ==
    Params(s, Number(s, c) >= 0 /\ CjGetWriteArg(c), Then(NewReq(s), LAMBDA r : SysWrite(r, Number(s, c), c.d, c.off)))
CjLseek(s, c) == Params(s, Number(s, c) >= 0, SysLseek(s, Number(s, c), c.off, c.wh))
CjFsync(s, c) == Then(NewReq(s), LAMBDA r : SysFsync(r, Number(s, c)))
CjFdatasync(s, c) == Then(NewReq(s), LAMBDA r : SysFsync(r, Number(s, c)))

----------------------------------------------------------------------------
(* File.  An error of the system is always said to be a busy file.         *)
CjHasFd(s, c, S) == IF HasFd(s, c) THEN S ELSE Fail(s, "INVALID")
CjGetFD(s, c) == CjHasFd(s, c, Ret(s, s.objs[c.o].fd))
CjRealPathCore(s) == Then(NewReq(s), LAMBDA r : {r} \cup Faulty(r, "EIO"))
CjGetPath(s, c) == Instance(s, c, CjRealPathCore(s))
CjGetName(s, c) == Instance(s, c, CjRealPathCore(s))
CjGetParent(s, c) == Instance(s, c, Then(CjRealPathCore(s), NewReq))
Busy(S) == After(S, LAMBDA o : IF o.e = "OK" THEN {o} ELSE Fail(o, "ETXTBSY"))
CjTryLock(s, c) == CjHasFd(s, c, Busy(SysFlock(s, s.objs[c.o].fd, LockMode(c), TRUE)))
CjUnLock(s, c) == CjHasFd(s, c, Busy(SysFlock(s, s.objs[c.o].fd, "un", FALSE)))

----------------------------------------------------------------------------
(* Stream.  A unique_ptr closes what no instance could be made for.        *)
CjMakeStream(s) == After(CjNew(s), LAMBDA o : IF o.e = "OK" THEN MadeStream(o) ELSE LetGo(o, o.fp))
CjCreateStream(s, c) == Then(Fopen(s, c.file, c.m), CjMakeStream)
CjFdopenStream(s, c) ==
    Params(s, Number(s, c) >= 0, Then(Fdopen(s, Number(s, c), c.m), CjMakeStream))
CjFp(s, c, Op(_)) ==
    IF ~HasEntity(s, c) THEN Fail(s, "EIO")
    ELSE After(Op([s EXCEPT !.fp = s.objs[c.o].fp]), LAMBDA o : {[o EXCEPT !.fp = 0]})
CjFlush(s, c) == CjFp(s, c, LAMBDA o : Fflush(o, o.fp))
CjReadImpl(s, c) == AsEio(Ferror(Fread(s, s.fp, CjGetActualLen(c.len)), s.fp))
CjStreamRead(s, c) ==
    CjFp(s, c, LAMBDA o : Params(o, CjGetReadArg(c), SeekFirst(o, c, LAMBDA x : CjReadImpl(x, c))))
CjStreamWrite(s, c) ==
    CjFp(s, c, LAMBDA o : Params(o, CjGetWriteArg(c), SeekFirst(o, c, LAMBDA x : AsEio(Fwrite(x, x.fp, c.d)))))
CjStreamClose(s, c) == IF ~HasEntity(s, c) THEN Fail(s, "EIO") ELSE LetGo(Dead(s, c.o), s.objs[c.o].fp)

----------------------------------------------------------------------------
(* RandomAccessFile.                                                       *)
ParseRandomFile(s) == NewReq(s)
CjCreateRafByPath(s, c) ==
    Then(ParseRandomFile(s),
         LAMBDA o : Then(Then(NewReq(o), LAMBDA r : SysOpen(r, c.file, c.m)),
                         LAMBDA r : Then(CjNew(r), LAMBDA x : MadeRaf(x, Absent, Absent))))
CjCreateRafByFile(s, c) ==
    Params(s, HasFd(s, c),
           Then(After(SysDup(s, s.objs[c.o].fd), LAMBDA o : IF o.e = "OK" THEN {o} ELSE Fail(o, "EINVAL")),
                LAMBDA o : After(Then(NewReq(o), CjNew),
                                 LAMBDA r : IF r.e = "OK" THEN MadeRaf(r, Absent, Absent) ELSE CloseOpened(r))))
CjCreateRaf(s, c) == IF c.o = 0 THEN CjCreateRafByPath(s, c) ELSE CjCreateRafByFile(s, c)

(* As it would be with an offset that is not there added all the same.     *)
CjCalculateOffsetAdds(off, ptr) == off + ptr
CjCalculateOffset(off, ptr) == IF off < 0 THEN ptr ELSE off + ptr
CjRafGetFD(s, c) == Ret(s, IF HasFd(s, c) THEN s.objs[c.o].fd ELSE -1)
CjGetFPointer(s, c) == Ret(s, IF HasEntity(s, c) THEN s.objs[c.o].ptr ELSE 0)
CjSetFilePointerSync(s, c) == {IF HasEntity(s, c) THEN [s EXCEPT !.objs[c.o].ptr = c.off] ELSE s}
CjRafOp(s, c, Do(_, _, _, _)) ==
    LET at == CjCalculateOffset(c.off, s.objs[c.o].ptr)
    IN IF ~HasFd(s, c) THEN Fail(s, "EIO")
       ELSE Then(Do(s, c.o, c, at), LAMBDA x : {[x EXCEPT !.objs[c.o].ptr = at + x.n]})
CjDoReadRAF(s, o, c, at) == OrNoMem(s, SysRead(s, s.objs[o].fd, c.len, at))
CjDoWriteRAF(s, o, c, at) == OrNoMem(s, SysWrite(s, s.objs[o].fd, c.d, at))
CjRafRead(s, c) == CjRafOp(s, c, CjDoReadRAF)
CjRafWrite(s, c) == CjRafOp(s, c, CjDoWriteRAF)
(* Nothing is reported, and the entity goes unless there was no memory.    *)
CjRafClose(s, c) ==
    IF ~HasFd(s, c) THEN {Dead(s, c.o)}
    ELSE {Ok(x) : x \in Faulty(s, "ENOMEM")} \cup {Ok(Dead(o, c.o)) : o \in SysClose(s, s.objs[c.o].fd)}

----------------------------------------------------------------------------
(* Objects that change the binding.  A File and a RandomAccessFile hand    *)
(* their number over and stay behind without one; a FILE is shared.        *)
FfiConvertFile2Napi(s, c) ==
    Instance(s, c, Then(NewClass(s), LAMBDA o : HandedOver(o, c.o, "napi")))
FfiCreateFileFromNapi(s, c) ==
    Instance(s, c, Then(CjNew(s), LAMBDA o : HandedOver(o, c.o, "cj")))
FfiConvertRandomAccessFile2Napi(s, c) ==
    Instance(s, c, Then(NewClass(s), LAMBDA o : HandedOver(o, c.o, "napi")))
FfiCreateRandomAccessFileFromNapi(s, c) ==
    Instance(s, c, Then(CjNew(s), LAMBDA o : HandedOver(o, c.o, "cj")))
Shared(s, o, of) == Made(Share(s, s.objs[o].fp), [s.objs[o] EXCEPT !.of = of])
(* As it would be with the FILE handed on and not shared.                  *)
FfiCreateStreamFromNapiPlain(s, c) ==
    Instance(s, c, Then(CjNew(s), LAMBDA o : Made(o, [o.objs[c.o] EXCEPT !.of = "cj"])))
FfiCreateStreamFromNapi(s, c) ==
    Instance(s, c, Then(CjNew(s), LAMBDA o : Shared(o, c.o, "cj")))
FfiConvertStream2Napi(s, c) ==
    Instance(s, c, Then(NewClass(s), LAMBDA o : Shared(o, c.o, "napi")))
============================================================================

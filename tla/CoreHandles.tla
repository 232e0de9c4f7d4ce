---------------------------- MODULE CoreHandles ----------------------------
(***************************************************************************)
(* The same operations in the core that the static (ANI) binding uses, and *)
(* the static binding on top of it, which answers every call at once.      *)
(* Calls are those of NapiHandles.  What a call gets out of the core is    *)
(* wrapped in an object of the language; where that fails, what the core   *)
(* made is deleted, but a deleted File or RandomAccessFile leaves its      *)
(* number open.                                                            *)
(***************************************************************************)
EXTENDS NapiHandles

Wrap(S) ==
    Then(S, LAMBDA o : {o} \cup Faulty([o EXCEPT !.objs = Front(@), !.o = 0], "UNKNOWN"))
WrapStream(S) ==
    Then(S, LAMBDA o : LET fp == o.objs[o.o].fp
                           gone == Faulty([o EXCEPT !.objs = Front(@), !.o = 0], "UNKNOWN")
                       IN {o} \cup After(gone, LAMBDA x : LetGo(x, fp)))

----------------------------------------------------------------------------
(* open, dup and close.                                                    *)
CoreValidAndConvertFlags(m) == m \notin {"neg", "both"}
CoreOpenFileByPath(s, file, m) == Then(NewReq(s), LAMBDA r : SysOpen(r, file, m))
CoreOpenFileByDatashare(s, file) == Then(NewReq(s), LAMBDA r : Elsewhere(r, file))
CoreOpenByFileDataUri(s, file, via, m) ==
    IF via = "media" THEN CoreOpenFileByDatashare(s, file)
    ELSE IF via = "docs" /\ s.fs[file] = NoFile
         THEN After(CoreOpenFileByDatashare(s, file),
                    LAMBDA o : IF o.e = "OK" THEN {o} ELSE Fail(o, "ENOENT"))
         ELSE CoreOpenFileByPath(s, file, m)
CoreOpenFileByBroker(s, file) == Elsewhere(s, file)
CoreOpenFileByUri(s, file, via, m) ==
    IF via \in {"bundle", "media", "docs"} THEN CoreOpenByFileDataUri(s, file, via, m)
    ELSE IF via = "broker" THEN CoreOpenFileByBroker(s, file)
    ELSE IF via = "remote" THEN After(Elsewhere(s, file), LAMBDA o : IF o.e = "OK" THEN {o} ELSE Fail(o, "EINVAL"))
    ELSE Fail(s, "EINVAL")
CoreConstructor(s) == After(NewReq(s), LAMBDA o : IF o.e = "OK" THEN {o} ELSE Fail(o, "EIO"))
CoreInstantiateFile(s, uri) ==
    After(Then(CoreConstructor(s), NewReq),
          LAMBDA o : IF o.e = "OK" THEN MadeFile(o, uri) ELSE CloseOpened(o))
DoOpen(s, c) ==
    Params(s, CoreValidAndConvertFlags(c.m),
           Then(IF c.via = "path" THEN CoreOpenFileByPath(s, c.file, c.m)
                ELSE CoreOpenFileByUri(s, c.file, c.via, c.m),
                LAMBDA o : CoreInstantiateFile(o, c.via # "path")))
AniOpen(s, c) == Wrap(DoOpen(s, c))

DoDup(s, fd) ==
    Params(s, fd >= 0,
           Then(SysDup(s, fd),
                LAMBDA o : After(Then(NewReq(o), LAMBDA r : {r} \cup Faulty(r, "EIO")),
                                 LAMBDA r : IF r.e = "OK" THEN CoreInstantiateFile(r, FALSE) ELSE CloseOpened(r))))
AniDup(s, c) == Wrap(DoDup(s, Number(s, c)))

CoreCloseFd(s, fd) == Then(NewReq(s), LAMBDA r : SysClose(r, fd))
CoreCloseFdWithFdsan(s, fd, isFd) == IF isFd THEN CoreCloseFd(s, fd) ELSE SysClose(s, fd)
DoCloseFd(s, fd) == Params(s, fd >= 0, CoreCloseFdWithFdsan(s, fd, TRUE))
DoCloseFile(s, o) ==
    Params(s, Live(s, o), Then(CoreCloseFdWithFdsan(s, s.objs[o].fd, FALSE), LAMBDA x : {Dead(x, o)}))
AniClose(s, c) ==
    IF c.num THEN DoCloseFd(s, Number(s, c)) ELSE IF c.o = 0 THEN Fail(s, "EINVAL") ELSE DoCloseFile(s, c.o)

----------------------------------------------------------------------------
(* Reading, writing, seeking and syncing of numbers.                       *)
CoreGetActualLen(len) == len <= BufLen
(* As it would be with any offset taken.                                   *)
ValidReadArgAny(c) == CoreGetActualLen(c.len)
ValidReadArg(c) == CoreGetActualLen(c.len) /\ c.off # Negative
ValidWriteArg(c) == CoreGetActualLen(Len(c.d)) /\ c.off # Negative
DoRead(s, fd, c) ==
    Params(s, fd >= 0 /\ ValidReadArg(c), Then(NewReq(s), LAMBDA r : SysRead(r, fd, c.len, c.off)))
DoWrite(s, fd, c) ==
    Params(s, fd >= 0 /\ ValidWriteArg(c), Then(NewReq(s), LAMBDA r : SysWrite(r, fd, c.d, c.off)))
DoLseek(s, fd, c) == Params(s, fd >= 0 /\ c.wh # "bad", SysLseek(s, fd, c.off, c.wh))
DoFsync(s, fd) == Then(NewReq(s), LAMBDA r : SysFsync(r, fd))
DoFdatasync(s, fd) == Then(NewReq(s), LAMBDA r : SysFsync(r, fd))
AniRead(s, c) == DoRead(s, Number(s, c), c)
AniWrite(s, c) == DoWrite(s, Number(s, c), c)
AniLseek(s, c) == DoLseek(s, Number(s, c), c)
AniFsync(s, c) == DoFsync(s, Number(s, c))
AniFdatasync(s, c) == DoFdatasync(s, Number(s, c))

----------------------------------------------------------------------------
(* File.                                                                   *)
CheckFileEntityValid(s, o, S) == Params(s, Live(s, o), S)
CoreGetFD(s, o) == CheckFileEntityValid(s, o, Ret(s, s.objs[o].fd))
CoreRealPathCore(s) == Then(NewReq(s), LAMBDA r : {r} \cup Faulty(r, "EIO"))
CoreGetPath(s, o) == CheckFileEntityValid(s, o, IF s.objs[o].uri THEN {s} ELSE CoreRealPathCore(s))
CoreGetName(s, o) == CheckFileEntityValid(s, o, IF s.objs[o].uri THEN {s} ELSE CoreRealPathCore(s))
CoreGetParent(s, o) == CheckFileEntityValid(s, o, IF s.objs[o].uri THEN {s} ELSE CoreRealPathCore(s))
CoreLock(s, o, ex) == CheckFileEntityValid(s, o, SysFlock(s, s.objs[o].fd, IF ex THEN "ex" ELSE "sh", FALSE))
CoreTryLock(s, o, ex) == CheckFileEntityValid(s, o, SysFlock(s, s.objs[o].fd, IF ex THEN "ex" ELSE "sh", TRUE))
CoreUnLock(s, o) == CheckFileEntityValid(s, o, SysFlock(s, s.objs[o].fd, "un", FALSE))
AniGetFD(s, c) == CoreGetFD(s, c.o)
AniGetPath(s, c) == CoreGetPath(s, c.o)
AniGetName(s, c) == CoreGetName(s, c.o)
AniGetParent(s, c) == CoreGetParent(s, c.o)
(* Any value of the argument that is there asks for an exclusive lock.     *)
AniLock(s, c) == CoreLock(s, c.o, c.ex # "absent")
AniTryLock(s, c) == CoreTryLock(s, c.o, c.ex # "absent")
AniUnLock(s, c) == CoreUnLock(s, c.o)

----------------------------------------------------------------------------
(* Stream.                                                                 *)
CoreInstantiateStream(s) ==
    After(CoreConstructor(s),
          LAMBDA o : IF o.e = "OK" THEN MadeStream(o)
                     ELSE {[x EXCEPT !.e = o.e] : x \in Fclose(Ok(o), o.fp)})
DoCreateStream(s, c) == Then(Fopen(s, c.file, c.m), CoreInstantiateStream)
DoFdopenStream(s, fd, c) == Params(s, fd >= 0, Then(Fdopen(s, fd, c.m), CoreInstantiateStream))
AniCreateStream(s, c) == WrapStream(DoCreateStream(s, c))
AniFdopenStream(s, c) == WrapStream(DoFdopenStream(s, Number(s, c), c))

CoreGetFilePtr(s, o, e, Op(_)) ==
    IF ~Live(s, o) THEN Fail(s, e)
    ELSE StreamDone(Op([Share(s, s.objs[o].fp) EXCEPT !.fp = s.objs[o].fp]))
CoreFlush(s, o) == CoreGetFilePtr(s, o, "EIO", LAMBDA x : Fflush(x, x.fp))
CoreStreamRead(s, o, c) ==
    CoreGetFilePtr(s, o, "EIO", LAMBDA x :
        Params(x, ValidReadArg(c), SeekFirst(x, c, LAMBDA y : AsEio(Ferror(Fread(y, y.fp, c.len), y.fp)))))
CoreStreamWrite(s, o, c) ==
    CoreGetFilePtr(s, o, "EIO", LAMBDA x :
        Params(x, ValidWriteArg(c), SeekFirst(x, c, LAMBDA y : AsEio(Fwrite(y, y.fp, c.d)))))
CoreSeek(s, o, c) ==
    CoreGetFilePtr(s, o, "ENOENT", LAMBDA x :
        Params(x, c.wh # "bad",
               Then(IF c.off >= 0 THEN Fseek(x, x.fp, c.off, c.wh) ELSE {x}, LAMBDA y : Ftell(y, y.fp))))
CoreStreamClose(s, o) == IF ~Live(s, o) THEN Fail(s, "EIO") ELSE LetGo(Dead(s, o), s.objs[o].fp)
AniFlush(s, c) == CoreFlush(s, c.o)
AniStreamRead(s, c) == CoreStreamRead(s, c.o, c)
AniStreamWrite(s, c) == CoreStreamWrite(s, c.o, c)
AniSeek(s, c) == CoreSeek(s, c.o, c)
AniStreamClose(s, c) == CoreStreamClose(s, c.o)

----------------------------------------------------------------------------
(* RandomAccessFile.  Wrong options of a File are left out of account.     *)
ValidRafOptions(c) == c.start # Negative /\ c.end # Negative
CoreInstantiateRaf(s, start, end) ==
    After(CoreConstructor(s), LAMBDA o : IF o.e = "OK" THEN MadeRaf(o, start, end) ELSE {o})
ParseFdToFileInfo(s, fd) ==
    Params(s, fd >= 0,
           Then(After(SysDup(s, fd), LAMBDA o : IF o.e = "OK" THEN {o} ELSE Fail(o, "EINVAL")),
                LAMBDA o : After(NewReq(o), LAMBDA r : IF r.e = "OK" THEN {r} ELSE CloseOpened(r))))
DoCreateRafByPath(s, c) ==
    Then(NewReq(s),
         LAMBDA o : Params(o, c.m # "neg" /\ ValidRafOptions(c),
                           Then(SysOpen(o, c.file, c.m), LAMBDA r : CoreInstantiateRaf(r, c.start, c.end))))
DoCreateRafByFd(s, fd, c) ==
    Then(ParseFdToFileInfo(s, fd),
         LAMBDA o : IF ValidRafOptions(c) THEN CoreInstantiateRaf(o, c.start, c.end)
                    ELSE CoreInstantiateRaf(o, Absent, Absent))
AniCreateRaf(s, c) ==
    Wrap(IF c.o = 0 THEN DoCreateRafByPath(s, c)
         ELSE Params(s, Live(s, c.o), DoCreateRafByFd(s, s.objs[c.o].fd, c)))

CoreCalculateOffset(off, ptr) == IF off < 0 THEN ptr ELSE off + ptr
CoreRaf(s, o, S) == IF Live(s, o) THEN S ELSE Fail(s, "EIO")
CoreRafGetFD(s, o) == CoreRaf(s, o, Ret(s, s.objs[o].fd))
CoreGetFPointer(s, o) == CoreRaf(s, o, Ret(s, s.objs[o].ptr))
CoreSetFilePointerSync(s, o, ptr) == CoreRaf(s, o, {[s EXCEPT !.objs[o].ptr = ptr]})
CoreDoReadRAF(s, o, c, at) == OrNoMem(s, SysRead(s, s.objs[o].fd, c.len, at))
CoreDoWriteRAF(s, o, c, at) == OrNoMem(s, SysWrite(s, s.objs[o].fd, c.d, at))
CoreRafReadSync(s, o, c) ==
    LET at == CoreCalculateOffset(c.off, s.objs[o].ptr)
    IN CoreRaf(s, o, Params(s, ValidReadArg(c),
                 Then(CoreDoReadRAF(s, o, c, at), LAMBDA x : {[x EXCEPT !.objs[o].ptr = at + x.n]})))
CoreRafWriteSync(s, o, c) ==
    LET at == CoreCalculateOffset(c.off, s.objs[o].ptr)
    IN CoreRaf(s, o, Params(s, ValidWriteArg(c),
                 Then(CoreDoWriteRAF(s, o, c, at), LAMBDA x : {[x EXCEPT !.objs[o].ptr = at + x.n]})))
(* The entity stays, with a number that is free again.                     *)
CoreRafCloseSync(s, o) == CoreRaf(s, o, CoreCloseFdWithFdsan(s, s.objs[o].fd, FALSE))
AniRafGetFD(s, c) == CoreRafGetFD(s, c.o)
AniGetFPointer(s, c) == CoreGetFPointer(s, c.o)
AniSetFilePointer(s, c) == CoreSetFilePointerSync(s, c.o, c.off)
AniRafRead(s, c) == CoreRafReadSync(s, c.o, c)
AniRafWrite(s, c) == CoreRafWriteSync(s, c.o, c)
AniRafClose(s, c) == CoreRafCloseSync(s, c.o)
GetFilePath(s, fd) == Then(SysDup(s, fd), LAMBDA o : After({o} \cup Faulty(o, "EIO"), CloseOpened))
AniGetReadStream(s, c) ==
    CoreRaf(s, c.o, IF Od(s, s.objs[c.o].fd).acc = "w" THEN Fail(s, "EACCES") ELSE GetFilePath(s, s.objs[c.o].fd))
AniGetWriteStream(s, c) ==
    CoreRaf(s, c.o, IF Od(s, s.objs[c.o].fd).acc = "r" THEN Fail(s, "EACCES") ELSE GetFilePath(s, s.objs[c.o].fd))
============================================================================

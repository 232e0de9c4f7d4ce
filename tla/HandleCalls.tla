---------------------------- MODULE HandleCalls ----------------------------
(***************************************************************************)
(* Programs that open files, use what they got and close it, through the   *)
(* three bindings or @ohos.fileio.  A call of the dynamic binding or of    *)
(* fileio that does not answer at once runs in three steps that others     *)
(* come between: the JavaScript thread looks at the arguments, a worker    *)
(* thread does the work, and the JavaScript thread hears of it and makes   *)
(* the object, if there is one.                                            *)
(***************************************************************************)
EXTENDS CjHandles, FioHandles

CONSTANT Programs       \* what is called, see This

VARIABLES prog, sys, calls, pending, last

vars == <<prog, sys, calls, pending, last>>

(* A program is a record: the files it may find, its calls, its bindings,  *)
(* how many calls it makes (max) and how many at a time (width), the       *)
(* errors of which the system may give one (failing), and whether the      *)
(* bindings are known to agree.                                            *)
This == Programs[prog]

NotInNapi == {"lock", "fileToNapi", "streamToNapi", "rafToNapi"}       \* not as calls that answer at once
NapiDo(c, s) ==
    CASE c.op = "open" -> OpenSync(s, c)
      [] c.op = "dup" -> DupSync(s, c)
      [] c.op = "close" -> CloseSync(s, c)
      [] c.op = "read" -> ReadSync(s, c)
      [] c.op = "write" -> WriteSync(s, c)
      [] c.op = "lseek" -> LseekSync(s, c)
      [] c.op = "fsync" -> FsyncSync(s, c)
      [] c.op = "fdatasync" -> FdatasyncSync(s, c)
      [] c.op = "fd" -> GetFD(s, c)
      [] c.op = "path" -> GetPath(s, c)
      [] c.op = "name" -> GetName(s, c)
      [] c.op = "parent" -> GetParent(s, c)
      [] c.op = "tryLock" -> TryLock(s, c)
      [] c.op = "unlock" -> UnLock(s, c)
      [] c.op = "createStream" -> CreateStreamSync(s, c)
      [] c.op = "fdopenStream" -> FdopenStreamSync(s, c)
      [] c.op = "flush" -> FlushSync(s, c)
      [] c.op = "streamRead" -> StreamReadSync(s, c)
      [] c.op = "streamWrite" -> StreamWriteSync(s, c)
      [] c.op = "seek" -> Seek(s, c)
      [] c.op = "streamClose" -> StreamCloseSync(s, c)
      [] c.op = "createRaf" -> CreateRafSync(s, c)
      [] c.op = "rafFd" -> RafGetFD(s, c)
      [] c.op = "rafPointer" -> GetFPointer(s, c)
      [] c.op = "rafSetPointer" -> SetFilePointerSync(s, c)
      [] c.op = "rafRead" -> RafReadSync(s, c)
      [] c.op = "rafWrite" -> RafWriteSync(s, c)
      [] c.op = "rafClose" -> RafCloseSync(s, c)
      [] c.op = "rafReader" -> GetReadStream(s, c)
      [] c.op = "rafWriter" -> GetWriteStream(s, c)
      [] c.op = "fileToCj" -> FfiCreateFileFromNapi(s, c)
      [] c.op = "streamToCj" -> FfiCreateStreamFromNapi(s, c)
      [] c.op = "rafToCj" -> FfiCreateRandomAccessFileFromNapi(s, c)

HasAsync == {"open", "close", "read", "write", "fsync", "fdatasync", "lock", "createStream", "fdopenStream",
             "flush", "streamRead", "streamWrite", "streamClose", "createRaf", "rafRead", "rafWrite"}
NapiSchedule(c, s) ==
    CASE c.op = "open" -> OpenAsync(s, c)
      [] c.op = "close" -> CloseAsync(s, c)
      [] c.op = "read" -> ReadAsync(s, c)
      [] c.op = "write" -> WriteAsync(s, c)
      [] c.op = "fsync" -> FsyncAsync(s, c)
      [] c.op = "fdatasync" -> FdatasyncAsync(s, c)
      [] c.op = "lock" -> LockAsync(s, c)
      [] c.op = "createStream" -> CreateStreamAsync(s, c)
      [] c.op = "fdopenStream" -> FdopenStreamAsync(s, c)
      [] c.op = "flush" -> FlushAsync(s, c)
      [] c.op = "streamRead" -> StreamRead(s, c)
      [] c.op = "streamWrite" -> StreamWrite(s, c)
      [] c.op = "streamClose" -> StreamClose(s, c)
      [] c.op = "createRaf" -> CreateRafAsync(s, c)
      [] c.op = "rafRead" -> RafRead(s, c)
      [] c.op = "rafWrite" -> RafWrite(s, c)

NapiExec(c, s) ==
    CASE c.op = "open" -> OpenExec(s, c)
      [] c.op = "close" -> CloseExec(s, c)
      [] c.op = "read" -> ReadExec(s, c)
      [] c.op = "write" -> WriteExec(s, c)
      [] c.op = "fsync" -> FsyncExec(s, c)
      [] c.op = "fdatasync" -> FdatasyncExec(s, c)
      [] c.op = "lock" -> LockExec(s, c)
      [] c.op = "createStream" -> CreateStreamExec(s, c)
      [] c.op = "fdopenStream" -> FdopenStreamExec(s, c)
      [] c.op = "flush" -> FlushExec(s, c)
      [] c.op = "streamRead" -> StreamReadExec(s, c)
      [] c.op = "streamWrite" -> StreamWriteExec(s, c)
      [] c.op = "streamClose" -> {s}
      [] c.op = "createRaf" -> CreateRafExec(s, c)
      [] c.op = "rafRead" -> RafReadExec(s, c)
      [] c.op = "rafWrite" -> RafWriteExec(s, c)

Making == {"open", "createStream", "fdopenStream", "createRaf"}
OnStream == {"flush", "streamRead", "streamWrite"}
NapiCompl(c, s) ==
    IF c.op \in OnStream THEN StreamDone({s})
    ELSE IF s.e # "OK" \/ c.op \notin Making THEN {s}
    ELSE CASE c.op = "open" -> OpenCompl(s, c)
           [] c.op \in {"createStream", "fdopenStream"} -> InstantiateStream(s)
           [] c.op = "createRaf" -> CreateRafCompl(s, c)

AniDo(c, s) ==
    CASE c.op = "open" -> AniOpen(s, c)
      [] c.op = "dup" -> AniDup(s, c)
      [] c.op = "close" -> AniClose(s, c)
      [] c.op = "read" -> AniRead(s, c)
      [] c.op = "write" -> AniWrite(s, c)
      [] c.op = "lseek" -> AniLseek(s, c)
      [] c.op = "fsync" -> AniFsync(s, c)
      [] c.op = "fdatasync" -> AniFdatasync(s, c)
      [] c.op = "fd" -> AniGetFD(s, c)
      [] c.op = "path" -> AniGetPath(s, c)
      [] c.op = "name" -> AniGetName(s, c)
      [] c.op = "parent" -> AniGetParent(s, c)
      [] c.op = "lock" -> AniLock(s, c)
      [] c.op = "tryLock" -> AniTryLock(s, c)
      [] c.op = "unlock" -> AniUnLock(s, c)
      [] c.op = "createStream" -> AniCreateStream(s, c)
      [] c.op = "fdopenStream" -> AniFdopenStream(s, c)
      [] c.op = "flush" -> AniFlush(s, c)
      [] c.op = "streamRead" -> AniStreamRead(s, c)
      [] c.op = "streamWrite" -> AniStreamWrite(s, c)
      [] c.op = "seek" -> AniSeek(s, c)
      [] c.op = "streamClose" -> AniStreamClose(s, c)
      [] c.op = "createRaf" -> AniCreateRaf(s, c)
      [] c.op = "rafFd" -> AniRafGetFD(s, c)
      [] c.op = "rafPointer" -> AniGetFPointer(s, c)
      [] c.op = "rafSetPointer" -> AniSetFilePointer(s, c)
      [] c.op = "rafRead" -> AniRafRead(s, c)
      [] c.op = "rafWrite" -> AniRafWrite(s, c)
      [] c.op = "rafClose" -> AniRafClose(s, c)
      [] c.op = "rafReader" -> AniGetReadStream(s, c)
      [] c.op = "rafWriter" -> AniGetWriteStream(s, c)

NotInCj == {"lock", "seek", "rafReader", "rafWriter", "fileToCj", "streamToCj", "rafToCj"}
CjDo(c, s) ==
    CASE c.op = "open" -> CjOpen(s, c)
      [] c.op = "dup" -> CjDup(s, c)
      [] c.op = "close" -> CjClose(s, c)
      [] c.op = "read" -> CjRead(s, c)
      [] c.op = "write" -> CjWrite(s, c)
      [] c.op = "lseek" -> CjLseek(s, c)
      [] c.op = "fsync" -> CjFsync(s, c)
      [] c.op = "fdatasync" -> CjFdatasync(s, c)
      [] c.op = "fd" -> CjGetFD(s, c)
      [] c.op = "path" -> CjGetPath(s, c)
      [] c.op = "name" -> CjGetName(s, c)
      [] c.op = "parent" -> CjGetParent(s, c)
      [] c.op = "tryLock" -> CjTryLock(s, c)
      [] c.op = "unlock" -> CjUnLock(s, c)
      [] c.op = "createStream" -> CjCreateStream(s, c)
      [] c.op = "fdopenStream" -> CjFdopenStream(s, c)
      [] c.op = "flush" -> CjFlush(s, c)
      [] c.op = "streamRead" -> CjStreamRead(s, c)
      [] c.op = "streamWrite" -> CjStreamWrite(s, c)
      [] c.op = "streamClose" -> CjStreamClose(s, c)
      [] c.op = "createRaf" -> CjCreateRaf(s, c)
      [] c.op = "rafFd" -> CjRafGetFD(s, c)
      [] c.op = "rafPointer" -> CjGetFPointer(s, c)
      [] c.op = "rafSetPointer" -> CjSetFilePointerSync(s, c)
      [] c.op = "rafRead" -> CjRafRead(s, c)
      [] c.op = "rafWrite" -> CjRafWrite(s, c)
      [] c.op = "rafClose" -> CjRafClose(s, c)
      [] c.op = "fileToNapi" -> FfiConvertFile2Napi(s, c)
      [] c.op = "streamToNapi" -> FfiConvertStream2Napi(s, c)
      [] c.op = "rafToNapi" -> FfiConvertRandomAccessFile2Napi(s, c)

FioDo(c, s) ==
    CASE c.op = "open" -> FioOpenSync(s, c)
      [] c.op = "close" -> FioCloseSync(s, c)
      [] c.op = "read" -> FioReadSync(s, c)
      [] c.op = "write" -> FioWriteSync(s, c)
      [] c.op = "lseek" -> FioLseekSync(s, c)
      [] c.op = "fsync" -> FioFsyncSync(s, c)
      [] c.op = "fdatasync" -> FioFdatasyncSync(s, c)
      [] c.op = "ftruncate" -> FioFtruncateSync(s, c)
      [] c.op = "fallocate" -> FioFallocateSync(s, c)
      [] c.op = "fstat" -> FioFstatSync(s, c)
      [] c.op = "fchmod" -> FioFchmodSync(s, c)
      [] c.op = "fchown" -> FioFchownSync(s, c)
      [] c.op = "createStream" -> FioCreateStreamSync(s, c)
      [] c.op = "fdopenStream" -> FioFdopenStreamSync(s, c)
      [] c.op = "flush" -> FioFlushSync(s, c)
      [] c.op = "streamRead" -> FioStreamReadSync(s, c)
      [] c.op = "streamWrite" -> FioStreamWriteSync(s, c)
      [] c.op = "streamClose" -> FioStreamCloseSync(s, c)
      [] c.op = "opendir" -> FioOpenDirSync(s, c)
      [] c.op = "dirRead" -> FioDirReadSync(s, c)
      [] c.op = "listfile" -> FioListFileSync(s, c)
      [] c.op = "dirClose" -> FioDirCloseSync(s, c)

FioSchedule(c, s) ==
    CASE c.op = "open" -> FioOpenAsync(s, c)
      [] c.op = "close" -> FioCloseAsync(s, c)
      [] c.op = "read" -> FioReadAsync(s, c)
      [] c.op = "write" -> FioWriteAsync(s, c)
      [] c.op = "lseek" -> FioLseekAsync(s, c)
      [] c.op = "fsync" -> FioFsyncAsync(s, c)
      [] c.op = "fdatasync" -> FioFdatasyncAsync(s, c)
      [] c.op = "ftruncate" -> FioFtruncateAsync(s, c)
      [] c.op = "fallocate" -> FioFallocateAsync(s, c)
      [] c.op = "fstat" -> FioFstatAsync(s, c)
      [] c.op = "fchmod" -> FioFchmodAsync(s, c)
      [] c.op = "fchown" -> FioFchownAsync(s, c)
      [] c.op = "createStream" -> FioCreateStreamAsync(s, c)
      [] c.op = "fdopenStream" -> FioFdopenStreamAsync(s, c)
      [] c.op = "flush" -> FioFlushAsync(s, c)
      [] c.op = "streamRead" -> FioStreamRead(s, c)
      [] c.op = "streamWrite" -> FioStreamWrite(s, c)
      [] c.op = "streamClose" -> FioStreamClose(s, c)
      [] c.op = "opendir" -> FioOpenDirAsync(s, c)
      [] c.op = "dirRead" -> FioDirRead(s, c)
      [] c.op = "listfile" -> FioListFile(s, c)
      [] c.op = "dirClose" -> FioDirClose(s, c)

FioExec(c, s) ==
    CASE c.op = "open" -> FioDoOpenExec(s, c)
      [] c.op = "close" -> FioCloseExec(s, c)
      [] c.op = "read" -> FioReadExec(s, c)
      [] c.op = "write" -> FioWriteExec(s, c)
      [] c.op = "lseek" -> FioLseekExec(s, c)
      [] c.op = "fsync" -> FioFsyncExec(s, c)
      [] c.op = "fdatasync" -> FioFdatasyncExec(s, c)
      [] c.op = "ftruncate" -> FioFtruncateExec(s, c)
      [] c.op = "fallocate" -> FioFallocateExec(s, c)
      [] c.op = "fstat" -> FioFstatExec(s, c)
      [] c.op = "createStream" -> FioCreateStreamExec(s, c)
      [] c.op = "fdopenStream" -> FioFdopenStreamExec(s, c)
      [] c.op = "flush" -> FioFlushExec(s, c)
      [] c.op = "streamRead" -> FioStreamReadExec(s, c)
      [] c.op = "streamWrite" -> FioStreamWriteExec(s, c)
      [] c.op = "opendir" -> FioOpenDirExec(s, c)
      [] c.op = "dirRead" -> FioDirReadExec(s, c)
      [] c.op = "listfile" -> FioListFileExec(s, c)
      [] c.op = "dirClose" -> FioDirCloseExec(s, c)
      [] c.op \in {"fchmod", "fchown", "streamClose"} -> {s}       \* nothing to do

FioCompl(c, s) ==
    IF s.e # "OK" THEN {s}
    ELSE CASE c.op = "open" -> FioOpenCompl(s, c)
           [] c.op \in {"createStream", "fdopenStream"} -> FioInstantiateStream(s)
           [] c.op = "opendir" -> FioInstantiateDir(s)
           [] c.op = "fstat" -> FioFstatCompl(s, c)
           [] c.op = "dirRead" -> FioDirReadCompl(s, c)
           [] c.op = "listfile" -> FioListFileCompl(s, c)
           [] OTHER -> {s}

----------------------------------------------------------------------------
(* The objects a call may be made on, and what programs do.  Numbers are   *)
(* used while they are open and not under a stream, an object is not       *)
(* closed while a call on it is under way (a stream may be), calls on a    *)
(* RandomAccessFile follow each other; after it is closed an object may    *)
(* still be called, but for a number closed by hand and for the objects    *)
(* whose entity outlives the close (RandomAccessFile, static binding).     *)
(* Nobody but the program keeps a Stream of fileio open for the calls on   *)
(* it, or one call on a Dir away from another.                             *)
ByNumber(c) ==
    \/ c.op \in {"read", "write", "lseek", "fsync", "fdatasync", "dup", "fdopenStream", "ftruncate", "fallocate", "fstat",
                 "fchmod", "fchown"}
    \/ (c.op = "close" /\ c.num)
OnRaf == {"rafFd", "rafPointer", "rafSetPointer", "rafRead", "rafWrite", "rafClose", "rafReader", "rafWriter", "rafToCj",
          "rafToNapi"}
OnDir == {"dirRead", "listfile", "dirClose"}
KindOf(c) ==
    IF c.op \in OnRaf THEN "raf"
    ELSE IF c.op \in OnStream \cup {"seek", "streamClose", "streamToCj", "streamToNapi"} THEN "stream"
    ELSE IF c.op \in OnDir THEN "dir" ELSE "file"
Converting == {"fileToCj", "streamToCj", "rafToCj", "fileToNapi", "streamToNapi", "rafToNapi"}
Ending == {"close", "fdopenStream", "rafClose"} \cup Converting
BusyOn(o) == {p \in pending : p.c.o = o}
MayCall(who, c) ==
    LET x == sys.objs[c.o]
    IN /\ x.k = KindOf(c) /\ x.of = who /\ ~x.given /\ x.shut # "num"
       /\ ByNumber(c) => x.shut = "" /\ x.fd # NoFd
       /\ who = "ani" /\ x.k = "raf" => x.shut = ""
       /\ x.k = "raf" /\ who = "napi" /\ x.live => x.fd # NoFd
       /\ c.op \in Ending /\ x.k # "stream" => BusyOn(c.o) = {}
       /\ c.op \in Converting => x.shut = ""
       /\ x.k = "raf" => BusyOn(c.o) = {}
       /\ who = "fileio" /\ (x.k = "dir" \/ c.op = "streamClose") => BusyOn(c.o) = {}
(* A call on an object (o = -1) is made on each object there is.           *)
Instances(who, c) ==
    IF c.o = 0 THEN {c}
    ELSE {x \in {[c EXCEPT !.o = i] : i \in DOMAIN sys.objs} : MayCall(who, x)}

----------------------------------------------------------------------------
Rest(o) == [o EXCEPT !.e = "OK", !.n = 0, !.c = << >>, !.o = 0, !.fd = NoFd, !.fp = 0, !.at = 0]
Silence == [who |-> "nobody", op |-> "", o |-> 0, e |-> "OK", n |-> 0, c |-> << >>]
Answer(who, c, o) == [who |-> who, op |-> c.op, o |-> c.o, e |-> o.e, n |-> o.n, c |-> o.c]

(* What the program knows of its objects after a call: which are new, and  *)
(* which it has closed.                                                    *)
Closes(c) == c.op \in {"close", "rafClose", "streamClose", "dirClose"}
Noted(who, c, ok, o) ==
    LET objs == [i \in DOMAIN o.objs |-> IF o.objs[i].of = "" THEN [o.objs[i] EXCEPT !.of = who] ELSE o.objs[i]]
    IN [Rest(o) EXCEPT !.objs = IF Closes(c) /\ c.o # 0 /\ ok
                                THEN [objs EXCEPT ![c.o].shut = IF c.num THEN "num" ELSE "obj"] ELSE objs]

InitWith(p) ==
    /\ prog = p
    /\ \E files \in This.files :
          sys = [fs |-> files, tab |-> [i \in 1 .. MaxFd |-> 0], ods |-> << >>, fps |-> << >>, objs |-> << >>,
                 locks |-> {}, f |-> This.failing, e |-> "OK", n |-> 0, c |-> << >>, o |-> 0, fd |-> NoFd, fp |-> 0, at |-> 0]
    /\ calls = 0 /\ pending = {} /\ last = Silence
Init == \E p \in DOMAIN Programs : InitWith(p)

Begun(who) == who \in This.bindings /\ calls < This.max /\ calls' = calls + 1 /\ prog' = prog
Answered(who, c, o) == sys' = Noted(who, c, o.e = "OK", o) /\ last' = Answer(who, c, o)

NapiSync(c) ==
    /\ Begun("napi")
    /\ c.op \notin NotInNapi
    /\ \E o \in NapiDo(c, sys) : Answered("napi", c, o)
    /\ UNCHANGED pending

(* The JavaScript thread's part of a call.                                 *)
NapiAsync(c) ==
    /\ Begun("napi") /\ c.op \in HasAsync /\ Cardinality(pending) < This.width
    /\ \E o \in NapiSchedule(c, sys) :
          IF o.e # "OK" THEN Answered("napi", c, o) /\ UNCHANGED pending
          ELSE /\ sys' = Noted("napi", c, TRUE, o) /\ last' = Silence
               /\ pending' = pending \cup {[who |-> "napi", c |-> c, id |-> calls, stage |-> "work", e |-> "OK", fd |-> o.fd, fp |-> o.fp, at |-> o.at]}

(* The worker's part.                                                      *)
Resumed(p) == [sys EXCEPT !.fd = p.fd, !.fp = p.fp, !.at = p.at, !.e = p.e]
StillOpen(c, o) ==      \* a number that could not be closed is still the program's
    IF c.op = "close" /\ c.num /\ c.o # 0 /\ o.e # "OK" THEN [Rest(o) EXCEPT !.objs[c.o].shut = ""] ELSE Rest(o)
NapiWork(p) ==
    /\ p.who = "napi" /\ p.stage = "work"
    /\ \E o \in NapiExec(p.c, Resumed(p)) :
          /\ sys' = StillOpen(p.c, o) /\ last' = [Answer("worker", p.c, o) EXCEPT !.c = IF p.c.op \in OnRaf THEN @ ELSE << >>]
          /\ pending' = (pending \ {p}) \cup {[p EXCEPT !.stage = "done", !.e = o.e, !.fd = o.fd, !.fp = o.fp]}
    /\ UNCHANGED <<prog, calls>>

(* The JavaScript thread hears of it.                                      *)
NapiComplete(p) ==
    /\ p.who = "napi" /\ p.stage = "done"
    /\ \E o \in NapiCompl(p.c, Resumed(p)) : sys' = Noted("napi", p.c, FALSE, o) /\ last' = Answer("done", p.c, o)
    /\ pending' = pending \ {p}
    /\ UNCHANGED <<prog, calls>>

AniSync(c) ==
    /\ Begun("ani") /\ c.op \notin Converting
    /\ \E o \in AniDo(c, sys) : Answered("ani", c, o)
    /\ UNCHANGED pending

CjSync(c) ==
    /\ Begun("cj") /\ c.op \notin NotInCj
    /\ \E o \in CjDo(c, sys) : Answered("cj", c, o)
    /\ UNCHANGED pending

(* The same three steps of a call of fileio, and the one.                  *)
FioSync(c) ==
    /\ Begun("fileio")
    /\ \E o \in FioDo(c, sys) : Answered("fileio", c, o)
    /\ UNCHANGED pending
FioAsync(c) ==
    /\ Begun("fileio") /\ Cardinality(pending) < This.width
    /\ \E o \in FioSchedule(c, sys) :
          IF o.e # "OK" THEN Answered("fileio", c, o) /\ UNCHANGED pending
          ELSE /\ sys' = Noted("fileio", c, TRUE, o) /\ last' = Silence
               /\ pending' = pending \cup {[who |-> "fileio", c |-> c, id |-> calls, stage |-> "work", e |-> "OK",
                                           fd |-> o.fd, fp |-> o.fp, at |-> o.at]}
FioWork(p) ==
    /\ p.who = "fileio" /\ p.stage = "work"
    /\ \E o \in FioExec(p.c, Resumed(p)) :
          /\ sys' = StillOpen(p.c, o) /\ last' = [Answer("worker", p.c, o) EXCEPT !.c = << >>]
          /\ pending' = (pending \ {p}) \cup {[p EXCEPT !.stage = "done", !.e = o.e, !.fd = o.fd, !.fp = o.fp, !.at = o.at]}
    /\ UNCHANGED <<prog, calls>>
FioComplete(p) ==
    /\ p.who = "fileio" /\ p.stage = "done"
    /\ \E o \in FioCompl(p.c, Resumed(p)) : sys' = Noted("fileio", p.c, FALSE, o) /\ last' = Answer("done", p.c, o)
    /\ pending' = pending \ {p}
    /\ UNCHANGED <<prog, calls>>

Next ==
    \/ \E t \in This.calls :
          \/ \E c \in Instances("napi", t) : NapiSync(c) \/ NapiAsync(c)
          \/ \E c \in Instances("ani", t) : AniSync(c)
          \/ \E c \in Instances("cj", t) : CjSync(c)
          \/ \E c \in Instances("fileio", t) : FioSync(c) \/ FioAsync(c)
    \/ \E p \in pending : NapiWork(p) \/ NapiComplete(p) \/ FioWork(p) \/ FioComplete(p)

Spec == Init /\ [][Next]_vars

----------------------------------------------------------------------------
(* An object that the program has not closed keeps what it was opened on:  *)
(* no call on another object, in whatever order calls run, closes its      *)
(* number or lets the number stand for another file.                       *)
Held(x) == x.shut = "" /\ x.live /\ ~x.given /\ x.fd # NoFd
HandlesHeld == \A i \in DOMAIN sys.objs : Held(sys.objs[i]) => sys.tab[sys.objs[i].fd] = sys.objs[i].od

(* Every open number has exactly one owner who will close it: an object, a *)
(* FILE or a call under way.  Nothing is left open by a call that failed,  *)
(* and nothing is closed twice by two who think it theirs.                 *)
Owners(fd) ==
    {<<"object", i>> : i \in {j \in DOMAIN sys.objs : Held(sys.objs[j]) /\ sys.objs[j].k # "stream" /\ sys.objs[j].fd = fd}}
    \cup {<<"FILE", i>> : i \in {j \in DOMAIN sys.fps : sys.fps[j].refs > 0 /\ sys.fps[j].fd = fd}}
    \cup {<<"call", p.id>> : p \in {q \in pending : q.c.op \in {"open", "close", "createRaf", "opendir", "dirClose"} /\ ~(q.c.op = "close" /\ q.c.num) /\ q.fd = fd}}
HandlesOwned ==
    \A fd \in 1 .. MaxFd : sys.tab[fd] # 0 =>
        \/ Cardinality(Owners(fd)) = 1
        \/ \E p \in pending : p.c.op = "close" /\ p.c.num /\ p.fd = fd /\ Owners(fd) = {}     \* the program's own

(* No call uses a FILE or an entity that is gone, a stream closed while a  *)
(* call on it is under way included.                                       *)
NoUseAfterClose == last.e # "UB"

(* Handles are safe: what an object holds is its own, is closed once, and  *)
(* is used by no call afterwards.                                          *)
HandlesSafe == HandlesHeld /\ HandlesOwned /\ NoUseAfterClose

(* After a RandomAccessFile has read or written, its pointer stands behind *)
(* the bytes that were moved, and they are the bytes of the file there.    *)
RafPointerFollows ==
    last'.who # "nobody" /\ last'.e = "OK" /\ last'.op \in {"rafRead", "rafWrite"} /\ last'.who # "done"
    => LET x == sys'.objs[last'.o]
           text == sys'.fs[sys'.ods[x.od].file]
       IN /\ x.ptr >= last'.n
          /\ last'.op = "rafRead" => last'.c = Part(text, x.ptr - last'.n, last'.n)
          /\ last'.op = "rafWrite" /\ ~sys'.ods[x.od].app => last'.c = Part(text, x.ptr - last'.n, last'.n)

(* The dynamic and the static binding answer a call in the same way and    *)
(* leave the same objects and files, as long as the system does not fail.  *)
Seen(S) ==
    {[fs |-> o.fs, tab |-> o.tab, locks |-> o.locks, e |-> o.e, n |-> o.n, c |-> o.c, new |-> o.o,
      objs |-> [i \in DOMAIN o.objs |-> [o.objs[i] EXCEPT !.of = "", !.live = o.objs[i].k = "raf" \/ @]]] : o \in S}
Calm == [sys EXCEPT !.f = {}]
Comparing == This.agree /\ calls < This.max /\ pending = {}
HandlesAgree ==
    Comparing /\ "napi" \in This.bindings => \A t \in This.calls : \A c \in Instances("napi", t) :
        c.op # "lock" /\ (c.o # 0 /\ sys.objs[c.o].k = "stream" => sys.objs[c.o].live)
            => Seen(NapiDo(c, Calm)) = Seen(AniDo(c, Calm))

(* So do the two forms of a call of the dynamic binding.                   *)
Unfolded(c) ==
    Then(NapiSchedule(c, Calm), LAMBDA s : After(NapiExec(c, s), LAMBDA o : NapiCompl(c, o)))
HandleFormsAgree ==
    Comparing /\ "napi" \in This.bindings => \A t \in This.calls : \A c \in Instances("napi", t) :
        c.op \in HasAsync \ {"lock"} => Seen(Unfolded(c)) = Seen(NapiDo(c, Calm))

(* And the two forms of a call of fileio, but for an open that makes a     *)
(* file and is given no mode (only the form that answers at once asks for  *)
(* one), a Stream closed twice (two errors) and the reading of one that    *)
(* has met an error before.                                                *)
FioUnfolded(c) ==
    Then(FioSchedule(c, Calm), LAMBDA s : After(FioExec(c, s), LAMBDA o : FioCompl(c, o)))
FioDiffers(c) ==
    \/ c.op = "open" /\ NeedsMode(c.m) /\ ~c.perm
    \/ c.op = "streamClose" /\ ~Live(sys, c.o)
    \/ c.op = "streamRead" /\ sys.fps[sys.objs[c.o].fp].bad
FioFormsAgree ==
    Comparing /\ "fileio" \in This.bindings => \A t \in This.calls : \A c \in Instances("fileio", t) :
        ~FioDiffers(c) => Seen(FioUnfolded(c)) = Seen(FioDo(c, Calm))
============================================================================

---------------------------- MODULE Descriptors ----------------------------
(***************************************************************************)
(* What the objects of @ohos.file.fs take from the system: the table of    *)
(* descriptors of the process, advisory locks and the streams of the C     *)
(* library.  Nothing here is this repository's code but the shape of the   *)
(* objects; the modules of operations are written over it.                 *)
(*                                                                         *)
(* An operation maps a state s to the SET of its outcomes.  A state is a   *)
(* record: fs the content of every file, tab the description behind every  *)
(* number (0: the number is free), ods the descriptions that were ever     *)
(* open, fps the FILEs there ever were, objs the objects of the program,   *)
(* locks who holds a lock; f the errors of which the environment may still *)
(* inject one, e the error met, n, c and o the number, the content and the *)
(* object last returned, fd, fp and at the number, the FILE and the place  *)
(* in the file that the call under way has got hold of.                    *)
(* The empty set of outcomes is a call that waits.                         *)
(***************************************************************************)
EXTENDS Integers, Sequences, FiniteSets, SequencesExt

CONSTANTS Files,      \* the names of files
          MaxFd       \* the greatest number of a descriptor

NoFile == <<-1>>
NoFd == 0             \* what a variable for a number holds before there is one

Ret(s, n) == {[s EXCEPT !.n = n]}
Fail(s, e) == {[s EXCEPT !.e = e]}
Faulty(s, e) == IF e \in s.f THEN {[s EXCEPT !.e = e, !.f = {}]} ELSE {}
Check(s, e, S) == IF e = "OK" THEN S ELSE Fail(s, e)
Params(s, ok, S) == IF ok THEN S ELSE Fail(s, "EINVAL")
Then(S, Op(_)) == UNION {IF o.e = "OK" THEN Op(o) ELSE {o} : o \in S}
After(S, Op(_)) == UNION {Op(o) : o \in S}
Ok(s) == [s EXCEPT !.e = "OK"]
NewReq(s) == {s} \cup Faulty(s, "ENOMEM")
NewClass(s) == {s} \cup Faulty(s, "UNKNOWN")      \* an object of the caller's language

----------------------------------------------------------------------------
(* Descriptors.  A mode is "r", "w", "rw", or "rw" with O_CREAT ("creat"), *)
(* O_CREAT and O_TRUNC ("trunc") or O_CREAT and O_APPEND ("app"); "both"   *)
(* has the bits of O_WRONLY and of O_RDWR, "dir" is O_DIRECTORY, "neg" is  *)
(* a negative number.                                                      *)
Creates(m) == m \in {"creat", "trunc", "app"}
Acc(m) == IF m \in {"r", "w"} THEN m ELSE IF m = "dir" THEN "r" ELSE "rw"
IsOpen(s, fd) == fd \in 1 .. MaxFd /\ s.tab[fd] # 0
Od(s, fd) == s.ods[s.tab[fd]]
Free(s) == {i \in 1 .. MaxFd : s.tab[i] = 0}
NewFd(s, od) ==
    LET fd == CHOOSE i \in Free(s) : \A j \in Free(s) : i <= j
    IN {[s EXCEPT !.tab[fd] = od, !.fd = fd]}
Opened(s, file, m) ==
    NewFd([s EXCEPT !.fs[file] = IF @ = NoFile \/ m = "trunc" THEN << >> ELSE @,
                    !.ods = Append(@, [file |-> file, pos |-> 0, acc |-> Acc(m), app |-> m = "app"])],
          Len(s.ods) + 1)
SysOpen(s, file, m) ==
    IF s.fs[file] = NoFile /\ ~Creates(m) THEN Fail(s, "ENOENT")
    ELSE IF Free(s) = {} THEN Fail(s, "EMFILE")
    ELSE Opened(s, file, m) \cup Faulty(s, "EIO")
SysDup(s, fd) ==
    IF ~IsOpen(s, fd) THEN Fail(s, "EBADF")
    ELSE IF Free(s) = {} THEN Fail(s, "EMFILE") ELSE NewFd(s, s.tab[fd])
(* The last number of a description takes its lock with it.                *)
SysClose(s, fd) ==
    IF ~IsOpen(s, fd) THEN Fail(s, "EBADF")
    ELSE LET od == s.tab[fd]
             last == \A i \in 1 .. MaxFd : s.tab[i] = od => i = fd
         IN {[s EXCEPT !.tab[fd] = 0, !.locks = IF last THEN {l \in @ : l.od # od} ELSE @]}
CloseOpened(s) == {[o EXCEPT !.e = s.e] : o \in SysClose(Ok(s), s.fd)}     \* on an error path

(* d at offset at of the content c, with zeros before it where c is short. *)
Written(c, at, d) ==
    [i \in 1 .. (IF at + Len(d) > Len(c) /\ d # << >> THEN at + Len(d) ELSE Len(c)) |->
        IF i > at /\ i <= at + Len(d) THEN d[i - at] ELSE IF i <= Len(c) THEN c[i] ELSE 0]
Part(c, at, len) == SubSeq(c, at + 1, IF at + len > Len(c) THEN Len(c) ELSE at + len)
(* A negative offset reads and writes at the position, and moves it.       *)
SysWrite(s, fd, d, off) ==
    IF ~IsOpen(s, fd) \/ Od(s, fd).acc = "r" THEN Fail(s, "EBADF")
    ELSE LET od == Od(s, fd)
             at == IF od.app THEN Len(s.fs[od.file]) ELSE IF off < 0 THEN od.pos ELSE off
         IN {[s EXCEPT !.fs[od.file] = Written(@, at, d), !.n = Len(d), !.c = d,
                       !.ods[s.tab[fd]].pos = IF off < 0 THEN at + Len(d) ELSE @]}
            \cup Faulty(s, "EIO")
SysRead(s, fd, len, off) ==
    IF ~IsOpen(s, fd) \/ Od(s, fd).acc = "w" THEN Fail(s, "EBADF")
    ELSE LET od == Od(s, fd)
             at == IF off < 0 THEN od.pos ELSE off
             got == Part(s.fs[od.file], at, len)
         IN {[s EXCEPT !.n = Len(got), !.c = got,
                       !.ods[s.tab[fd]].pos = IF off < 0 THEN at + Len(got) ELSE @]}
            \cup Faulty(s, "EIO")
Place(s, fd, off, whence) ==
    off + (IF whence = "set" THEN 0
           ELSE IF whence = "cur" THEN Od(s, fd).pos ELSE Len(s.fs[Od(s, fd).file]))
SysLseek(s, fd, off, whence) ==
    IF ~IsOpen(s, fd) THEN Fail(s, "EBADF")
    ELSE IF whence = "bad" \/ Place(s, fd, off, whence) < 0 THEN Fail(s, "EINVAL")
    ELSE {[s EXCEPT !.ods[s.tab[fd]].pos = Place(s, fd, off, whence), !.n = Place(s, fd, off, whence)]}
SysFsync(s, fd) == IF IsOpen(s, fd) THEN {s} \cup Faulty(s, "EIO") ELSE Fail(s, "EBADF")
SysFstat(s, fd) == IF IsOpen(s, fd) THEN Ret(s, Len(s.fs[Od(s, fd).file])) \cup Faulty(s, "EIO") ELSE Fail(s, "EBADF")
Resized(s, fd, len) ==
    {[s EXCEPT !.fs[Od(s, fd).file] = [i \in 1 .. len |-> IF i <= Len(@) THEN @[i] ELSE 0]]} \cup Faulty(s, "EIO")
SysFtruncate(s, fd, len) ==
    IF ~IsOpen(s, fd) THEN Fail(s, "EBADF")
    ELSE IF len < 0 \/ Od(s, fd).acc = "r" THEN Fail(s, "EINVAL") ELSE Resized(s, fd, len)
SysFallocate(s, fd, off, len) ==
    IF off < 0 \/ len <= 0 THEN Fail(s, "EINVAL")
    ELSE IF ~IsOpen(s, fd) \/ Od(s, fd).acc = "r" THEN Fail(s, "EBADF")
    ELSE LET size == Len(s.fs[Od(s, fd).file])
         IN Resized(s, fd, IF off + len > size THEN off + len ELSE size)

(* The content of a directory is the sequence of its entries, of which a   *)
(* DIR reads one after the other; Dot stands for "." and "..".             *)
Dot == 0
(* readdir until it has given k entries but for those two (or, for k = 0,  *)
(* all); it may fail at any of them.                                       *)
Readdirs(s, fd, k) ==
    LET text == s.fs[Od(s, fd).file]
        pos == Od(s, fd).pos
        left == SelectSeq(SubSeq(text, pos + 1, Len(text)), LAMBDA x : x # Dot)
        got == IF k = 0 THEN left ELSE Part(left, 0, k)
        end == IF k # 0 /\ Len(got) = k THEN CHOOSE i \in 1 .. Len(text) : text[i] = got[k] ELSE Len(text)
        to(x, at) == [x EXCEPT !.ods[s.tab[fd]].pos = at]
    IN {[to(s, end) EXCEPT !.n = Len(got), !.c = got]}
       \cup {to(x, at) : x \in Faulty(s, "EIO"), at \in pos .. end}

(* flock.  how is "sh", "ex" or "un"; without nb a call that must wait     *)
(* waits.  A lock belongs to the description, not to the number.           *)
SysFlock(s, fd, how, nb) ==
    IF ~IsOpen(s, fd) THEN Fail(s, "EBADF")
    ELSE LET od == s.tab[fd]
             rivals == {l \in s.locks : l.od # od /\ s.ods[l.od].file = Od(s, fd).file
                                        /\ (how = "ex" \/ (how = "sh" /\ l.ex))}
         IN IF rivals = {}
            THEN {[s EXCEPT !.locks = {l \in @ : l.od # od}
                                      \cup (IF how = "un" THEN {} ELSE {[od |-> od, ex |-> how = "ex"]})]}
            ELSE IF nb THEN Fail(s, "EAGAIN") ELSE {}

----------------------------------------------------------------------------
(* Streams of the C library.  A FILE: its number, the bytes it has not     *)
(* written yet, whether it was last read from, whether it has ever met an  *)
(* error (bad, nobody clears it), and how many share it (the last to let   *)
(* go closes it).  Only its FILE moves a descriptor that has   *)
(* one, so that what it reads ahead shows only when it is written to       *)
(* without a seek in between: the bytes then go where it was, or behind    *)
(* all there is.  A closed FILE that is used is an error of its own, "UB". *)
ModeOf(m) == IF m = "r" THEN "r" ELSE IF m = "r+" THEN "rw" ELSE IF m = "w+" THEN "trunc" ELSE "app"
NewFile(s, m) ==
    {[s EXCEPT !.fps = Append(@, [fd |-> s.fd, acc |-> Acc(m), buf |-> << >>, rd |-> FALSE, bad |-> FALSE, refs |-> 1]),
               !.fp = Len(s.fps) + 1, !.ods[s.tab[s.fd]].app = @ \/ m = "a+"]}
Fopen(s, file, m) ==
    IF m = "bad" THEN Fail(s, "EINVAL") ELSE Then(SysOpen(s, file, ModeOf(m)), LAMBDA o : NewFile(o, m))
Fdopen(s, fd, m) ==
    IF m = "bad" THEN Fail(s, "EINVAL")
    ELSE IF ~IsOpen(s, fd) THEN Fail(s, "EBADF")
    ELSE NewFile([s EXCEPT !.fd = fd,
                           !.objs = [i \in DOMAIN @ |-> IF @[i].fd = fd THEN [@[i] EXCEPT !.given = TRUE] ELSE @[i]]], m)
Usable(s, fp, S) == IF s.fps[fp].refs = 0 THEN Fail(s, "UB") ELSE S
Marked(S, fp) == {IF o.e \in {"OK", "UB"} THEN o ELSE [o EXCEPT !.fps[fp].bad = TRUE] : o \in S}
Ferror(S, fp) == UNION {IF o.e = "OK" /\ o.fps[fp].bad THEN Fail(o, "EIO") ELSE {o} : o \in S}
(* What could not be written is dropped.                                   *)
Fflush(s, fp) ==
    LET b == s.fps[fp].buf
        empty == [s EXCEPT !.fps[fp].buf = << >>]
    IN Usable(s, fp, IF b = << >> THEN {s} ELSE Marked(SysWrite(empty, s.fps[fp].fd, b, -1), fp))
Fseek(s, fp, off, whence) ==
    Then(Fflush(s, fp),
         LAMBDA o : SysLseek([o EXCEPT !.fps[fp].rd = FALSE], o.fps[fp].fd, off, whence))
Ftell(s, fp) == {[s EXCEPT !.n = Place(s, s.fps[fp].fd, Len(s.fps[fp].buf), "cur")]}
Fwrite(s, fp, d) ==
    LET fd == s.fps[fp].fd
        add(x) == [x EXCEPT !.fps[fp].buf = @ \o d, !.fps[fp].rd = FALSE, !.n = Len(d)]
        ahead == [s EXCEPT !.ods[s.tab[fd]].pos = Len(s.fs[Od(s, fd).file])]
    IN Usable(s, fp, IF s.fps[fp].acc = "r" THEN Marked(Fail(s, "EBADF"), fp)
                     ELSE {add(s)} \cup (IF s.fps[fp].rd THEN {add(ahead)} ELSE {}))
Fread(s, fp, len) ==
    Then(Fflush(s, fp), LAMBDA o : Marked(SysRead([o EXCEPT !.fps[fp].rd = TRUE], o.fps[fp].fd, len, -1), fp))
(* The bytes a failing write loses are no concern of the one who closes.   *)
Fclose(s, fp) ==
    After(Fflush([s EXCEPT !.fps[fp].refs = 1], fp),
          LAMBDA o : {[x EXCEPT !.fps[fp].refs = 0, !.fps[fp].rd = FALSE] : x \in SysClose(Ok(o), o.fps[fp].fd)})
Share(s, fp) == [s EXCEPT !.fps[fp].refs = @ + 1]
LetGo(s, fp) ==       \* an owner of a shared_ptr<FILE> is done with it
    IF s.fps[fp].refs > 1 THEN {[s EXCEPT !.fps[fp].refs = @ - 1]}
    ELSE {[x EXCEPT !.e = s.e] : x \in Fclose(Ok(s), fp)}

----------------------------------------------------------------------------
(* The objects of a program.  live: it still has its entity.  od is the    *)
(* description its number stood for when it was made; given says that the  *)
(* program has handed the number to a stream, shut how it has closed the   *)
(* object: itself ("obj"), its number ("num") or not at all (""), of the   *)
(* binding that it is an object of.                                        *)
FileObj(fd, od, uri) ==
    [k |-> "file", live |-> TRUE, fd |-> fd, od |-> od, uri |-> uri, fp |-> 0, ptr |-> 0, start |-> -1, end |-> -1,
     given |-> FALSE, shut |-> "", of |-> ""]
RafObj(fd, od, start, end) == [FileObj(fd, od, FALSE) EXCEPT !.k = "raf", !.start = start, !.end = end]
StreamObj(fp, fd, od) == [FileObj(fd, od, FALSE) EXCEPT !.k = "stream", !.fp = fp]
DirObj(fd, od) == [FileObj(fd, od, FALSE) EXCEPT !.k = "dir"]
Made(s, obj) == {[s EXCEPT !.objs = Append(@, obj), !.o = Len(s.objs) + 1, !.fd = NoFd, !.fp = 0]}
MadeFile(s, uri) == Made(s, FileObj(s.fd, s.tab[s.fd], uri))
MadeRaf(s, start, end) == Made(s, RafObj(s.fd, s.tab[s.fd], start, end))
MadeStream(s) == Made(s, StreamObj(s.fp, s.fps[s.fp].fd, s.tab[s.fps[s.fp].fd]))
MadeDir(s) == Made(s, DirObj(s.fd, s.tab[s.fd]))
(* The number of o becomes the number of a new object of another binding.  *)
HandedOver(s, o, of) == Made([s EXCEPT !.objs[o].fd = NoFd], [s.objs[o] EXCEPT !.of = of])
Dead(s, o) == [s EXCEPT !.objs[o].live = FALSE]
Live(s, o) == s.objs[o].live
============================================================================

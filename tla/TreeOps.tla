------------------------------ MODULE TreeOps ------------------------------
(***************************************************************************)
(* copyFile, moveFile, copyDir and moveDir, first of the dynamic binding:  *)
(* copy_file.cpp, move.cpp, copydir.cpp and movedir.cpp of src/interfaces/ *)
(* kits/js/src/mod_fs/properties.  The answer of the two that walk trees   *)
(* carries the pairs of files that were in each other's way (cf).          *)
(***************************************************************************)
EXTENDS CorePathOps

IsDirectory(fs, p) == Kind(fs, Follow(fs, p)) = "dir"     \* is_directory(status(p))
Exists(fs, p) == Has(fs, Follow(fs, p))                   \* a link to nothing does not exist
RemovePath(s, p) == FsRemove(s, p)
FirstOf(Q) == CHOOSE q \in Q : \A r \in Q : Last(q) <= Last(r)

----------------------------------------------------------------------------
(* copyFile.  An operand is [fd, p]: a path, or a descriptor of the caller *)
(* that is open on p.  Between two paths the work is copy_file's.          *)
IsAllPath(s, p, q) == FsCopyFile(s, p, q, TRUE)
OpenCore(s, p, flags) == Then(NewReq(s), LAMBDA r : FsOpen(r, p, flags))
SendFileCore(s, from, to) ==
    Then(NewReq(s), LAMBDA r : Then(FsSendfile(r, from, to),
                                    LAMBDA o : IF o.n < Len(r.fs[from].c) THEN Fail(o, "EIO") ELSE {o}))
CopyTruncateCore(s, q) == Then(NewReq(s), LAMBDA r : FsFtruncate(r, q, 0))

(* The source is measured first; when it is the destination as well, what  *)
(* truncated it leaves nothing to send.                                    *)
CopyOpenFile(s, src, dest) ==
    CloseAll(
      Then(IF src.fd THEN {[s EXCEPT !.p = src.p]} ELSE OpenCore(s, src.p, {"r"}),
           LAMBDA o :
             LET from == o.p
                 size == Len(o.fs[from].c)
             IN Then(IF dest.fd THEN Then(CopyTruncateCore(o, dest.p), LAMBDA t : {[t EXCEPT !.p = dest.p]})
                     ELSE OpenCore(o, dest.p, {"r", "w", "creat", "trunc"}),
                     LAMBDA d : IF size = 0 THEN {d}
                                ELSE IF Len(d.fs[from].c) < size THEN Fail(d, "EIO")
                                ELSE SendFileCore(d, from, d.p))))
(* As it would be with the source of a copy that fails left open.          *)
CopyFileExecKeepsFd(s, src, dest) ==
    IF ~src.fd /\ ~dest.fd THEN IsAllPath(s, src.p, dest.p)
    ELSE {IF o.e # "OK" /\ ~src.fd THEN [o EXCEPT !.fd = 1] ELSE o : o \in CopyOpenFile(s, src, dest)}
CopyFileParams(src, dest, mode) == IsPath(src.p) /\ IsPath(dest.p) /\ mode = 0
CopyFileExec(s, src, dest) ==
    IF ~src.fd /\ ~dest.fd THEN IsAllPath(s, src.p, dest.p) ELSE CopyOpenFile(s, src, dest)
CopyFileSync(s, src, dest, mode) ==
    Params(s, CopyFileParams(src, dest, mode), CopyFileExec(s, src, dest))
CopyFileAsync(s, src, dest, mode) == ScheduledWith(s, CopyFileParams(src, dest, mode))

----------------------------------------------------------------------------
(* moveFile.  mode 0 replaces what is there, 1 reports it.                 *)
CheckDir(fs, p) == IsDirectory(fs, p)
MoveParams(fs, p, q, mode) ==
    IsPath(p) /\ ~CheckDir(fs, p) /\ IsPath(q) /\ ~CheckDir(fs, q) /\ mode \in {0, 1}

(* Between devices: copy, then unlink the source; when that fails, what    *)
(* was copied is unlinked again.                                           *)
MoveCopyAndDelete(s, p, q) ==
    Then(Then(NewReq(s), LAMBDA r : FsStat(r, p)),
      LAMBDA o : Then(IF Exists(o.fs, q) THEN FsRemove(o, q) ELSE {o},
        LAMBDA x : Then(FsCopyFile(x, p, q, TRUE),
          LAMBDA c : After(FsUnlink(c, p),
            LAMBDA u : IF u.e = "OK" THEN {u}
                       ELSE After(FsUnlink(Ok(u), q),
                                  LAMBDA b : IF b.e = "OK" THEN Fail(b, u.e) ELSE {b})))))
MoveRenameFile(s, p, q) ==
    After(FsRename(s, p, q),
          LAMBDA o : IF o.e = "EXDEV" THEN MoveCopyAndDelete(Ok(o), p, q) ELSE {o})
MoveFile(s, p, q, mode) ==
    IF mode = 1
    THEN After(FsAccess(s, q, "exist"),
               LAMBDA o : IF o.e = "OK" THEN Fail(o, "EEXIST")
                          ELSE IF o.e # "ENOENT" THEN {o} ELSE MoveRenameFile(Ok(o), p, q))
    ELSE MoveRenameFile(s, p, q)
MoveFileSync(s, p, q, mode) == Params(s, MoveParams(s.fs, p, q, mode), MoveFile(s, p, q, mode))
MoveFileAsync(s, p, q, mode) == Scheduled(s, MoveParams(s.fs, p, q, mode))

----------------------------------------------------------------------------
(* copyDir.  mode 0 reports the files that are there, 1 replaces them.     *)
AllowToCopy(p, q) == ~Under(p, q) /\ ~(p # Root /\ q = Parent(p))
CopyDirParams(fs, p, q, mode) ==
    /\ IsPath(p) /\ IsDirectory(fs, p) /\ IsPath(q) /\ IsDirectory(fs, q)
    /\ AllowToCopy(p, q) /\ mode \in {0, 1}
MakeDir(s, p) == FsCreateDirectory(s, p)
RemoveFile(s, p) == FsRemove(s, p)
(* As it would be if a file in the way were passed over in silence.        *)
CopyFileSkips(s, p, q, mode) ==
    IF Exists(s.fs, q) /\ mode = 0 THEN {s}
    ELSE Then(IF Exists(s.fs, q) THEN RemoveFile(s, q) ELSE {s}, LAMBDA o : FsCopyFile(o, p, q, TRUE))
CopyFile(s, p, q, mode) ==
    Then(IF ~Exists(s.fs, q) THEN {s} ELSE IF mode = 0 THEN Fail(s, "EEXIST") ELSE RemoveFile(s, q),
         LAMBDA o : FsCopyFile(o, p, q, TRUE))

RECURSIVE RecurCopyDir(_, _, _, _), CopyEach(_, _, _, _)
CopySubDir(s, p, q, mode) ==
    Then(IF Exists(s.fs, q) THEN {s} ELSE MakeDir(s, q), LAMBDA o : RecurCopyDir(o, p, q, mode))
CopyOne(s, p, q, mode) ==
    IF s.fs[p].k = "dir" THEN CopySubDir(s, p, q, mode)
    ELSE After(CopyFile(s, p, q, mode),
               LAMBDA o : IF o.e = "EEXIST" THEN {[Ok(o) EXCEPT !.cf = @ \cup {<<p, q>>}]} ELSE {o})
CopyEach(s, todo, q, mode) ==
    IF todo = {} THEN {s}
    ELSE LET x == FirstOf(todo)
         IN Then(CopyOne(s, x, q \o <<Last(x)>>, mode), LAMBDA o : CopyEach(o, todo \ {x}, q, mode))
RecurCopyDir(s, p, q, mode) ==
    Then(Then(NewReq(s), LAMBDA r : FsScandir(r, p)), LAMBDA o : CopyEach(o, o.ps, q, mode))
CopyDirFunc(s, p, q, mode) ==
    LET destStr == q \o <<Last(p)>>
    IN Then(Then(IF Exists(s.fs, destStr) THEN {s} ELSE MakeDir(s, destStr),
                 LAMBDA o : RecurCopyDir(o, p, destStr, mode)),
            LAMBDA o : IF o.cf # {} THEN Fail(o, "EEXIST") ELSE {o})
CopyDirSync(s, p, q, mode) == Params(s, CopyDirParams(s.fs, p, q, mode), CopyDirFunc(s, p, q, mode))
CopyDirAsync(s, p, q, mode) == ScheduledWith(s, CopyDirParams(s.fs, p, q, mode))

----------------------------------------------------------------------------
(* moveDir.  mode 0 refuses a destination that is not empty, 1 reports the *)
(* files that are there, 2 replaces them, 3 replaces the directory.        *)
JudgeNotEmpty(fs, p) == Exists(fs, p) /\ ~EmptyDir(fs, Follow(fs, p))
RmDirectory(s, p) == IF Exists(s.fs, p) THEN FsRemoveAll(s, p) ELSE {s}
MoveDirParams(fs, p, q, mode) ==
    IsPath(p) /\ IsDirectory(fs, p) /\ IsPath(q) /\ IsDirectory(fs, q) /\ mode \in 0 .. 3
(* As it would be with the two files the wrong way round.                  *)
ConflictSwapped(s, p, q) == {[s EXCEPT !.cf = @ \cup {<<q, p>>}]}
Conflict(s, p, q) == {[s EXCEPT !.cf = @ \cup {<<p, q>>}]}
(* As it would be with the source removed before the copy.                 *)
CopyAndDeleteEarly(s, p, q) ==
    After(FsCopyFile(s, p, q, TRUE), LAMBDA c : Then(RemovePath(Ok(c), p), LAMBDA u : {[u EXCEPT !.e = c.e]}))
CopyAndDeleteFile(s, p, q) ==
    Then(Then(IF Exists(s.fs, q) THEN RemovePath(s, q) ELSE {s}, LAMBDA o : FsCopyFile(o, p, q, TRUE)),
         LAMBDA c : RemovePath(c, p))
RenameFile(s, p, q, mode) ==
    IF Exists(s.fs, q) /\ (IsDirectory(s.fs, q) \/ mode = 1) THEN Conflict(s, p, q)
    ELSE After(FsRename(s, p, q),
               LAMBDA o : IF o.e = "EXDEV" THEN CopyAndDeleteFile(Ok(o), p, q) ELSE {o})

RECURSIVE RecurMoveDir(_, _, _, _), MoveEach(_, _, _, _)
RenameDir(s, p, q, mode) ==
    IF Exists(s.fs, q) THEN RecurMoveDir(s, p, q, mode)
    ELSE After(FsRename(s, p, q),
               LAMBDA o : IF o.e # "EXDEV" THEN {o}
                          ELSE Then(FsCreateDirectory(Ok(o), q),
                                    LAMBDA d : IF d.v = "no" THEN {d} ELSE RecurMoveDir(d, p, q, mode)))
MoveOne(s, p, q, mode) ==
    IF s.fs[p].k # "dir" THEN RenameFile(s, p, q, mode)
    ELSE Then(RenameDir(s, p, q, mode), LAMBDA o : IF o.cf # s.cf THEN {o} ELSE RemovePath(o, p))
MoveEach(s, todo, q, mode) ==
    IF todo = {} THEN {s}
    ELSE LET x == FirstOf(todo)
         IN Then(MoveOne(s, x, q \o <<Last(x)>>, mode), LAMBDA o : MoveEach(o, todo \ {x}, q, mode))

(* The result of scandir is not tested: one that failed has no entries.    *)
RecurMoveDir(s, p, q, mode) ==
    IF ~IsDirectory(s.fs, q) THEN Conflict(s, p, q)
    ELSE Then(NewReq(s),
              LAMBDA r : After(FsScandir(r, p),
                               LAMBDA o : MoveEach(Ok(o), IF o.e = "OK" THEN o.ps ELSE {}, q, mode)))
MoveDirFunc(s, p, q, mode) ==
    LET destStr == q \o <<Last(p)>>
        full == JudgeNotEmpty(s.fs, destStr)
    IN IF full /\ mode = 0 THEN Fail(s, "ENOTEMPTY")
       ELSE Then(Then(IF full /\ mode = 3 THEN RmDirectory(s, destStr) ELSE {s},
                      LAMBDA o : RenameDir(o, p, destStr, mode)),
                 LAMBDA o : IF o.cf # {} THEN Fail(o, "EEXIST") ELSE RmDirectory(o, p))
MoveDirSync(s, p, q, mode) == Params(s, MoveDirParams(s.fs, p, q, mode), MoveDirFunc(s, p, q, mode))
MoveDirAsync(s, p, q, mode) == ScheduledWith(s, MoveDirParams(s.fs, p, q, mode))

----------------------------------------------------------------------------
(* The static binding: copy_file_core.cpp, move_core.cpp, copy_dir_core.cpp *)
(* and movedir_core.cpp of the same directory and what properties/ani puts *)
(* around them.  The functions that are those of the dynamic binding       *)
(* statement by statement are named and not repeated.                      *)

CoreIsAllPath(s, p, q) == IsAllPath(s, p, q)
CoreOpenFile2(s, src, dest) == CopyOpenFile(s, src, dest)
DoCopyFile(s, src, dest, mode) ==
    Valid(s, mode = 0,
          IF ~src.fd /\ ~dest.fd THEN CoreIsAllPath(s, src.p, dest.p) ELSE CoreOpenFile2(s, src, dest))

(* Unlike the dynamic binding, the source has to be writable.              *)
ValidMoveArg(fs, p, q, mode) == ~CheckDir(fs, p) /\ ~CheckDir(fs, q) /\ mode \in {0, 1}
CoreMoveCopyAndDelete(s, p, q) == MoveCopyAndDelete(s, p, q)
CoreMoveRenameFile(s, p, q) ==
    After(FsRename(s, p, q),
          LAMBDA o : IF o.e = "EXDEV" THEN CoreMoveCopyAndDelete(Ok(o), p, q) ELSE {o})
CoreMoveFile(s, p, q, mode) ==
    Then(FsAccess(s, p, "w"),
         LAMBDA w : IF mode = 0 THEN CoreMoveRenameFile(w, p, q)
                    ELSE After(FsAccess(w, q, "exist"),
                               LAMBDA o : IF o.e = "OK" THEN Fail(o, "EEXIST")
                                          ELSE IF o.e # "ENOENT" THEN {o}
                                          ELSE CoreMoveRenameFile(Ok(o), p, q)))
DoMove(s, p, q, mode) == Valid(s, ValidMoveArg(s.fs, p, q, mode), CoreMoveFile(s, p, q, mode))

----------------------------------------------------------------------------
ParseAndCheckOperand(fs, p, q, mode) ==
    IsDirectory(fs, p) /\ IsDirectory(fs, q) /\ AllowToCopy(p, q) /\ mode \in {0, 1}
(* As it would be with a conflict ending the copy at once.                 *)
CoreCopyDirStops(s, p, q, mode) ==
    LET all == CopyDirFunc(s, p, q, mode) IN {IF o.e = "EEXIST" THEN [o EXCEPT !.cf = {}] ELSE o : o \in all}
CoreCopyDirFunc(s, p, q, mode) == CopyDirFunc(s, p, q, mode)
DoCopyDir(s, p, q, mode) ==
    Valid(s, ParseAndCheckOperand(s.fs, p, q, mode), CoreCopyDirFunc(s, p, q, mode))

ValidMoveDirArg(fs, p, q, mode) == IsDirectory(fs, p) /\ IsDirectory(fs, q) /\ mode \in 0 .. 3
CoreJudgeNotEmpty(fs, p) == JudgeNotEmpty(fs, p)
CoreRmDirectory(s, p) == RmDirectory(s, p)
CoreRenameDir(s, p, q, mode) == RenameDir(s, p, q, mode)
CoreMoveDirFunc(s, p, q, mode) ==
    LET destStr == q \o <<Last(p)>>
        full == CoreJudgeNotEmpty(s.fs, destStr)
    IN IF full /\ mode = 0 THEN Fail(s, "ENOTEMPTY")
       ELSE Then(Then(IF full /\ mode = 3 THEN CoreRmDirectory(s, destStr) ELSE {s},
                      LAMBDA o : CoreRenameDir(o, p, destStr, mode)),
                 LAMBDA o : IF o.cf # {} THEN Fail(o, "EEXIST") ELSE CoreRmDirectory(o, p))
DoMoveDir(s, p, q, mode) ==
    Valid(s, ValidMoveDirArg(s.fs, p, q, mode), CoreMoveDirFunc(s, p, q, mode))

----------------------------------------------------------------------------
(* The conflicts of a failure become an array; when that fails, so does    *)
(* the report of the error itself.                                         *)
ToConflictFilesArray(S) ==
    UNION {IF o.cf = {} THEN {o} ELSE {o} \cup Faulty(o, "UNKNOWN") : o \in S}
AniCopyFile(s, src, dest, mode) ==
    ToUTF8String(s, src.p, ToUTF8String(s, dest.p, DoCopyFile(s, src, dest, mode)))
AniMoveFile(s, p, q, mode) == ToUTF8String(s, p, ToUTF8String(s, q, DoMove(s, p, q, mode)))
AniCopyDir(s, p, q, mode) ==
    ToUTF8String(s, p, ToUTF8String(s, q, ToConflictFilesArray(DoCopyDir(s, p, q, mode))))
AniMoveDir(s, p, q, mode) ==
    ToUTF8String(s, p, ToUTF8String(s, q, ToConflictFilesArray(DoMoveDir(s, p, q, mode))))

----------------------------------------------------------------------------
(* The Cangjie binding: copy_file.cpp, move_file.cpp, copy_dir.cpp and the *)
(* functions of moveDir in file_fs_impl.cpp, all of src/interfaces/kits/cj *)
(* /src.                                                                   *)

(* Opening and truncating answer 1, the errno EPERM, whatever went wrong.  *)
AsOne(S) == {IF o.e = "OK" THEN o ELSE [o EXCEPT !.e = "EPERM"] : o \in S}
CjIsAllPath(s, p, q) == FsCopyFile(s, p, q, TRUE)
CjOpenCore(s, p, flags) == AsOne(Then(NewReq(s), LAMBDA r : FsOpen(r, p, flags)))
CjTruncateCore(s, q) == AsOne(Then(NewReq(s), LAMBDA r : FsFtruncate(r, q, 0)))
CjSendFileCore(s, from, to) == SendFileCore(s, from, to)
CjOpenFile(s, src, dest) ==
    CloseAll(
      Then(IF src.fd THEN {[s EXCEPT !.p = src.p]} ELSE CjOpenCore(s, src.p, {"r"}),
           LAMBDA o :
             LET from == o.p
                 size == Len(o.fs[from].c)
             IN Then(IF dest.fd THEN Then(CjTruncateCore(o, dest.p), LAMBDA t : {[t EXCEPT !.p = dest.p]})
                     ELSE CjOpenCore(o, dest.p, {"r", "w", "creat", "trunc"}),
                     LAMBDA d : IF size = 0 THEN {d}
                                ELSE IF Len(d.fs[from].c) < size THEN Fail(d, "EIO")
                                ELSE CjSendFileCore(d, from, d.p))))
CjCopyFile(s, src, dest) ==
    IF ~src.fd /\ ~dest.fd THEN CjIsAllPath(s, src.p, dest.p) ELSE CjOpenFile(s, src, dest)

----------------------------------------------------------------------------
(* The time of the source goes with the file.                              *)
ChangeTime(s, q, time) == Then(NewReq(s), LAMBDA r : FsUtime(r, q, time))
CjMoveCopyAndDelete(s, p, q) ==
    Then(Then(NewReq(s), LAMBDA r : FsStat(r, p)),
      LAMBDA o : LET time == o.fs[Follow(o.fs, p)].m
        IN Then(IF Exists(o.fs, q) THEN FsRemove(o, q) ELSE {o},
          LAMBDA x : Then(FsCopyFile(x, p, q, TRUE),
            LAMBDA c : After(FsUnlink(c, p),
              LAMBDA u : IF u.e = "OK" THEN ChangeTime(u, q, time)
                         ELSE After(FsUnlink(Ok(u), q),
                                    LAMBDA b : IF b.e = "OK" THEN Fail(b, u.e) ELSE {b})))))
CjMoveRenameFile(s, p, q) ==
    After(FsRename(s, p, q),
          LAMBDA o : IF o.e = "EXDEV" THEN CjMoveCopyAndDelete(Ok(o), p, q) ELSE {o})
CjMoveFile(s, p, q, mode) ==
    Params(s, ~CheckDir(s.fs, p) /\ ~CheckDir(s.fs, q),
           Then(FsAccess(s, p, "w"),
                LAMBDA w : IF mode # 1 THEN CjMoveRenameFile(w, p, q)
                           ELSE After(FsAccess(w, q, "exist"),
                                      LAMBDA o : IF o.e = "OK" THEN Fail(o, "EEXIST")
                                                 ELSE IF o.e # "ENOENT" THEN {o}
                                                 ELSE CjMoveRenameFile(Ok(o), p, q))))

----------------------------------------------------------------------------
(* Neither the source nor the result of scandir is looked at: a source     *)
(* that is not there is copied as an empty directory.                      *)
CjAllowToCopy(p, q) == AllowToCopy(p, q)
CjCopyDirCopyFile(s, p, q, mode) == CopyFile(s, p, q, mode)
RECURSIVE CjRecurCopyDir(_, _, _, _), CjCopyEach(_, _, _, _)
CjCopySubDir(s, p, q, mode) ==
    Then(IF Exists(s.fs, q) THEN {s} ELSE MakeDir(s, q), LAMBDA o : CjRecurCopyDir(o, p, q, mode))
CjCopyEach(s, todo, q, mode) ==
    IF todo = {} THEN {s}
    ELSE LET x == FirstOf(todo)
             y == q \o <<Last(x)>>
         IN Then(IF s.fs[x].k = "dir" THEN CjCopySubDir(s, x, y, mode)
                 ELSE After(CjCopyDirCopyFile(s, x, y, mode),
                            LAMBDA o : IF o.e = "EEXIST" THEN Conflict(Ok(o), x, y) ELSE {o}),
                 LAMBDA o : CjCopyEach(o, todo \ {x}, q, mode))
CjRecurCopyDir(s, p, q, mode) ==
    Then(NewReq(s),
         LAMBDA r : After(FsScandir(r, p),
                          LAMBDA o : CjCopyEach(Ok(o), IF o.e = "OK" THEN o.ps ELSE {}, q, mode)))
CjCopyDirFunc(s, p, q, mode) ==
    LET destStr == q \o <<Last(p)>>
    IN Then(Then(IF Exists(s.fs, destStr) THEN {s} ELSE MakeDir(s, destStr),
                 LAMBDA o : CjRecurCopyDir(o, p, destStr, mode)),
            LAMBDA o : IF o.cf # {} THEN Fail(o, "EEXIST") ELSE {o})
CjCopyDir(s, p, q, mode) ==
    Params(s, IsDirectory(s.fs, q) /\ CjAllowToCopy(p, q) /\ mode \in {0, 1}, CjCopyDirFunc(s, p, q, mode))

----------------------------------------------------------------------------
CjJudgeNotEmpty(fs, p) == JudgeNotEmpty(fs, p)
CjRmDirectory(s, p) == RmDirectory(s, p)
RestoreTime(s, p, q) ==
    Then(Then(NewReq(s), LAMBDA r : FsStat(r, p)),
         LAMBDA o : Then(NewReq(o), LAMBDA r : FsUtime(r, q, r.fs[Follow(r.fs, p)].m)))
CjRemovePath(s, p) == FsRemove(s, p)
CjCopyAndDeleteFile(s, p, q) ==
    Then(Then(Then(IF Exists(s.fs, q) THEN CjRemovePath(s, q) ELSE {s}, LAMBDA o : FsCopyFile(o, p, q, TRUE)),
              LAMBDA c : RestoreTime(c, p, q)),
         LAMBDA t : CjRemovePath(t, p))
CjRenameFile(s, p, q, mode) ==
    IF Exists(s.fs, q) /\ (IsDirectory(s.fs, q) \/ mode = 1) THEN Conflict(s, p, q)
    ELSE After(FsRename(s, p, q),
               LAMBDA o : IF o.e = "EXDEV" THEN CjCopyAndDeleteFile(Ok(o), p, q) ELSE {o})
RECURSIVE CjRecurMoveDir(_, _, _, _), CjMoveEach(_, _, _, _)
CjRenameDir(s, p, q, mode) ==
    IF Exists(s.fs, q) THEN CjRecurMoveDir(s, p, q, mode)
    ELSE After(FsRename(s, p, q),
               LAMBDA o : IF o.e # "EXDEV" THEN {o}
                          ELSE Then(FsCreateDirectory(Ok(o), q),
                                    LAMBDA d : IF d.v = "no" THEN {d}
                                               ELSE Then(RestoreTime(d, p, q),
                                                         LAMBDA t : CjRecurMoveDir(t, p, q, mode))))
CjMoveEach(s, todo, q, mode) ==
    IF todo = {} THEN {s}
    ELSE LET x == FirstOf(todo)
             y == q \o <<Last(x)>>
         IN Then(IF s.fs[x].k # "dir" THEN CjRenameFile(s, x, y, mode)
                 ELSE Then(CjRenameDir(s, x, y, mode),
                           LAMBDA o : IF o.cf # s.cf THEN {o} ELSE CjRemovePath(o, x)),
                 LAMBDA o : CjMoveEach(o, todo \ {x}, q, mode))
CjRecurMoveDir(s, p, q, mode) ==
    IF ~IsDirectory(s.fs, q) THEN Conflict(s, p, q)
    ELSE After(FsScandir(s, p),
               LAMBDA o : CjMoveEach(Ok(o), IF o.e = "OK" THEN o.ps ELSE {}, q, mode))
CjMoveDirFunc(s, p, q, mode) ==
    LET destStr == q \o <<Last(p)>>
        full == CjJudgeNotEmpty(s.fs, destStr)
    IN Then(FsAccess(s, p, "w"),
         LAMBDA w : IF full /\ mode = 0 THEN Fail(w, "ENOTEMPTY")
           ELSE Then(Then(IF full /\ mode = 3 THEN CjRmDirectory(w, destStr) ELSE {w},
                          LAMBDA o : CjRenameDir(o, p, destStr, mode)),
                     LAMBDA o : IF o.cf # {} THEN Fail(o, "EEXIST") ELSE CjRmDirectory(o, p)))
CjMoveDir(s, p, q, mode) ==
    Params(s, IsDirectory(s.fs, p) /\ IsDirectory(s.fs, q) /\ mode \in 0 .. 3, CjMoveDirFunc(s, p, q, mode))

=============================================================================

------------------------------ MODULE PosixFs ------------------------------
(***************************************************************************)
(* What the file interfaces of src/interfaces/kits take from the system:   *)
(* the calls of libuv, libc and std::filesystem over a tree of files, as   *)
(* far as those interfaces use them.  Nothing here is this repository's    *)
(* code; the modules of operations are written over it.                    *)
(*                                                                         *)
(* An operation maps a state s to the SET of its outcomes.  A state is a   *)
(* record: fs the tree, fd the descriptors the call under way holds, f the *)
(* errors of which the environment may still inject one (EIO, ENOMEM for   *)
(* an allocation, EMFILE for the listing of a directory, UNKNOWN for the   *)
(* making of a value of the caller's; SHORT is no error but a transfer of  *)
(* fewer bytes than were asked for) and e the error met ("OK" while there  *)
(* is none).  Then(S, Op) goes on with Op where S met no error, which is   *)
(* how an early return is written.                                         *)
(* The fields v, p, n, c and ps are what the call last returned: a word, a *)
(* path, a number, a content and a set of paths; cf collects the pairs of  *)
(* paths a move or a copy of a directory reports as conflicts, and met is  *)
(* the error the environment did inject ("none" while it has not).         *)
(***************************************************************************)
EXTENDS Integers, Sequences, FiniteSets, SequencesExt

CONSTANTS Names,      \* the names of directory entries: numbers, in the order of alphasort
          Mounts      \* the directories at which another device is mounted

Root == << >>
NotAPath == <<-1>>                  \* an argument that is no string
EmptyPath == <<0>>                  \* the empty string

(***************************************************************************)
(* A node: k its kind, c its content, t the target of a link, w whether    *)
(* the process may write it, x its extended attribute ("" when it has      *)
(* none), m its time of modification.  A tree maps the paths there may be, *)
(* a bound of the model, to nodes.                                         *)
(***************************************************************************)
Node(k, c, t) == [k |-> k, c |-> c, t |-> t, w |-> TRUE, x |-> "", m |-> 0]
NoNode == Node("none", << >>, Root)
DirNode == Node("dir", << >>, Root)
FileNode(c) == Node("file", c, Root)
LinkNode(t) == Node("link", << >>, t)

Has(fs, p) == p \in DOMAIN fs /\ fs[p].k # "none"
Kind(fs, p) == IF p \in DOMAIN fs THEN fs[p].k ELSE "none"
Under(p, q) == IsPrefix(p, q)                      \* q is p or below it
StrictlyUnder(p, q) == p # q /\ IsPrefix(p, q)
Parent(p) == Front(p)
Children(fs, p) ==
    {q \in DOMAIN fs : Len(q) = Len(p) + 1 /\ Under(p, q) /\ Has(fs, q)}
Subtree(fs, p) == {q \in DOMAIN fs : Under(p, q) /\ Has(fs, q)}
EmptyDir(fs, p) == Kind(fs, p) = "dir" /\ Children(fs, p) = {}
Device(p) == {m \in Mounts : Under(m, p)}
LinkTo(fs, p) == IF Kind(fs, p) = "link" THEN fs[p].t ELSE p
Follow(fs, p) == LinkTo(fs, LinkTo(fs, p))         \* a link to a link is the most there is

(* What stands in the way of reaching p: "OK" when p exists.               *)
Lookup(fs, p) ==
    IF Has(fs, p) THEN "OK"
    ELSE IF \E n \in 1 .. Len(p) - 1 : Kind(fs, SubSeq(p, 1, n)) = "file"
         THEN "ENOTDIR" ELSE "ENOENT"

(* What stands in the way of making an entry p.                            *)
Makeable(fs, p) ==
    IF p = EmptyPath THEN "ENOENT"
    ELSE IF p = Root \/ Has(fs, p) THEN "EEXIST"
    ELSE IF Kind(fs, Parent(p)) = "dir"
         THEN IF p \in DOMAIN fs THEN "OK" ELSE "ENAMETOOLONG"
         ELSE IF Kind(fs, Parent(p)) = "none" THEN Lookup(fs, Parent(p)) ELSE "ENOTDIR"

(***************************************************************************)
(* Outcomes.                                                               *)
(***************************************************************************)
Start(fs, faults) ==
    [fs |-> fs, fd |-> 0, f |-> faults, e |-> "OK",
     v |-> "none", p |-> Root, n |-> 0, c |-> << >>, ps |-> {}, cf |-> {}, met |-> "none"]
Ret(s, v) == {[s EXCEPT !.v = v]}
Fail(s, e) == {[s EXCEPT !.e = e]}
Faulty(s, e) == IF e \in s.f THEN {[s EXCEPT !.e = e, !.f = {}, !.met = e]} ELSE {}
Done(s, fs) == {[s EXCEPT !.fs = fs]} \cup Faulty(s, "EIO")
Read(s, r) == {r} \cup Faulty(s, "EIO")            \* r is s with what was read
Check(s, e, S) == IF e = "OK" THEN S ELSE Fail(s, e)

Then(S, Op(_)) == UNION {IF o.e = "OK" THEN Op(o) ELSE {o} : o \in S}
After(S, Op(_)) == UNION {Op(o) : o \in S}
Ok(s) == [s EXCEPT !.e = "OK"]

(* An allocation (a request of libuv, a shared object) may fail.           *)
NewReq(s) == {s} \cup Faulty(s, "ENOMEM")

(***************************************************************************)
(* Calls that read.                                                        *)
(***************************************************************************)
FsAccess(s, p, mode) ==
    LET q == Follow(s.fs, p)
        denied == mode = "w" /\ Has(s.fs, q) /\ ~s.fs[q].w
    IN Check(s, Lookup(s.fs, q), IF denied THEN Fail(s, "EACCES") ELSE Read(s, [s EXCEPT !.v = "yes"]))
FsLstat(s, p) ==
    Check(s, Lookup(s.fs, p),
          Read(s, [s EXCEPT !.v = s.fs[p].k, !.n = Len(s.fs[p].c)]))
FsStat(s, p) == FsLstat(s, Follow(s.fs, p))
FsScandir(s, p) ==
    LET q == Follow(s.fs, p)
    IN Check(s, Lookup(s.fs, q),
             IF s.fs[q].k # "dir" THEN Fail(s, "ENOTDIR")
             ELSE {[s EXCEPT !.ps = Children(s.fs, q)]} \cup Faulty(s, "EMFILE"))
FsGetxattr(s, p) ==
    LET q == Follow(s.fs, p)
    IN Check(s, Lookup(s.fs, q),
             IF s.fs[q].x = "" THEN Fail(s, "ENODATA") ELSE Read(s, [s EXCEPT !.v = s.fs[q].x]))

(***************************************************************************)
(* Calls that change the tree.                                             *)
(***************************************************************************)
Put(fs, p, n) == [fs EXCEPT ![p] = n]
Without(fs, P) == [q \in DOMAIN fs |-> IF q \in P THEN NoNode ELSE fs[q]]
Rebase(r, p, q) == q \o SubSeq(r, Len(p) + 1, Len(r))     \* r below p, as below q
Moved(fs, p, q) ==
    [r \in DOMAIN fs |->
        IF Under(q, r) /\ Rebase(r, q, p) \in DOMAIN fs THEN fs[Rebase(r, q, p)]
        ELSE IF Under(p, r) \/ Under(q, r) THEN NoNode ELSE fs[r]]
Fits(fs, p, q) == \A r \in Subtree(fs, p) : Rebase(r, p, q) \in DOMAIN fs

FsMkdir(s, p) == Check(s, Makeable(s.fs, p), Done(s, Put(s.fs, p, DirNode)))
FsSymlink(s, target, p) ==
    Check(s, Makeable(s.fs, p), Done(s, Put(s.fs, p, LinkNode(target))))
FsUnlink(s, p) ==
    Check(s, Lookup(s.fs, p),
          IF s.fs[p].k = "dir" THEN Fail(s, "EISDIR")
          ELSE Done(s, Put(s.fs, p, NoNode)))
FsRmdir(s, p) ==
    Check(s, Lookup(s.fs, p),
          IF s.fs[p].k # "dir" THEN Fail(s, "ENOTDIR")
          ELSE IF p = Root \/ p \in Mounts THEN Fail(s, "EBUSY")
          ELSE IF Children(s.fs, p) # {} THEN Fail(s, "ENOTEMPTY")
          ELSE Done(s, Put(s.fs, p, NoNode)))
RenameError(fs, p, q) ==
    IF Lookup(fs, p) # "OK" THEN Lookup(fs, p)
    ELSE IF q = EmptyPath THEN "ENOENT"
    ELSE IF p = q THEN "OK"
    ELSE IF {p, q} \cap (Mounts \cup {Root}) # {} THEN "EBUSY"
    ELSE IF Makeable(fs, q) \notin {"OK", "EEXIST"} THEN Makeable(fs, q)
    ELSE IF Device(p) # Device(q) THEN "EXDEV"
    ELSE IF Under(p, q) THEN "EINVAL"
    ELSE IF Under(q, p) THEN "ENOTEMPTY"
    ELSE IF fs[p].k = "dir" /\ Kind(fs, q) \in {"file", "link"} THEN "ENOTDIR"
    ELSE IF fs[p].k # "dir" /\ Kind(fs, q) = "dir" THEN "EISDIR"
    ELSE IF Kind(fs, q) = "dir" /\ Children(fs, q) # {} THEN "ENOTEMPTY"
    ELSE IF ~Fits(fs, p, q) THEN "ENAMETOOLONG" ELSE "OK"
FsRename(s, p, q) ==
    Check(s, RenameError(s.fs, p, q),
          Done(s, IF p = q THEN s.fs ELSE Moved(s.fs, p, q)))
FsUtime(s, p, time) ==
    LET q == Follow(s.fs, p)
    IN Check(s, Lookup(s.fs, q),
             Done(s, [s.fs EXCEPT ![q].m = time]))
FsSetxattr(s, p, value) ==
    LET q == Follow(s.fs, p)
    IN Check(s, Lookup(s.fs, q),
             IF ~s.fs[q].w THEN Fail(s, "EACCES") ELSE Done(s, [s.fs EXCEPT ![q].x = value]))

(* mkdtemp takes any name that is free.                                    *)
FsMkdtemp(s, p) ==
    LET free == {n \in Names : p \o <<n>> \in DOMAIN s.fs /\ ~Has(s.fs, p \o <<n>>)}
    IN Check(s, Lookup(s.fs, p),
             IF s.fs[p].k # "dir" THEN Fail(s, "ENOTDIR")
             ELSE IF free = {} THEN Fail(s, "EEXIST")
             ELSE UNION {Done([s EXCEPT !.p = p \o <<n>>], Put(s.fs, p \o <<n>>, DirNode)) : n \in free})

(***************************************************************************)
(* Descriptors.  p is then the file opened; the flags say how.             *)
(***************************************************************************)
FsOpen(s, p, flags) ==
    LET q == Follow(s.fs, p)
        e == Lookup(s.fs, q)
        fs2 == IF "trunc" \in flags /\ Has(s.fs, q) THEN [s.fs EXCEPT ![q].c = << >>] ELSE s.fs
        got(fs) == {[s EXCEPT !.fs = fs, !.fd = @ + 1, !.p = q]} \cup Faulty(s, "EIO")
    IN IF e = "OK"
       THEN IF s.fs[q].k = "dir" THEN IF "w" \in flags THEN Fail(s, "EISDIR") ELSE got(s.fs)
            ELSE IF "w" \in flags /\ ~s.fs[q].w THEN Fail(s, "EACCES")
            ELSE got(fs2)
       ELSE IF "creat" \in flags
            THEN Check(s, Makeable(s.fs, q), got(Put(s.fs, q, FileNode(<< >>))))
            ELSE Fail(s, e)
CloseAll(S) == {[o EXCEPT !.fd = 0] : o \in S}     \* the guards of the call
Resized(c, len) == [i \in 1 .. len |-> IF i <= Len(c) THEN c[i] ELSE 0]
FsFtruncate(s, q, len) == Done(s, [s.fs EXCEPT ![q].c = Resized(@, len)])
(* A loop of calls of sendfile, until all is sent or one fails.            *)
FsSendfile(s, q, d) ==
    IF s.fs[q].k = "dir" THEN Fail(s, "EISDIR")
    ELSE IF q = d THEN Ret([s EXCEPT !.n = 0], "sent")
    ELSE {[s EXCEPT !.fs[d].c = s.fs[q].c, !.n = Len(s.fs[q].c), !.v = "sent"]}
         \cup {[o EXCEPT !.fs[d].c = << >>] : o \in Faulty(s, "EIO")}

(* One call of sendfile, or of write: fewer bytes than asked for is not an *)
(* error, and what is left is up to the caller to send.                    *)
Short(s, len) == IF "SHORT" \in s.f THEN {[o |-> [s EXCEPT !.f = {}, !.met = "SHORT"], n |-> n] : n \in 0 .. len - 1} ELSE {}
SendfileOnce(s, q, d) ==
    FsSendfile(s, q, d)
    \cup (IF s.fs[q].k = "dir" \/ q = d THEN {}
          ELSE {[x.o EXCEPT !.fs[d].c = SubSeq(s.fs[q].c, 1, x.n), !.n = x.n, !.v = "sent"] : x \in Short(s, Len(s.fs[q].c))})

(***************************************************************************)
(* std::filesystem.                                                        *)
(***************************************************************************)
(* remove: an absent path is no error, the value says whether it was there *)
FsRemove(s, p) ==
    IF ~Has(s.fs, p) THEN Ret(s, "no")
    ELSE Then(IF s.fs[p].k = "dir" THEN FsRmdir(s, p) ELSE FsUnlink(s, p), LAMBDA o : Ret(o, "yes"))
(* remove_all: a fault leaves any part of the tree that still has its root *)
FsRemoveAll(s, p) ==
    LET all == Subtree(s.fs, p)
        busy == {q \in all : \E m \in Mounts \cup {Root} : Under(q, m)}
        stays(R) == p \in R /\ \A q \in R \ {p} : Parent(q) \in R
        left == {R \in SUBSET all : busy \subseteq R /\ stays(R)}
    IN IF all = {} THEN Ret(s, "no")
       ELSE (IF busy = {} THEN Ret([s EXCEPT !.fs = Without(@, all)], "yes")
             ELSE Fail([s EXCEPT !.fs = Without(@, all \ busy)], "EBUSY"))
            \cup {[o EXCEPT !.fs = Without(@, all \ R)] : R \in left, o \in Faulty(s, "EIO")}
(* copy_file: a fault may leave the destination cut short                  *)
FsCopyFile(s, p, q, overwrite) ==
    LET from == Follow(s.fs, p)
        to == Follow(s.fs, q)
    IN IF Kind(s.fs, from) # "file" THEN Fail(s, IF Has(s.fs, from) THEN "ENOTSUP" ELSE "ENOENT")
       ELSE IF Has(s.fs, to) /\ s.fs[to].k # "file" THEN Fail(s, "ENOTSUP")
       ELSE IF from = to THEN Fail(s, "ENOSYS")
       ELSE IF Has(s.fs, to) /\ ~overwrite THEN Fail(s, "EEXIST")
       ELSE IF Has(s.fs, to) /\ ~s.fs[to].w THEN Fail(s, "EACCES")
       ELSE IF Makeable(s.fs, to) \notin {"OK", "EEXIST"} THEN Fail(s, Makeable(s.fs, to))
       ELSE {[s EXCEPT !.fs = Put(@, to, FileNode(s.fs[from].c)), !.v = "yes"]}
            \cup {[o EXCEPT !.fs = Put(@, to, FileNode(<< >>))] : o \in Faulty(s, "EIO")}
(* create_directory: an existing directory is no error                     *)
FsCreateDirectory(s, p) ==
    IF Kind(s.fs, p) = "dir" THEN Ret(s, "no")
    ELSE Then(FsMkdir(s, p), LAMBDA o : Ret(o, "yes"))
============================================================================

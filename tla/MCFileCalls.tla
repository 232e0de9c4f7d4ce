---------------------------- MODULE MCFileCalls ----------------------------
(* Small trees and the calls of each run.                                  *)
EXTENDS FileCalls

a == <<1>>
b == <<2>>
aa == <<1, 1>>
ab == <<1, 2>>
ba == <<2, 1>>
Place(t, D) == [p \in D |-> IF p \in DOMAIN t THEN t[p] ELSE NoNode]
At(p, n) == [x \in {p} |-> n]
Merge(f, g) == [x \in DOMAIN f \cup DOMAIN g |-> IF x \in DOMAIN g THEN g[x] ELSE f[x]]
Over(S) == FoldSet(Merge, << >>, S)

(* Two names on two levels: a directory with a file, an empty one, a link, *)
(* a file at the top, a file that may not be written.                      *)
PathDomain == {Root, a, b, aa, ab, ba}
PathTrees ==
    {Place(Over({At(Root, DirNode), At(a, DirNode), At(aa, FileNode(<<1, 2>>)), At(b, x)}), PathDomain) :
        x \in {NoNode, DirNode, FileNode(<<3>>), LinkNode(aa), LinkNode(ab),
               [FileNode(<<3>>) EXCEPT !.w = FALSE, !.x = "local"]}}

One(op, P) == {Call(op, p, Root, 0, "") : p \in P}
Two(op, P, Q) == {Call(op, p, q, 0, "") : p \in P, q \in Q}
Words(op, P, W) == {Call(op, p, Root, 0, w) : p \in P, w \in W}
Numbers(op, P, N) == {Call(op, p, Root, n, "") : p \in P, n \in N}
List(P, O) == {[Call("listFile", p, Root, 0, "") EXCEPT !.opt = o] : p \in P, o \in O}
Some == {a, b, aa, ba}

Writers ==
    Two("rename", {a, aa, b}, {ab, b, ba, NotAPath}) \cup Two("symlink", {aa}, {ab, b}) \cup One("unlink", {aa, b, a})
    \cup Words("mkdir", {a, b, ba}, {"absent", "single", "recursive"}) \cup One("rmdir", {a, b, ab})
    \cup One("mkdtemp", {b, aa})
Readers ==
    Words("access", Some, {"exist", "w"}) \cup Words("access", {aa}, {"bad"})
    \cup {[Call("access", b, Root, 0, "exist") EXCEPT !.local = TRUE]}
    \cup One("stat", {b, ba, NotAPath}) \cup One("lstat", {b, ba})
    \cup One("getxattr", {b, ba}) \cup Numbers("readText", {aa, b}, {-2, -1, 1, 5}) \cup Numbers("readText", {a}, {-1})
    \cup {[Call("readText", aa, Root, 1, "") EXCEPT !.k = k] : k \in {0, 2}}
    \cup List({a, Root}, {[num |-> n, rec |-> r, over |-> 1 - 2 * n, names |-> {1}] : n \in {0, 1}, r \in BOOLEAN})
Truncates == Numbers("truncate", {aa, b, ba}, {-1, 1, 3})
Setters ==
    Truncates \cup Numbers("utimes", {aa, b}, {-1, 7})
    \cup Words("setxattr", {aa, b}, {"local", "too long"})
Lines == One("readLines", {aa, b, ab})
PathCalls == Writers \cup Readers \cup Setters

----------------------------------------------------------------------------
(* A directory a with a file, a link and a directory below, and b, which   *)
(* is to take it, in the states that matter: nothing in the way, an empty  *)
(* directory, a file, files and directories of the same names.             *)
aba == <<1, 2, 1>>
c == <<3>>
OtherDevice == {c}
Taken(d) == d \o <<1>>       \* where a is to go below d, and what may be there
In(d, x) == Taken(d) \o x
TreeDomain(d) == {Root, a, aa, ab, aba, d, Taken(d), In(d, <<1>>), In(d, <<2>>), In(d, <<2, 1>>)}
Source(d) == Over({At(Root, DirNode), At(a, DirNode), At(aa, FileNode(<<1>>)), At(ab, DirNode), At(aba, FileNode(<<2>>)),
                   At(d, DirNode)})
Ways(d) ==
    {At(Taken(d), NoNode), At(Taken(d), DirNode), At(Taken(d), FileNode(<<3>>))}
    \cup {Over({At(Taken(d), DirNode), At(In(d, <<1>>), x), At(In(d, <<2>>), y)}) :
             x \in {NoNode, FileNode(<<4>>), DirNode}, y \in {NoNode, FileNode(<<5>>), DirNode}}
    \cup {Over({At(Taken(d), DirNode), At(In(d, <<1>>), LinkNode(aba)), At(In(d, <<2>>), DirNode),
                At(In(d, <<2, 1>>), FileNode(<<6>>))})}
Shapes(d) == {Source(d), Merge(Source(d), At(ab, NoNode)) , Merge(Source(d), At(aa, LinkNode(aba)))}
Bare(t) == [p \in DOMAIN t |-> IF p # Root /\ t[Parent(p)].k # "dir" THEN NoNode ELSE t[p]]
TreeTrees(d) == {Bare(Place(Merge(sh, w), TreeDomain(d))) : sh \in Shapes(d), w \in Ways(d)}
PlainTrees == {t \in TreeTrees(b) : t[aa].k # "link"}

Modes(op, p, q, M) == {Call(op, p, q, n, "") : n \in M}
Operands(P, Q) == {[Call("copyFile", p, q, 0, "") EXCEPT !.pfd = x, !.qfd = y] :
                      p \in P, q \in Q, x \in BOOLEAN, y \in BOOLEAN}
OpenOperands(P, Q) == {x \in Operands(P, Q) : ~x.pfd /\ ~x.qfd}
CopyFiles(d) == Operands({aa}, {In(d, <<1>>), aba}) \cup OpenOperands({aa, ab}, {Taken(d), aba, aa})
MoveFiles(d) == UNION {Modes("moveFile", aa, q, 0 .. 2) \cup Modes("moveFile", ab, q, {0}) :
                          q \in {In(d, <<1>>), Taken(d), aba, In(d, <<2>>)}}
CopyDirs(d) == Modes("copyDir", a, d, 0 .. 2) \cup Modes("copyDir", ab, d, {1}) \cup Modes("copyDir", a, ab, {1})
               \cup Modes("copyDir", ab, a, {1})
MoveDirs(d) == Modes("moveDir", a, d, 0 .. 4) \cup Modes("moveDir", ab, d, 0 .. 3) \cup Modes("moveDir", a, ab, {1})
TreeCalls(d) == CopyFiles(d) \cup MoveFiles(d) \cup CopyDirs(d) \cup MoveDirs(d)
(* moveFile with mode 1 answers differently in the static binding when the *)
(* source is not there.                                                    *)
AgreeingCalls == {x \in TreeCalls(b) : ~(x.op = "moveFile" /\ x.n = 1)}
(* truncate of the Cangjie binding leaves its descriptor open.             *)
CjCalls == PathCalls \ Truncates
Interleaved == Modes("moveDir", a, b, {1, 2}) \cup Modes("copyDir", a, b, {0, 1}) \cup Modes("moveFile", aa, In(b, <<1>>), {0, 1})
               \cup OpenOperands({aa}, {In(b, <<1>>)}) \cup Two("rename", {ab}, {ba}) \cup One("rmdir", {ab})

(* @ohos.fileio: its copyFile, which writes over the destination, and      *)
(* mkdir without options.                                                  *)
CopiesOver == {[x EXCEPT !.op = "copyOver"] : x \in Operands({aa, b}, {b, ab, ba, aa})}
FileioCalls ==
    {x \in Writers \cup Readers : x.op \notin {"getxattr", "listFile"} /\ ~x.local /\ (x.op = "mkdir" => x.w = "absent")}
    \cup Truncates \cup One("readdir", {a, b, ab, Root}) \cup One("chmod", {aa}) \cup One("chown", {aa}) \cup One("lchown", {aa})
    \cup CopiesOver \cup Words("mkdir", {b}, {"bad"})
    \cup {Call("copyOver", aa, q, n, "") : n \in {0, 1}, q \in {b, NotAPath}}
FileioOverlapping ==
    Two("rename", {aa, b}, {ab, ba}) \cup One("unlink", {aa, b}) \cup One("rmdir", {a}) \cup Words("mkdir", {b}, {"absent"})
    \cup Numbers("truncate", {aa}, {1}) \cup {Call("copyOver", aa, b, 0, "")} \cup Numbers("readText", {aa}, {-1}) \cup One("readdir", {a})
(* @system.file: what is read has no zero and is as long as asked for.     *)
Recursive == {"", "recursive"}
SystemOverlapping ==
    Two("move", {a, aa}, {b, ba}) \cup Two("copy", {aa}, {b, ba}) \cup Words("sysRmdir", {a, b}, {"recursive"})
    \cup Words("sysMkdir", {b}, {"recursive"}) \cup One("delete", {aa}) \cup One("list", {a})
    \cup {[x EXCEPT !.d = <<7>>] : x \in Words("writeText", {aa, b}, {"append"})}
SystemCalls ==
    Words("sysMkdir", {b, ba, aa}, Recursive) \cup Words("sysRmdir", {a, b, ab}, Recursive) \cup One("delete", {aa, b, a})
    \cup One("sysAccess", {aa, b, ba, EmptyPath}) \cup Words("get", {a, b, Root}, Recursive) \cup One("list", {a, b, Root})
    \cup Two("copy", {a, aa, b}, {b, ab, ba, aa}) \cup Two("move", {a, aa, b}, {b, ab, ba})
    \cup {[x EXCEPT !.d = <<7>>] : x \in Words("writeText", {aa, b}, {"", "append"}) \cup Numbers("writeBuffer", {aa, b}, {-1, 0, 1})}
    \cup Numbers("writeText", {aa}, {1}) \cup Numbers("sysReadText", {aa, b}, {0, 1}) \cup {[Call("readBuffer", aa, Root, n, "") EXCEPT !.k = k] : n \in {0, 1}, k \in {0, 1}}

----------------------------------------------------------------------------
AnyError == {"EIO", "ENOMEM", "EMFILE", "UNKNOWN"}
AllPrograms ==
    [paths |-> Program(PathTrees, PathCalls \cup Lines, {"napi", "ani"}, 2, {}, TRUE, TRUE),
     faulty |-> Program(PathTrees, PathCalls, {"napi", "ani"}, 1, AnyError, FALSE, FALSE),
     cangjie |-> Program(PathTrees, CjCalls, {"cj"}, 1, AnyError, FALSE, TRUE),
     fileio |-> Program(PathTrees, FileioCalls, {"fileio"}, 1, {}, FALSE, TRUE),
     fileioTwo |-> Program(PathTrees, FileioOverlapping, {"fileio"}, 3, {}, FALSE, TRUE),
     fileioFaulty |-> Program(PathTrees, FileioCalls, {"fileio"}, 1, {"EIO", "EMFILE", "UNKNOWN", "SHORT"}, FALSE, FALSE),
     system |-> Program(PathTrees, SystemOverlapping, {"system"}, 3, {}, FALSE, TRUE),
     systemFaulty |-> Program(PathTrees, SystemCalls, {"system"}, 1, {"EIO", "EMFILE", "UNKNOWN", "SHORT"}, FALSE, TRUE),
     trees |-> Program(PlainTrees, AgreeingCalls, {"napi", "ani", "cj"}, 1, {}, TRUE, TRUE),
     devices |-> Program(TreeTrees(c), TreeCalls(c), {"napi", "ani", "cj"}, 1, {"EIO", "ENOMEM", "EMFILE"}, FALSE, TRUE),
     (* an answer of a worker thread may be about a tree another call changed meanwhile *)
     interleaved |-> Program(TreeTrees(b), Interleaved, {"napi"}, 2, {}, FALSE, TRUE)]
(* As a function, which TLC computes once.                                 *)
ProgramTable == [p \in DOMAIN AllPrograms |-> AllPrograms[p]]
============================================================================

--------------------------- MODULE MCFileObjects ---------------------------
(* Objects that hold on to a file: AtomicFile, the File, Stream and        *)
(* RandomAccessFile of the three bindings, and FileMapping.  A history is  *)
(* one of one of the three; the others stay as they begin.                 *)
EXTENDS AtomicFile, Integers

CONSTANTS FileNames, MaxFd, BufLen, Page, Places, MapBuf, MapPrograms

VARIABLES
    scene,                              \* whose history this is
    prog, sys, calls, pending, last,    \* HandleCalls
    plan, st, used, todo, heard         \* FileMapping

atomicVars == <<base, temps, data, newName, hasBase, stream, ref, inflight, buffer, given, committed, torn, late, orphans,
                unowned, made, chunks, crashes, binding>>
handleVars == <<prog, sys, calls, pending, last>>
mapVars == <<plan, st, used, todo, heard>>

Absent == -1
Negative == -2

----------------------------------------------------------------------------
(* What programs call.  On(op): on each object there is.                   *)
Program(files, chosen, bindings, max, width, failing, agree) ==
    [files |-> files, calls |-> chosen, bindings |-> bindings, max |-> max, width |-> width,
     failing |-> failing, agree |-> agree]
K(op) ==
    [op |-> op, o |-> 0, num |-> FALSE, file |-> "f", via |-> "path", m |-> "rw", d |-> << >>,
     len |-> 0, off |-> Absent, wh |-> "set", ex |-> "absent", start |-> Absent, end |-> Absent, bo |-> 0, perm |-> FALSE]
On(op) == [K(op) EXCEPT !.o = -1]

Opens == {[K("open") EXCEPT !.file = x, !.m = m] : x \in {"f", "g"}, m \in {"rw", "creat"}} \cup {[K("open") EXCEPT !.m = "both"]}
Uris == {[K("open") EXCEPT !.file = x, !.via = v] :
            x \in {"f", "g"}, v \in {"bundle", "media", "docs", "broker", "remote", "unknown"}}
Closes == {On("close"), [On("close") EXCEPT !.num = TRUE], [K("close") EXCEPT !.num = TRUE]}
OfFile == {On("dup"), On("fd"), On("path"), On("name"), On("parent"), On("unlock")}
          \cup {[On(l) EXCEPT !.ex = x] : l \in {"lock", "tryLock"}, x \in {"absent", "yes"}}
OfNumber == {[On("read") EXCEPT !.len = n, !.off = off] : n \in {1, 3}, off \in {Absent, Negative, 1}}
            \cup {[On("write") EXCEPT !.d = <<7>>, !.off = off] : off \in {Absent, Negative, 1}}
            \cup {[On("lseek") EXCEPT !.off = n, !.wh = w] : n \in {-1, 1}, w \in {"set", "cur", "end", "bad"}}
            \cup {On("fsync"), On("fdatasync"), K("fsync"), K("read")}
Streams == {[K("createStream") EXCEPT !.m = m] : m \in {"r", "r+", "a+", "bad"}}
           \cup {[On("fdopenStream") EXCEPT !.m = m] : m \in {"r+", "w+"}}
OfStream == {[On("streamRead") EXCEPT !.len = n, !.off = off] : n \in {1, 3}, off \in {Absent, 1}}
            \cup {[On("streamWrite") EXCEPT !.d = <<8>>, !.off = off] : off \in {Absent, 1}}
            \cup {[On("seek") EXCEPT !.off = n, !.wh = w] : n \in {-1, 1}, w \in {"set", "end", "bad"}}
            \cup {On("flush"), On("streamClose")}
Rafs == {[K("createRaf") EXCEPT !.m = m, !.start = x] : m \in {"r", "rw", "neg"}, x \in {Absent, 1}} \cup {On("createRaf")}
OfRaf == {On("rafFd"), On("rafPointer"), [On("rafSetPointer") EXCEPT !.off = 1], On("rafClose"), On("rafReader"), On("rafWriter")}
         \cup {[On("rafRead") EXCEPT !.len = 2, !.off = off] : off \in {Absent, 1}}
         \cup {[On("rafWrite") EXCEPT !.d = <<9, 9>>, !.off = off] : off \in {Absent, 1, Negative}}
(* Calls of fileio.  A directory is the sequence of its entries, 0 is dot. *)
FioOpens == {[K("open") EXCEPT !.m = m] : m \in {"r", "rw", "neg"}}
            \cup {[K("open") EXCEPT !.file = "g", !.m = "creat", !.perm = b] : b \in BOOLEAN}
FioClose == [On("close") EXCEPT !.num = TRUE]
FioRead(op) == {[On(op) EXCEPT !.len = n, !.off = off] : n \in {Absent, 1, 3}, off \in {Absent, 1}}
               \cup {[On(op) EXCEPT !.bo = b, !.len = Absent, !.off = off] : b \in {1, 3}, off \in {Absent, Negative}}
FioWrite(op) == {[On(op) EXCEPT !.d = <<7, 8>>, !.bo = b, !.len = n, !.off = off] : b \in {0, 1}, n \in {Absent, 2}, off \in {Absent, 1}}
FioOfNumber == FioRead("read") \cup FioWrite("write")
               \cup {[On(x) EXCEPT !.len = n] : x \in {"ftruncate", "fallocate"}, n \in {Absent, 1, 3}}
               \cup {[On("fallocate") EXCEPT !.off = 0, !.len = n] : n \in {0, 1, 3}}
               \cup {[On("lseek") EXCEPT !.off = n, !.wh = w] : n \in {-1, 1}, w \in {"set", "cur", "end", "bad"}}
               \cup {On(x) : x \in {"fsync", "fdatasync", "fstat", "fchmod", "fchown"}}
               \cup {[K(x) EXCEPT !.num = TRUE] : x \in {"close", "read", "write", "lseek", "fsync", "fdatasync", "ftruncate", "fstat"}}
FioOfStream == FioRead("streamRead") \cup FioWrite("streamWrite") \cup {On("flush"), On("streamClose")}
FioOpendirs == {[K("opendir") EXCEPT !.file = x] : x \in {"f", "g"}}
FioOfDir == {On("dirRead"), On("dirClose")} \cup {[On("listfile") EXCEPT !.len = n] : n \in {-1, 0, 1, 2}}
            \cup {FioClose} \cup {[K("open") EXCEPT !.m = "dir", !.perm = b] : b \in BOOLEAN}
ADir == {[f |-> <<0, 1, 0, 2>>, g |-> <<-1>>]}
OpenF == [K("open") EXCEPT !.file = "f"]
Rplus == [K("createStream") EXCEPT !.m = "r+"]
Raf == K("createRaf")
Two == {[f |-> <<1, 2>>, g |-> <<-1>>]}       \* g is not there
Faults == {"EIO", "ENOMEM", "EPERM"}
HandlePrograms ==
    [files |-> Program(Two, {OpenF, On("dup"), [On("tryLock") EXCEPT !.ex = "yes"], On("lock"), On("unlock")} \cup Closes,
                       {"napi"}, 4, 2, {}, FALSE),
     numbers |-> Program(Two, Opens \cup OfFile \cup Closes \cup OfNumber, {"napi"}, 3, 1, {}, TRUE),
     failing |-> Program(Two, Opens \cup Uris \cup OfFile \cup Closes \cup OfNumber \cup Streams, {"napi"}, 2, 1,
                         Faults \cup {"UNKNOWN"}, FALSE),
     static |-> Program(Two, Opens \cup Uris \cup OfFile \cup Closes \cup OfNumber \cup Streams, {"ani"}, 2, 1, Faults, FALSE),
     cangjie |-> Program(Two, Opens \cup Uris \cup OfFile \cup Closes \cup OfNumber \cup Streams \cup OfStream \cup Rafs \cup OfRaf,
                         {"cj"}, 2, 1, {"EIO", "EPERM"}, FALSE),
     streams |-> Program(Two, {OpenF} \cup Streams \cup OfStream, {"napi"}, 3, 1, {}, TRUE),
     streaming |-> Program(Two, {Rplus} \cup OfStream, {"napi", "ani"}, 4, 2, {"EIO"}, FALSE),
     rafs |-> Program(Two, {OpenF} \cup Rafs \cup OfRaf, {"napi"}, 3, 1, {}, TRUE),
     raffing |-> Program(Two, {Raf} \cup OfRaf, {"napi", "ani"}, 3, 2, {"EIO"}, FALSE),
     fileInterop |-> Program(Two, {OpenF, On("fileToCj"), On("fileToNapi"), On("fd")} \cup Closes, {"napi", "cj"}, 4, 2, {}, FALSE),
     streamInterop |-> Program(Two, {Rplus, On("streamToCj"), On("streamToNapi"), On("streamClose"), [On("streamRead") EXCEPT !.len = 1]},
                               {"napi", "cj"}, 4, 2, {}, FALSE),
     rafInterop |-> Program(Two, {Raf, On("rafToCj"), On("rafToNapi"), On("rafClose"), On("rafFd")}, {"napi", "cj"}, 4, 2, {}, FALSE),
     fioNumbers |-> Program(Two, FioOpens \cup {FioClose} \cup FioOfNumber, {"fileio"}, 3, 1, {}, TRUE),
     fioFailing |-> Program(Two, FioOpens \cup {FioClose} \cup FioOfNumber \cup Streams \cup FioOfStream, {"fileio"}, 2, 1,
                            {"EIO", "UNKNOWN"}, FALSE),
     fioStreams |-> Program(Two, {OpenF, FioClose} \cup Streams \cup FioOfStream, {"fileio"}, 3, 1, {}, TRUE),
     fioStreaming |-> Program(Two, {OpenF, FioClose, Rplus, [On("fdopenStream") EXCEPT !.m = "r+"], On("flush"), On("streamClose"),
                              [On("streamRead") EXCEPT !.len = 1], [On("streamWrite") EXCEPT !.d = <<7>>, !.len = Absent]},
                              {"fileio"}, 4, 2, {"EIO"}, FALSE),
     fioDirs |-> Program(ADir, FioOpendirs \cup FioOfDir, {"fileio"}, 4, 2, {"EIO", "UNKNOWN"}, TRUE)]
HandleTable == [p \in DOMAIN HandlePrograms |-> HandlePrograms[p]]

----------------------------------------------------------------------------
Q(op) ==
    [op |-> op, o |-> 0, fd |-> "open", mode |-> "rw", off |-> 0, size |-> 1, pos |-> Absent, len |-> Absent, d |-> << >>]
Maps == {[Q("mmap") EXCEPT !.mode = md, !.off = off, !.size = 3] : md \in {"ro", "rw", "private"}, off \in {0, 1, 2}}
        \cup {[Q("mmap") EXCEPT !.fd = x] : x \in {"below", "closed"}}
        \cup {[Q("mmap") EXCEPT !.size = 0], [Q("mmap") EXCEPT !.off = Negative], [Q("mmap") EXCEPT !.mode = "bad"]}
OfMapping == {[Q(x) EXCEPT !.pos = p] : x \in {"setPosition", "setLimit"}, p \in {Negative, 0, 2, 4}}
          \cup {Q(x) : x \in {"position", "capacity", "limit", "flip", "remaining", "msync", "unmap"}}
          \cup {[Q("read") EXCEPT !.pos = p, !.len = n] : p \in {Absent, Negative, 1, 4}, n \in {Absent, Negative, 0, 1, 3}}
          \cup {[Q("write") EXCEPT !.pos = p, !.len = n, !.d = <<7, 8>>] : p \in {Absent, 1}, n \in {Absent, 1, 3}}
          \cup {[Q("msync") EXCEPT !.pos = p, !.len = n] : p \in {0, 1, 3}, n \in {Negative, 1, 2}}
Aligned == [Q("mmap") EXCEPT !.off = 1, !.size = 3]
Writing == {[Q("write") EXCEPT !.d = <<7>>], [Q("write") EXCEPT !.pos = 1, !.d = <<9>>]}
MCMapPrograms ==
    [one |-> Program({<<1>>, <<1, 2, 3, 4>>}, Maps \cup OfMapping, {"napi", "ani"}, 3, 1, {}, TRUE),
     two |-> Program({<<1, 2>>}, {Aligned, [Aligned EXCEPT !.mode = "private"], Q("unmap"), Q("read")} \cup Writing,
                     {"napi"}, 4, 2, {}, FALSE),
     fails |-> Program({<<1, 2>>}, {Aligned, Q("msync"), Q("unmap"), Q("read")} \cup Writing, {"napi", "ani"}, 3, 2,
                       {"EIO", "ENOMEM", "UNKNOWN", "EACCES"}, FALSE)]
MapTable == [p \in DOMAIN MapPrograms |-> MapPrograms[p]]

H == INSTANCE HandleCalls WITH Files <- FileNames, Programs <- HandleTable
M == INSTANCE FileMapping WITH MapPrograms <- MapTable
(* In the histories of the other two, the mappings rest before "two".      *)
ASSUME MapsAssumption == M!MapConstants /\ "two" \in DOMAIN MapTable

----------------------------------------------------------------------------
AtRest == binding = CHOOSE b \in Bindings : TRUE
ScenesInit ==
    \/ scene = "atomic" /\ Init /\ H!InitWith("files") /\ M!InitWith("two")
    \/ scene = "handles" /\ Init /\ AtRest /\ H!Init /\ M!InitWith("two")
    \/ scene = "mapping" /\ Init /\ AtRest /\ H!InitWith("files") /\ M!Init
ScenesNext ==
    /\ \/ scene = "atomic" /\ Next /\ UNCHANGED <<handleVars, mapVars>>
       \/ scene = "handles" /\ H!Next /\ UNCHANGED <<atomicVars, mapVars>>
       \/ scene = "mapping" /\ M!Next /\ UNCHANGED <<atomicVars, handleVars>>
    /\ UNCHANGED scene
ScenesSpec == ScenesInit /\ [][ScenesNext]_<<scene, atomicVars, handleVars, mapVars>>

(* The properties of handles and mappings, stated in their modules.        *)
HandlesSafe == H!HandlesSafe
MappingsSafe == M!MappingsSafe
(* The bindings agree on handles and on mappings, and the two forms of a   *)
(* call with each other.                                                   *)
ObjectsAgree == H!HandlesAgree /\ H!HandleFormsAgree /\ H!FioFormsAgree /\ M!MapBindingsAgree
(* Every transfer through a RandomAccessFile or a mapping moves the bytes  *)
(* of the file that it says, no others, and the position with them.        *)
TransfersRight ==
    [][(scene = "handles" => H!RafPointerFollows) /\ (scene = "mapping" => M!MapTransfers)]_<<scene, atomicVars, handleVars, mapVars>>
============================================================================

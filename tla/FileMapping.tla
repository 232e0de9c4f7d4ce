---------------------------- MODULE FileMapping ----------------------------
(***************************************************************************)
(* fs.mmap and the FileMapping it returns: the core, the dynamic (NAPI)    *)
(* binding, whose mmap, msync and unmap may run on worker threads, and the *)
(* static (ANI) binding.  The address space is a row of places of which a  *)
(* mapping takes the first that is free, so that an address comes back     *)
(* after it was unmapped.  One file is mapped; its bytes are in st.file.   *)
(*                                                                         *)
(* An operation maps a state to the set of its outcomes: kern what is      *)
(* mapped at each place (len 0: nothing), maps the entities that were ever *)
(* made, f the errors of which the system may still give one, e the error  *)
(* met, n, c and o the number, the bytes and the mapping returned.         *)
(***************************************************************************)
EXTENDS Integers, Sequences, FiniteSets, FiniteSetsExt, SequencesExt

CONSTANTS Page,            \* the length of a page
          Places,          \* the addresses: 1 .. Places
          MapBuf,          \* the length of the buffer that is read to
          MapPrograms      \* what is called, see Doing

VARIABLES plan, st, used, todo, heard

mapVars == <<plan, st, used, todo, heard>>

None == -1                 \* an argument that is not there
Below == -2                \* an argument below zero

Error(s, e) == {[s EXCEPT !.e = e]}
May(s, e) == IF e \in s.f THEN {[s EXCEPT !.e = e, !.f = {}]} ELSE {}
Given(s, ok, S) == IF ok THEN S ELSE Error(s, "EINVAL")
Next2(S, Op(_)) == UNION {IF o.e = "OK" THEN Op(o) ELSE {o} : o \in S}
Value(s, n) == {[s EXCEPT !.n = n]}

----------------------------------------------------------------------------
(* The system: memory.  A private mapping keeps the pages it has written.  *)
Unmapped == [from |-> 0, len |-> 0, shared |-> TRUE, own |-> << >>]
FreePlaces(s) == {a \in 1 .. Places : s.kern[a].len = 0}
SysMmap(s, from, len, shared) ==
    IF FreePlaces(s) = {} THEN Error(s, "ENOMEM")
    ELSE {[s EXCEPT !.kern[Min(FreePlaces(s))] = [from |-> from, len |-> len, shared |-> shared, own |-> << >>],
                    !.o = Min(FreePlaces(s))]} \cup May(s, "EACCES")
SysMunmap(s, a) == {[s EXCEPT !.kern[a] = Unmapped]}
SysFtruncate(s, len) ==
    {[s EXCEPT !.file = [i \in 1 .. len |-> IF i <= Len(s.file) THEN s.file[i] ELSE 0]]} \cup May(s, "EIO")
Byte(s, a, at) ==
    LET p == s.kern[a].from + at + 1
    IN IF p \in DOMAIN s.kern[a].own THEN s.kern[a].own[p] ELSE s.file[p]
InFile(s, a, at, n) == s.kern[a].len > 0 /\ s.kern[a].from + at + n <= Len(s.file)
Load(s, a, at, n) ==
    IF ~InFile(s, a, at, n) THEN Error(s, "FAULT")
    ELSE {[s EXCEPT !.c = [i \in 1 .. n |-> Byte(s, a, at + i - 1)], !.n = n]}
PageOf(p) == (p - 1) \div Page
Store(s, a, at, d) ==
    LET from == s.kern[a].from + at
        here == (from + 1) .. (from + Len(d))
        pages == {p \in DOMAIN s.file : PageOf(p) \in {PageOf(q) : q \in here}} \cup DOMAIN s.kern[a].own
    IN IF ~InFile(s, a, at, Len(d)) THEN Error(s, "FAULT")
       ELSE IF s.kern[a].shared
            THEN {[s EXCEPT !.file = [i \in DOMAIN @ |-> IF i \in here THEN d[i - from] ELSE @[i]], !.n = Len(d)]}
            ELSE {[s EXCEPT !.kern[a].own = [p \in pages |-> IF p \in here THEN d[p - from] ELSE Byte(s, a, p - 1 - s.kern[a].from)],
                            !.n = Len(d)]}

----------------------------------------------------------------------------
(* mmap.                                                                   *)
GetMmapProtFlags(mode) == mode # "private"               \* MAP_SHARED
ValidateMmapParams(c) ==
    IF c.fd = "below" THEN "EBADF" ELSE IF c.mode # "bad" /\ c.off >= 0 /\ c.size > 0 THEN "OK" ELSE "EINVAL"
ValidateFile(s) == {s} \cup May(s, "EIO")
AlignToPage(off) == (off \div Page) * Page
(* Whether the file is to be made longer is asked first.                   *)
StatSize(s, c) == IF ValidateMmapParams(c) = "OK" THEN ValidateFile(s) ELSE Error(s, ValidateMmapParams(c))
Required(c) == c.off + c.size
ExpandFileIfNeeded(s, c, len) == IF Required(c) <= len THEN {s} ELSE SysFtruncate(s, Required(c))
Entity(a, c) ==
    [valid |-> TRUE, a |-> a, cap |-> c.size, adj |-> c.off - AlignToPage(c.off),
     raw |-> c.size + c.off - AlignToPage(c.off), lim |-> c.size, pos |-> 0, mode |-> c.mode, off |-> c.off]
(* As it would be with the mapping kept when there is no entity for it.    *)
ConstructorKeeps(s, c) ==
    {[s EXCEPT !.maps = Append(@, Entity(s.o, c)), !.o = Len(s.maps) + 1]} \cup May(s, "ENOMEM")
Constructor(s, c) ==
    {[s EXCEPT !.maps = Append(@, Entity(s.o, c)), !.o = Len(s.maps) + 1]}
    \cup UNION {SysMunmap(x, s.o) : x \in May(s, "ENOMEM")}
MapPages(s, c) ==
    Next2(SysMmap(s, AlignToPage(c.off), c.size + c.off - AlignToPage(c.off), GetMmapProtFlags(c.mode)),
          LAMBDA o : Constructor(o, c))
DoMmap(s, c) ==
    Next2(StatSize(s, c),
          LAMBDA o : Next2(ExpandFileIfNeeded(o, c, Len(o.file)), LAMBDA r : MapPages(r, c)))
(* The destructor of the entity, when no object could be made for it.      *)
Deleted(s, o) == {[x EXCEPT !.maps = Front(@), !.o = 0] : x \in SysMunmap(s, s.maps[o].a)}
Wrapped(s, e) == {s} \cup UNION {Deleted(x, s.o) : x \in May(s, e)}

----------------------------------------------------------------------------
(* FsFileMapping.  m is the entity of mapping o.                           *)
CheckValid(s, o, S) == IF s.maps[o].valid THEN S ELSE Error(s, "FREE")
IsReadOnly(m) == m.mode = "ro"
Left(m, at) == IF at < m.lim THEN m.lim - at ELSE 0
CoreSetPosition(s, o, p) ==
    CheckValid(s, o, Given(s, p <= s.maps[o].lim, {[s EXCEPT !.maps[o].pos = p]}))
CoreGetPosition(s, o) == CheckValid(s, o, Value(s, s.maps[o].pos))
CoreCapacity(s, o) == CheckValid(s, o, Value(s, s.maps[o].cap))
(* As it would be with the position left where it is.                      *)
CoreSetLimitOnly(s, o, l) ==
    CheckValid(s, o, Given(s, l <= s.maps[o].cap, {[s EXCEPT !.maps[o].lim = l]}))
CoreSetLimit(s, o, l) ==
    CheckValid(s, o, Given(s, l <= s.maps[o].cap,
        {[s EXCEPT !.maps[o].lim = l, !.maps[o].pos = Min({s.maps[o].pos, l})]}))
CoreGetLimit(s, o) == CheckValid(s, o, Value(s, s.maps[o].lim))
CoreFlip(s, o) == CheckValid(s, o, {[s EXCEPT !.maps[o].lim = s.maps[o].pos, !.maps[o].pos = 0]})
CoreRemaining(s, o) == CheckValid(s, o, Value(s, Left(s.maps[o], s.maps[o].pos)))
CoreReadFrom(s, o, at, buf, len) ==
    LET m == s.maps[o]
    IN CheckValid(s, o, Given(s, at <= m.cap, Load(s, m.a, m.adj + at, Min({len, Left(m, at), buf}))))
CoreRead(s, o, buf, len) ==
    CheckValid(s, o, Next2(CoreReadFrom(s, o, s.maps[o].pos, buf, len),
                           LAMBDA x : {[x EXCEPT !.maps[o].pos = @ + x.n]}))
(* As it would be with the bytes put at the start of the first page.       *)
CoreWriteToPage(s, o, at, d, len) ==
    LET m == s.maps[o]
    IN CheckValid(s, o, Given(s, at <= m.cap,
         IF IsReadOnly(m) THEN Error(s, "RO") ELSE Store(s, m.a, at, SubSeq(d, 1, Min({len, Left(m, at), Len(d)})))))
CoreWriteTo(s, o, at, d, len) ==
    LET m == s.maps[o]
    IN CheckValid(s, o, Given(s, at <= m.cap,
         IF IsReadOnly(m) THEN Error(s, "RO")
         ELSE Store(s, m.a, m.adj + at, SubSeq(d, 1, Min({len, Left(m, at), Len(d)})))))
CoreWrite(s, o, d, len) ==
    CheckValid(s, o, Next2(CoreWriteTo(s, o, s.maps[o].pos, d, len),
                           LAMBDA x : {[x EXCEPT !.maps[o].pos = @ + x.n]}))
CoreMsync(s, o, off, len) ==
    LET m == s.maps[o]
        start == AlignToPage(m.adj + off)
    IN CheckValid(s, o, Given(s, m.adj + off <= m.raw /\ start + (m.adj + off - start) + len <= m.raw,
                              {s} \cup May(s, "EIO")))
(* The pages go first, the entity hears of it later.                       *)
Pages(s, o) == IF s.maps[o].valid THEN SysMunmap(s, s.maps[o].a) \cup May(s, "EIO") ELSE {s}
Cleared(s, o) ==
    [s EXCEPT !.maps[o] = [valid |-> FALSE, a |-> 0, cap |-> 0, adj |-> 0, raw |-> 0, lim |-> 0, pos |-> 0,
                           mode |-> s.maps[o].mode, off |-> s.maps[o].off]]
CoreUnmap(s, o) == Next2(Pages(s, o), LAMBDA x : {IF s.maps[o].valid THEN Cleared(x, o) ELSE x})

----------------------------------------------------------------------------
(* The dynamic binding.                                                    *)
ParseMmapArgs(c) == c.fd # "closed" /\ c.size > 0
InstantiateFileMapping(s) == Wrapped(s, "UNKNOWN")
MmapSync(s, c) == Given(s, ParseMmapArgs(c), Next2(DoMmap(s, c), InstantiateFileMapping))
MmapAsync(s, c) == Given(s, ParseMmapArgs(c), {s} \cup May(s, "ENOMEM"))
Mapping(s, o, S) == IF s.maps[o].valid THEN S ELSE Error(s, "FREE")
ParsePositionArg(m, c) == c.pos = None \/ (c.pos >= 0 /\ c.pos <= m.cap)
PositionOf(m, c) == IF c.pos = None THEN m.pos ELSE c.pos
ParseLengthArg(c, buf) == IF c.len >= 0 THEN c.len ELSE buf
ValidateLength(s, m, c, len, S) == IF len > Left(m, PositionOf(m, c)) THEN Error(s, "OOB") ELSE S
SetPosition(s, c) ==
    Mapping(s, c.o, Given(s, c.pos >= 0 /\ c.pos <= s.maps[c.o].lim, CoreSetPosition(s, c.o, c.pos)))
GetPosition(s, c) == Mapping(s, c.o, CoreGetPosition(s, c.o))
Capacity(s, c) == Mapping(s, c.o, CoreCapacity(s, c.o))
SetLimit(s, c) ==
    Mapping(s, c.o, Given(s, c.pos >= 0 /\ c.pos <= s.maps[c.o].cap, CoreSetLimit(s, c.o, c.pos)))
GetLimit(s, c) == Mapping(s, c.o, CoreGetLimit(s, c.o))
Flip(s, c) == Mapping(s, c.o, CoreFlip(s, c.o))
Remaining(s, c) == Mapping(s, c.o, CoreRemaining(s, c.o))
Read(s, c) ==
    LET m == s.maps[c.o]
        asked == ParseLengthArg(c, MapBuf)
        len == Min({asked, MapBuf})
    IN Mapping(s, c.o, Given(s, ParsePositionArg(m, c), ValidateLength(s, m, c, asked,
         {[x EXCEPT !.n = len] : x \in IF c.pos = None THEN CoreRead(s, c.o, MapBuf, len)
                                       ELSE CoreReadFrom(s, c.o, c.pos, MapBuf, len)})))
Write(s, c) ==
    LET m == s.maps[c.o]
        asked == ParseLengthArg(c, Len(c.d))
        len == Min({asked, Len(c.d)})
    IN Mapping(s, c.o, IF IsReadOnly(m) THEN Error(s, "RO")
         ELSE Given(s, ParsePositionArg(m, c), ValidateLength(s, m, c, asked,
           {[x EXCEPT !.n = len] : x \in IF c.pos = None THEN CoreWrite(s, c.o, c.d, len)
                                         ELSE CoreWriteTo(s, c.o, c.pos, c.d, len)})))
(* Without arguments all there is.                                         *)
MsyncFrom(c) == IF c.pos = None THEN 0 ELSE c.pos
MsyncLen(s, c) == IF c.pos = None THEN s.maps[c.o].cap ELSE c.len
MsyncArgs(c) == c.pos = None \/ (c.pos >= 0 /\ c.len >= 0)
Msync(s, c) == Mapping(s, c.o, Given(s, MsyncArgs(c), {s}))
MsyncSync(s, c) ==
    Mapping(s, c.o, Given(s, MsyncArgs(c), CoreMsync(s, c.o, MsyncFrom(c), MsyncLen(s, c))))
UnmapSync(s, c) == CoreUnmap(s, c.o)

----------------------------------------------------------------------------
(* The static binding.                                                     *)
ParseFdOrFile(c) == c.fd # "closed"
AniValidateMmapParams(c) == c.mode # "bad" /\ c.off >= 0 /\ c.size > 0
AniMmapSync(s, c) ==
    Given(s, ParseFdOrFile(c) /\ AniValidateMmapParams(c), Next2(DoMmap(s, c), LAMBDA o : Wrapped(o, "UNKNOWN")))
Unwrap(s, o, S) == IF s.maps[o].valid THEN S ELSE Error(s, "FREE")
(* As it would be with a length that is cut and not refused.               *)
AniValidateLengthNot(s, m, at, len, S) == S
AniValidateLength(s, m, at, len, S) == IF len = Below \/ len > Left(m, at) THEN Error(s, "OOB") ELSE S
AniSetPosition(s, c) ==
    Unwrap(s, c.o, Given(s, c.pos >= 0 /\ c.pos <= s.maps[c.o].lim, CoreSetPosition(s, c.o, c.pos)))
AniGetPosition(s, c) == Unwrap(s, c.o, CoreGetPosition(s, c.o))
AniCapacity(s, c) == Unwrap(s, c.o, CoreCapacity(s, c.o))
AniSetLimit(s, c) ==
    Unwrap(s, c.o, Given(s, c.pos >= 0 /\ c.pos <= s.maps[c.o].cap, CoreSetLimit(s, c.o, c.pos)))
AniGetLimit(s, c) == Unwrap(s, c.o, CoreGetLimit(s, c.o))
AniFlip(s, c) == Unwrap(s, c.o, CoreFlip(s, c.o))
AniRemaining(s, c) == Unwrap(s, c.o, CoreRemaining(s, c.o))
AniLength(c, buf) == IF c.len = None THEN buf ELSE c.len
AniRead(s, c) ==
    LET m == s.maps[c.o]
    IN Unwrap(s, c.o, AniValidateLength(s, m, m.pos, AniLength(c, MapBuf),
         CoreRead(s, c.o, MapBuf, Min({AniLength(c, MapBuf), MapBuf}))))
AniReadFrom(s, c) ==
    LET m == s.maps[c.o]
    IN Unwrap(s, c.o, Given(s, c.pos >= 0 /\ c.pos <= m.cap, AniValidateLength(s, m, c.pos, AniLength(c, MapBuf),
         CoreReadFrom(s, c.o, c.pos, MapBuf, Min({AniLength(c, MapBuf), MapBuf})))))
AniWrite(s, c) ==
    LET m == s.maps[c.o]
    IN Unwrap(s, c.o, IF IsReadOnly(m) THEN Error(s, "RO")
         ELSE AniValidateLength(s, m, m.pos, AniLength(c, Len(c.d)),
                CoreWrite(s, c.o, c.d, Min({AniLength(c, Len(c.d)), Len(c.d)}))))
AniWriteTo(s, c) ==
    LET m == s.maps[c.o]
    IN Unwrap(s, c.o, IF IsReadOnly(m) THEN Error(s, "RO")
         ELSE Given(s, c.pos >= 0 /\ c.pos <= m.cap, AniValidateLength(s, m, c.pos, AniLength(c, Len(c.d)),
                CoreWriteTo(s, c.o, c.pos, c.d, Min({AniLength(c, Len(c.d)), Len(c.d)})))))
AniMsyncSync(s, c) == Unwrap(s, c.o, CoreMsync(s, c.o, 0, s.maps[c.o].cap))
AniMsyncSyncWith(s, c) ==
    Unwrap(s, c.o, Given(s, c.pos >= 0 /\ c.len >= 0, CoreMsync(s, c.o, c.pos, c.len)))
AniUnmapSync(s, c) == CoreUnmap(s, c.o)

----------------------------------------------------------------------------
(* A program, a record: the bytes of the file, calls, bindings, how        *)
(* many calls and how many at a time (bounds), the errors of which the     *)
(* system may give one, and whether the bindings are known to agree.       *)
Doing == MapPrograms[plan]
MapCall(op) ==
    [op |-> op, o |-> 0, fd |-> "open", mode |-> "rw", off |-> 0, size |-> 1, pos |-> None, len |-> None, d |-> << >>]

(* A call on a mapping is given with no mapping, and made on each.         *)
MapCalls ==
    [op : {"mmap", "setPosition", "position", "capacity", "setLimit", "limit", "flip", "remaining", "read", "write",
           "msync", "unmap"},
     o : {0}, fd : {"open", "below", "closed"}, mode : {"ro", "rw", "private", "bad"}, off : Int, size : Int,
     pos : Nat \cup {None, Below}, len : Nat \cup {None, Below}, d : Seq(Nat)]
MapConstants ==
    /\ Page \in Nat \ {0} /\ {Places, MapBuf} \subseteq Nat
    /\ \A p \in DOMAIN MapPrograms :
          MapPrograms[p].files \subseteq Seq(Nat) /\ MapPrograms[p].calls \subseteq MapCalls

NapiMap(c, s) ==
    CASE c.op = "mmap" -> MmapSync(s, c)
      [] c.op = "setPosition" -> SetPosition(s, c)
      [] c.op = "position" -> GetPosition(s, c)
      [] c.op = "capacity" -> Capacity(s, c)
      [] c.op = "setLimit" -> SetLimit(s, c)
      [] c.op = "limit" -> GetLimit(s, c)
      [] c.op = "flip" -> Flip(s, c)
      [] c.op = "remaining" -> Remaining(s, c)
      [] c.op = "read" -> Read(s, c)
      [] c.op = "write" -> Write(s, c)
      [] c.op = "msync" -> MsyncSync(s, c)
      [] c.op = "unmap" -> UnmapSync(s, c)
AniMap(c, s) ==
    CASE c.op = "mmap" -> AniMmapSync(s, c)
      [] c.op = "setPosition" -> AniSetPosition(s, c)
      [] c.op = "position" -> AniGetPosition(s, c)
      [] c.op = "capacity" -> AniCapacity(s, c)
      [] c.op = "setLimit" -> AniSetLimit(s, c)
      [] c.op = "limit" -> AniGetLimit(s, c)
      [] c.op = "flip" -> AniFlip(s, c)
      [] c.op = "remaining" -> AniRemaining(s, c)
      [] c.op = "read" -> IF c.pos = None THEN AniRead(s, c) ELSE AniReadFrom(s, c)
      [] c.op = "write" -> IF c.pos = None THEN AniWrite(s, c) ELSE AniWriteTo(s, c)
      [] c.op = "msync" -> IF c.pos = None THEN AniMsyncSync(s, c) ELSE AniMsyncSyncWith(s, c)
      [] c.op = "unmap" -> AniUnmapSync(s, c)

(* Programs wait for an unmap before they use the mapping again, and for   *)
(* an mmap of the file before the next one.                                *)
Free(c) ==
    /\ c.op = "mmap" => \A t \in todo : t.c.op # "mmap"
    /\ \A t \in todo : t.c.o = c.o /\ c.o # 0 => c.op # "unmap" /\ t.c.op # "unmap"
(* The mappings that have their object.                                    *)
Known ==
    {i \in DOMAIN st.maps : \A t \in todo : t.c.op = "mmap" /\ t.stage = "done" /\ t.e = "OK" => t.o # i}
CallsOf(t) == {c \in IF t.op = "mmap" THEN {t} ELSE {[t EXCEPT !.o = i] : i \in Known} : Free(c)}

Plain(s) ==
    [file |-> s.file, kern |-> s.kern, maps |-> s.maps, f |-> s.f, e |-> "OK", n |-> 0, c |-> << >>, o |-> 0]
Quiet == [op |-> "", o |-> 0, e |-> "OK", n |-> 0, c |-> << >>, call |-> MapCall("")]
Heard(c, o) == [op |-> c.op, o |-> c.o, e |-> o.e, n |-> o.n, c |-> o.c, call |-> c]

InitWith(p) ==
    /\ plan = p
    /\ \E bytes \in Doing.files :
          st = [file |-> bytes, kern |-> [a \in 1 .. Places |-> Unmapped], maps |-> << >>, f |-> Doing.failing,
                e |-> "OK", n |-> 0, c |-> << >>, o |-> 0]
    /\ used = 0 /\ todo = {} /\ heard = Quiet
Init == \E p \in DOMAIN MapPrograms : InitWith(p)

Calling(b) == b \in Doing.bindings /\ used < Doing.max /\ used' = used + 1 /\ plan' = plan
NapiCalls(c) ==
    /\ Calling("napi")
    /\ \E o \in NapiMap(c, st) : st' = Plain(o) /\ heard' = Heard(c, o)
    /\ todo' = todo
AniCalls(c) ==
    /\ Calling("ani")
    /\ \E o \in AniMap(c, st) : st' = Plain(o) /\ heard' = Heard(c, o)
    /\ todo' = todo

(* A call for the workers: the JavaScript thread looks at the arguments,   *)
(* and takes the length of what is mapped.                                 *)
Posts(c, s) == CASE c.op = "mmap" -> MmapAsync(s, c) [] c.op = "msync" -> Msync(s, c) [] c.op = "unmap" -> {s}
FirstStage(c) == IF c.op = "mmap" THEN "stat" ELSE IF c.op = "msync" THEN "msync" ELSE "munmap"
NapiPosts(c) ==
    /\ Calling("napi") /\ c.op \in {"mmap", "msync", "unmap"} /\ Cardinality(todo) < Doing.width
    /\ \E o \in Posts(c, st) :
          /\ st' = Plain(o) /\ heard' = Heard(c, o)
          /\ todo' = IF o.e # "OK" THEN todo
                     ELSE todo \cup {[c |-> c, id |-> used, stage |-> FirstStage(c), e |-> "OK", o |-> 0,
                                      len |-> IF c.op = "msync" THEN MsyncLen(st, c) ELSE 0]}
(* A step of a worker: its outcomes, and where it goes on.                 *)
Worked(t, outcomes, stage, len) ==
    /\ \E o \in outcomes :
          /\ st' = Plain(o)
          /\ todo' = (todo \ {t}) \cup
                     {[c |-> t.c, id |-> t.id, stage |-> IF o.e = "OK" THEN stage ELSE "done", e |-> o.e, o |-> o.o,
                       len |-> len]}
    /\ heard' = Quiet /\ UNCHANGED <<plan, used>>
MmapStat(t) == t.stage = "stat" /\ Worked(t, StatSize(st, t.c), "grow", Len(st.file))
MmapGrow(t) == t.stage = "grow" /\ Worked(t, ExpandFileIfNeeded(st, t.c, t.len), "map", 0)
MmapMap(t) == t.stage = "map" /\ Worked(t, MapPages(st, t.c), "done", 0)
MsyncWork(t) == t.stage = "msync" /\ Worked(t, CoreMsync(st, t.c.o, MsyncFrom(t.c), t.len), "done", 0)
UnmapPages(t) ==
    /\ t.stage = "munmap"
    /\ Worked(t, Pages(st, t.c.o), IF st.maps[t.c.o].valid THEN "clear" ELSE "done", 0)
UnmapClear(t) == t.stage = "clear" /\ Worked(t, {Cleared(st, t.c.o)}, "done", 0)
(* The JavaScript thread hears of it, and makes the object.                *)
Resolved(t) ==
    /\ t.stage = "done" /\ todo' = todo \ {t}
    /\ \E o \in IF t.c.op = "mmap" /\ t.e = "OK" THEN InstantiateFileMapping([st EXCEPT !.o = t.o])
                 ELSE {[st EXCEPT !.e = t.e]} : st' = Plain(o) /\ heard' = Quiet
    /\ UNCHANGED <<plan, used>>

Next ==
    \/ \E t \in Doing.calls : \E c \in CallsOf(t) : NapiCalls(c) \/ AniCalls(c) \/ NapiPosts(c)
    \/ \E t \in todo :
          MmapStat(t) \/ MmapGrow(t) \/ MmapMap(t) \/ MsyncWork(t) \/ UnmapPages(t) \/ UnmapClear(t) \/ Resolved(t)
Spec == Init /\ [][Next]_mapVars

----------------------------------------------------------------------------
(* What an entity says of its mapping is true of the memory: all of it is  *)
(* mapped and has bytes of the file behind it, at the offset asked for,    *)
(* and the position is never beyond the limit nor the limit beyond the     *)
(* capacity, whatever moved them.                                          *)
Unmapping(o) == \E t \in todo : t.c.o = o /\ t.stage = "clear"
MappingBacked ==
    \A o \in DOMAIN st.maps :
        LET m == st.maps[o]
            k == st.kern[m.a]
        IN m.valid /\ ~Unmapping(o) =>
              /\ 0 <= m.pos /\ m.pos <= m.lim /\ m.lim <= m.cap
              /\ k.len = m.raw /\ k.from + m.adj = m.off /\ m.adj < Page
              /\ m.off + m.cap <= Len(st.file)

(* Every place that is mapped belongs to one entity that will unmap it: no *)
(* failure leaves one behind, and none is unmapped for another.            *)
PlacesOwned ==
    \A a \in 1 .. Places :
        Cardinality({o \in DOMAIN st.maps : st.maps[o].valid /\ st.maps[o].a = a /\ ~Unmapping(o)})
            = IF st.kern[a].len > 0 THEN 1 ELSE 0

(* Mappings are safe: entities and the memory of the process agree, in     *)
(* both directions.                                                        *)
MappingsSafe == MappingBacked /\ PlacesOwned

(* A read gives the bytes of the file, a write changes those bytes and no  *)
(* others, both inside the limit of the mapping and at its position or the *)
(* one given, and only the former moves; a private mapping changes nothing *)
(* in the file, and a mapping that is only read is not written to.  No     *)
(* call reaches for memory that is not mapped, or beyond the file.         *)
Moved(c) == IF c.pos = None THEN st.maps[c.o].pos ELSE c.pos
Splice(bytes, at, d) == [i \in DOMAIN bytes |-> IF i > at /\ i <= at + Len(d) THEN d[i - at] ELSE bytes[i]]
MapTransfers ==
    /\ heard'.e # "FAULT"
    /\ heard'.op \in {"read", "write"} /\ heard'.e = "OK" =>
      LET c == heard'.call
          m == st.maps[c.o]
          at == Moved(c)
      IN /\ heard'.n > 0 => at + heard'.n <= m.lim
         /\ st'.maps[c.o].pos = IF c.pos = None THEN at + heard'.n ELSE m.pos
         /\ c.op = "read" => st'.file = st.file /\ Len(heard'.c) = heard'.n
         /\ c.op = "read" /\ m.mode # "private" => heard'.c = SubSeq(st.file, m.off + at + 1, m.off + at + heard'.n)
         /\ c.op = "write" => m.mode # "ro"
         /\ c.op = "write" => st'.file = IF m.mode = "rw" THEN Splice(st.file, m.off + at, SubSeq(c.d, 1, heard'.n))
                                        ELSE st.file

(* The two bindings answer alike and leave the same behind, but for a      *)
(* length below zero, which the dynamic one takes for none.                *)
MapBindingsAgree ==
    Doing.agree /\ used < Doing.max => \A t \in Doing.calls : \A c \in CallsOf(t) :
        c.len # Below => NapiMap(c, [st EXCEPT !.f = {}]) = AniMap(c, [st EXCEPT !.f = {}])
============================================================================

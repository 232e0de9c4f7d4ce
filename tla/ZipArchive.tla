----------------------------- MODULE ZipArchive -----------------------------
(***************************************************************************)
(* Writing a zip archive (zip_writer.c behind oh_archive_writer.c) and     *)
(* reading it back (zip_reader.c, zip_reader_impl.c behind                 *)
(* oh_archive_reader.c).  The file is a set of records, each at its        *)
(* offset; sizes and offsets are numbers in a unit of the model, with the  *)
(* limits of the format scaled down: Max16 and Max32 stand for UINT16_MAX  *)
(* and UINT32_MAX, Zip64From for ZIP_4GB_MAX_UNCOMPRESSED.  The contents   *)
(* of a file are its name and size, and a CRC is the contents it was       *)
(* computed of.  Every header has length 1, plus 1 per zip64 field.        *)
(***************************************************************************)
EXTENDS Naturals, Sequences, FiniteSets, SequencesExt

CONSTANTS
    Max16, Max32, Zip64From,
    Inputs,         \* the lists of paths that may be given to Add
    Children,       \* the directories, each with the sequence of what is in it
    Links,          \* the paths that are symbolic links
    FileSizes,      \* the sizes a file may have when it is stat'ed or read
    PackedSizes,    \* the sizes deflate may produce
    Existing,       \* the files that are in the output directory beforehand
    Dangling,       \* the symbolic links there that lead nowhere
    MaxEntries      \* bound: no Add begins once there are so many entries

Paths == UNION {Range(q) : q \in Inputs} \cup UNION {Range(Children[d]) : d \in DOMAIN Children}

ASSUME ZipAssumption ==
    /\ Inputs \subseteq Seq(Paths) /\ \A d \in DOMAIN Children : Children[d] \in Seq(Paths)
    /\ {Max16, Max32, Zip64From, MaxEntries} \subseteq Nat
    /\ Zip64From < Max32
    /\ FileSizes \subseteq Nat /\ PackedSizes \subseteq Nat \ {0}
    /\ IsFiniteSet(Existing) /\ IsFiniteSet(Dangling) /\ Existing \cap Dangling = {}
    /\ \A f \in Existing \cup Dangling : Len(f) = 2 /\ f[1] \notin DOMAIN Children

VARIABLES
    wpc,            \* where the writer is
    wret,           \* what the last call of the writer returned
    opened,         \* ZipWriter::isOpened
    base,           \* ZipWriter::baseStream is there
    method,         \* HmArchiveWriteInfo::method
    image,          \* the records of the output file
    pos,            \* the position of baseStream
    cd,             \* cdMemStream: the central directory so far
    queue,          \* the paths still to be added
    entry,          \* the entry being written
    archived,       \* the entries written so far, as they were read
    swallowed,      \* the failed writes of the output that no call reported
    rpc, rret,      \* where the reader is, what its last call returned
    rd,             \* ZipReader: where the central directory is said to be
    index, cur,     \* fileIndex and curCentralDirHeaderPos
    out,            \* the output directory
    extracted       \* the entries extracted so far

writerVars == <<wpc, wret, opened, base, method, image, pos, cd, queue, entry,
                archived, swallowed>>
readerVars == <<rpc, rret, rd, index, cur, out, extracted>>
vars == <<writerVars, readerVars>>

Clip(n, max) == IF n > max THEN max ELSE n
Kind(p) == IF p \in DOMAIN Children THEN "dir"
           ELSE IF p \in Links THEN "link" ELSE "file"
NoEntry == [path |-> <<>>]
NoArchive == [zip64 |-> FALSE, at |-> 0, size |-> 0, total |-> 0, correction |-> 0]

Init ==
    /\ wpc = "ready" /\ wret = "none" /\ opened = FALSE /\ base = TRUE
    /\ method = "deflate"
    /\ image = {} /\ pos = 0 /\ cd = <<>> /\ queue = <<>> /\ entry = NoEntry
    /\ archived = <<>> /\ swallowed = {}
    /\ rpc = "none" /\ rret = "none" /\ rd = NoArchive /\ index = 0 /\ cur = 0
    /\ out = [p \in Existing \cup Dangling |-> IF p \in Existing THEN "old" ELSE "link"]
    /\ extracted = <<>>

-----------------------------------------------------------------------------
(* The writer                                                              *)

SetCompressMethod ==
    /\ wpc = "ready" /\ method = "deflate"
    /\ method' = "store"
    /\ UNCHANGED <<wpc, wret, opened, base, image, pos, cd, queue, entry, archived,
                   swallowed, readerVars>>

\* OpenOutputFile: an output that cannot be opened takes the stream with it.
OpenOutputFails ==
    /\ ~opened
    /\ base' = FALSE /\ wret' = "error"
    /\ UNCHANGED <<wpc, opened, queue>>

\* Add opens the output on the first call.  A path that does not exist ends the
\* call before anything was written.
Add(paths) ==
    /\ wpc = "ready" /\ base /\ Len(cd) < MaxEntries
    /\ \/ OpenOutputFails
       \/ /\ opened' = TRUE /\ wret' = "error"
          /\ UNCHANGED <<wpc, base, queue>>
       \/ /\ opened' = TRUE /\ wpc' = "adding" /\ queue' = paths
          /\ UNCHANGED <<base, wret>>
    /\ UNCHANGED <<method, image, pos, cd, entry, archived, swallowed, readerVars>>

\* Any later failure, and a cancellation by the progress handler, closes the
\* output and removes it, with what earlier calls of Add have put there.
DeleteFiles ==
    /\ wpc \in {"adding", "reading", "closing"}
    /\ base' = FALSE /\ image' = {}
    /\ wpc' = "ready" /\ wret' = "error" /\ queue' = <<>> /\ entry' = NoEntry
    /\ UNCHANGED <<opened, method, pos, cd, archived, swallowed, readerVars>>

LocalHeader(e) ==
    [at |-> e.at, len |-> IF e.zip64 THEN 2 ELSE 1, kind |-> "local",
     u |-> Clip(e.u, Max32), c |-> Clip(e.c, Max32),
     extra |-> IF e.zip64 THEN <<e.u, e.c>> ELSE <<>>]

NeedZip64(size) == size > Zip64From

\* AddOneFile: what can neither be opened nor accessed is passed over, unless it
\* does not exist, which has an error code of its own and fails the call.
PassOver ==
    /\ Kind(Head(queue)) # "dir"
    /\ queue' = Tail(queue)
    /\ UNCHANGED <<wpc, image, pos, entry>>

\* EntryOpen: the size that stat tells decides whether the header has room for
\* 64-bit sizes.
EntryOpen ==
    /\ wpc = "adding" /\ queue # <<>>
    /\ LET p == Head(queue) IN
       \/ PassOver
       \/ \E size \in IF Kind(p) = "dir" THEN {0} ELSE FileSizes :
            LET e == [path |-> p, at |-> pos, u |-> size, c |-> 0,
                      zip64 |-> NeedZip64(size),
                      method |-> IF Kind(p) = "dir" THEN "store" ELSE method,
                      data |-> [of |-> p, size |-> 0], torn |-> FALSE]
            IN  /\ entry' = e
                /\ image' = image \cup {LocalHeader(e)}
                /\ pos' = pos + LocalHeader(e).len
                /\ wpc' = IF Kind(p) = "dir" THEN "closing" ELSE "reading"
                /\ UNCHANGED queue
    /\ UNCHANGED <<wret, opened, base, method, cd, archived, swallowed, readerVars>>

\* When the output fails DeflateWriteBuf returns the last result of deflate, Z_OK:
\* what is left of the chunk is dropped and the copy goes on, which loses data
\* unless the chunk was the last.
DeflateMayLose(n) == IF method = "deflate" /\ n > 1 THEN BOOLEAN ELSE {FALSE}

\* AddData copies what is in the file now, more or less than stat told.
AddData ==
    /\ wpc = "reading"
    /\ \E n \in IF Kind(entry.path) = "link" THEN {1} ELSE FileSizes :
       \E torn \in DeflateMayLose(n) :
         /\ \E c \in IF method = "store" THEN {n} ELSE PackedSizes :
              entry' = [entry EXCEPT !.u = n, !.c = c, !.torn = torn,
                                     !.data = [of |-> entry.path, size |-> n]]
         /\ swallowed' = IF torn THEN swallowed \cup {"write"} ELSE swallowed
    /\ wpc' = "closing"
    /\ UNCHANGED <<wret, opened, base, method, image, pos, cd, queue, archived,
                   readerVars>>

\* GetCdExtraFieldZip64DataSize and ZipWriteExtraFieldZip64Cd: a field is there
\* for every number above the limit.
Zip64Extra(e) ==
    LET above(n) == IF n > Max32 THEN <<n>> ELSE <<>>
    IN  above(e.u) \o above(e.c) \o above(e.at)

\* It gets its offset when the directory is saved.
CdHeader(e) ==
    [at |-> 0, len |-> 1 + Len(Zip64Extra(e)), kind |-> "cd", path |-> e.path,
     method |-> e.method, crc |-> e.data,
     u |-> Clip(e.u, Max32), c |-> Clip(e.c, Max32), at32 |-> Clip(e.at, Max32),
     extra |-> Zip64Extra(e)]

DataOf(e) ==
    [at |-> pos, len |-> e.c, kind |-> "data", data |-> e.data, torn |-> e.torn]

OtherThanLocal(e) == image \ {r \in image : r.kind = "local" /\ r.at = e.at}

UpdateLocalHeaderSkipped(e) ==
    /\ e.zip64 \/ (e.u <= Max32 /\ e.c <= Max32)
    /\ image' = image \cup {DataOf(e)}

UpdateLocalHeaderGrows(e) ==
    image' = OtherThanLocal(e) \cup
               {LocalHeader([e EXCEPT !.zip64 = e.u > Max32 \/ e.c > Max32]), DataOf(e)}

\* ZipEntryUpdateLocalHeader: the header gets the real sizes, if it has room.
UpdateLocalHeader(e) ==
    /\ e.zip64 \/ (e.u <= Max32 /\ e.c <= Max32)
    /\ image' = OtherThanLocal(e) \cup {LocalHeader(e), DataOf(e)}

\* TraversalDir: a directory that cannot be opened counts as an empty one.
TraversalDir(p) == IF Kind(p) = "dir" THEN {Children[p], <<>>} ELSE {<<>>}

CloseStream ==
    /\ wpc = "closing"
    /\ UpdateLocalHeader(entry)
    /\ pos' = pos + entry.c
    /\ cd' = Append(cd, CdHeader(entry))
    /\ archived' = Append(archived, [path |-> entry.path, data |-> entry.data])
    /\ \E more \in TraversalDir(entry.path) : queue' = Tail(queue) \o more
    /\ wpc' = "adding" /\ entry' = NoEntry
    /\ UNCHANGED <<wret, opened, base, method, swallowed, readerVars>>

AddReturns ==
    /\ wpc = "adding" /\ queue = <<>>
    /\ wpc' = "ready" /\ wret' = "ok"
    /\ UNCHANGED <<opened, base, method, image, pos, cd, queue, entry, archived,
                   swallowed, readerVars>>

SumLen(s) == FoldSeq(LAMBDA a, b : a + b, 0, [i \in DOMAIN s |-> s[i].len])
Placed(s, at) ==
    {[s[i] EXCEPT !.at = at + SumLen(SubSeq(s, 1, i - 1))] : i \in DOMAIN s}

\* SaveCD: the central directory, the zip64 records where a number does not fit,
\* and the end record with what fits.
EndRecordsIf(zip64, at, size, n) ==
    LET end == at + size
        end64 == [at |-> end, len |-> 1, kind |-> "eocd64", off |-> at,
                  size |-> size, total |-> n]
        locator == [at |-> end + 1, len |-> 1, kind |-> "locator", off |-> end]
        eocd(a) == [at |-> a, len |-> 1, kind |-> "eocd", off |-> Clip(at, Max32),
                    size |-> Clip(size, Max32), total |-> Clip(n, Max16)]
    IN  IF zip64 THEN {end64, locator, eocd(end + 2)} ELSE {eocd(end)}

EndRecordsByOffset(at, size, n) ==
    EndRecordsIf(size > Max32 \/ at > Max32, at, size, n)

EndRecords(at, size, n) ==
    EndRecordsIf(size > Max32 \/ at > Max32 \/ n > Max16, at, size, n)

\* Close.  A write that fails on the way is reported and leaves half a directory;
\* one that fails when fclose flushes its buffer is not.  Without a stream, after
\* a failed Add, there is nothing to do and Close succeeds.
Close ==
    /\ wpc = "ready"
    /\ wpc' = "closed" /\ base' = FALSE
    /\ LET dir == Placed(cd, pos) IN
       \/ /\ opened /\ base
          /\ image' = image \cup dir \cup EndRecords(pos, SumLen(cd), Len(cd))
          /\ wret' = "ok" /\ UNCHANGED swallowed
       \/ /\ opened /\ base
          /\ image' = image \cup dir
          /\ wret' = "error" /\ UNCHANGED swallowed
       \/ /\ opened /\ base
          /\ image' = image \cup dir
          /\ wret' = "ok" /\ swallowed' = swallowed \cup {"flush"}
       \/ /\ ~(opened /\ base)
          /\ wret' = "ok" /\ UNCHANGED <<image, swallowed>>
    /\ UNCHANGED <<opened, method, pos, cd, queue, entry, archived, readerVars>>

-----------------------------------------------------------------------------
(* The reader                                                              *)

At(a, kind) == {r \in image : r.at = a /\ r.kind = kind}
The(S) == CHOOSE r \in S : TRUE

\* ZipSearchEOCD64: without a locator in front of the end record the 64-bit one
\* is left all zero.
SearchEOCD64(eocd) ==
    LET locator == At(eocd.at - 1, "locator")
    IN  IF locator = {} THEN [at |-> 0, off |-> 0, size |-> 0, total |-> 0]
        ELSE The(At(The(locator).off, "eocd64"))

\* ZipSearchEOCD: the end record, or the 64-bit one when a field of it is full.
SearchEOCD ==
    LET eocd == The({r \in image : r.kind = "eocd"})
        zip64 == eocd.total = Max16 \/ eocd.off = Max32
    IN  [zip64 |-> zip64, end |-> IF zip64 THEN SearchEOCD64(eocd) ELSE eocd]

\* ZipCheckAndCorrectCentralDirOffset: where the directory is, or nothing.
CorrectCentralDir(zip64, end) ==
    LET found(at, size) ==
          {[zip64 |-> zip64, at |-> at, size |-> size, total |-> end.total,
            correction |-> at - end.off]}
    IN  IF At(end.off, "cd") # {}
        THEN found(end.off, IF end.at < end.off + end.size
                            THEN end.at - end.off ELSE end.size)
        ELSE IF end.at > Max32 /\ ~zip64 THEN {}
        ELSE IF At(end.at - end.size, "cd") # {} THEN found(end.at - end.size, end.size)
        ELSE IF end.size = 0 /\ end.at >= end.off THEN found(end.off, 0)
        ELSE {}

OpenFile ==
    /\ rpc = "none" /\ wpc = "closed"
    /\ LET place == IF \E r \in image : r.kind = "eocd"
                    THEN CorrectCentralDir(SearchEOCD.zip64, SearchEOCD.end) ELSE {}
       IN  \/ place = {} /\ rpc' = "ended" /\ rret' = "error" /\ UNCHANGED rd
           \/ place # {} /\ rpc' = "open" /\ rd' = The(place) /\ UNCHANGED rret
    /\ UNCHANGED <<writerVars, index, cur, out, extracted>>

\* ZipReadZip64ExtraField: a full field is taken from the extra data, the first
\* number of it that has not been taken yet.
Zip64Field(r) ==
    LET has(i) == Len(r.extra) >= i
        useU == r.u = Max32 /\ has(1)
        i == IF useU THEN 1 ELSE 0
        useC == r.c = Max32 /\ has(i + 1)
        j == IF useC THEN i + 1 ELSE i
        useAt == r.at32 = Max32 /\ has(j + 1)
    IN  [u |-> IF useU THEN r.extra[1] ELSE r.u,
         c |-> IF useC THEN r.extra[i + 1] ELSE r.c,
         at |-> IF useAt THEN r.extra[j + 1] ELSE r.at32]

Ends(ret) == rpc' = "ended" /\ rret' = ret

\* GotoFirst and GotoNext: ExtractAllFile turns END_OF_LIST into success.
GotoEntry(p, i) ==
    IF i >= rd.total \/ p >= rd.at + rd.size
    THEN Ends("ok") /\ UNCHANGED <<index, cur>>
    ELSE IF At(p, "cd") = {}
         THEN Ends(IF At(p, "eocd") \cup At(p, "eocd64") # {} THEN "ok" ELSE "error")
              /\ UNCHANGED <<index, cur>>
         ELSE rpc' = "entry" /\ index' = i /\ cur' = p /\ UNCHANGED rret

GotoFirst ==
    /\ rpc = "open"
    /\ GotoEntry(rd.at, 0)
    /\ UNCHANGED <<writerVars, rd, out, extracted>>

Header == The(At(cur, "cd"))

GotoNext ==
    /\ rpc = "next"
    /\ GotoEntry(cur + Header.len, index + 1)
    /\ UNCHANGED <<writerVars, rd, out, extracted>>

\* ZipSeekAndCheckLocalHeader
LocalHeaderAt(at) ==
    IF rd.correction > 0 /\ At(at + rd.correction, "local") # {}
    THEN At(at + rd.correction, "local") ELSE At(at, "local")

\* ReadData through the stream of the method: nothing when a size is zero, and a
\* stored file as far as the compressed size goes.
Decoded(h, f, d) ==
    IF f.u = 0 \/ f.c = 0 THEN [of |-> h.path, size |-> 0]
    ELSE IF d.torn \/ (h.method = "store" /\ f.c # d.len)
    THEN [of |-> "other bytes", size |-> 1]
    ELSE d.data

\* Numbers of which one is free, however many names are taken.
Copies == 1 .. (Cardinality(DOMAIN out) + 1)
Loose == {p \in DOMAIN out : out[p] = "link"}
\* Where a link leads that led nowhere: to no name the archive knows.
Target(p) == <<p[1], p[2], "target">>
\* IsFileExists, and access later on, are about what a name leads to: of the links
\* that led nowhere and those that were made only some lead to a file by now.
IsFileExists(p, leading) ==
    p \in DOMAIN out /\ (p \in Loose => p \in leading \/ Target(p) \in DOMAIN out)
RenamedAlways(p, leading) == <<p, 1>>
\* AutoRenamePath: the first name that nothing exists by.
AutoRenamePath(p, leading) ==
    <<p, CHOOSE n \in Copies : /\ ~IsFileExists(<<p, n>>, leading)
                               /\ \A m \in 1 .. (n - 1) : IsFileExists(<<p, m>>, leading)>>

\* fopen writes through a link.
Place(p) == IF p \in Loose THEN Target(p) ELSE p

Without(f, S) == [x \in DOMAIN f \ S |-> f[x]]
\* The name p is given to a file, link or directory.
Created(p, what) == out' = [x \in DOMAIN out \cup {p} |-> IF x = p THEN what ELSE out[x]]
\* A file that was not written to its end is just closed.
KeepTempFile(p) == Created(Place(p), "part")

\* DeleteTempFileWithRootPath: the file, and the directory it was in if that is
\* empty now.  Of a file that was written through a link it is the link that goes.
DeleteTempFile(p) ==
    LET parents == {d \in DOMAIN Children : p[1] \in Range(Children[d])}
        inside(d) == {x \in DOMAIN out \ {p} : Len(x) = 2 /\ x[1] \in Range(Children[d])}
        gone == {p} \cup {<<d, 1>> : d \in {x \in parents : inside(x) = {}}}
        part == IF p \in Loose THEN {Target(p)} ELSE {}
    IN  out' = [x \in (DOMAIN out \ gone) \cup part |-> IF x \in part THEN "part" ELSE out[x]]

\* OpenEntry finds the local header and truncates the file; SaveFile copies until
\* the data ends, the handler cancels or a write fails, and compares the CRC.
SaveFile(h, f, p) ==
    LET local == LocalHeaderAt(f.at) IN
    IF local = {} THEN Ends("error") /\ UNCHANGED <<out, extracted>>
    ELSE LET d == The(At(The(local).at + The(local).len, "data"))
             content == Decoded(h, f, d)
         IN  \/ p \in Loose /\ Ends("error") /\ UNCHANGED <<out, extracted>>
             \/ Ends("cancel") /\ DeleteTempFile(p) /\ UNCHANGED extracted
             \/ /\ content.size # 0 \/ content # h.crc
                /\ Ends("error") /\ KeepTempFile(p) /\ UNCHANGED extracted
             \/ /\ content = h.crc
                /\ rpc' = "next" /\ Created(Place(p), "new")
                /\ extracted' = Append(extracted, [path |-> h.path, data |-> content])
                /\ UNCHANGED rret

\* A link is not written through a stream: a link of the name that leads nowhere is
\* removed, then the target is checked and the link made, or the extraction ends.
MakeSymlink(h, f, p) ==
    \/ Ends("error") /\ UNCHANGED <<out, extracted>>
    \/ /\ LocalHeaderAt(f.at) # {}
       /\ Ends("error") /\ out' = Without(out, {p}) /\ UNCHANGED extracted
    \/ /\ LocalHeaderAt(f.at) # {}
       /\ rpc' = "next" /\ Created(p, "link")
       /\ extracted' = Append(extracted, [path |-> h.path, data |-> h.crc])
       /\ UNCHANGED rret

ExtractEntry ==
    /\ rpc = "entry"
    /\ LET h == Header
           f == Zip64Field(h)
       IN  \/ /\ Kind(h.path) = "dir"
              /\ rpc' = "next" /\ Created(<<h.path, 1>>, "dir")
              /\ extracted' = Append(extracted, [path |-> h.path, data |-> h.crc])
              /\ UNCHANGED rret
           \/ \E leading \in SUBSET Loose :
                LET p == AutoRenamePath(h.path, leading) IN
                \/ Kind(h.path) = "file" /\ SaveFile(h, f, p)
                \/ Kind(h.path) = "link" /\ MakeSymlink(h, f, p)
    /\ UNCHANGED <<writerVars, rd, index, cur>>

-----------------------------------------------------------------------------
\* Everything is done; a real program goes on with something else.
Finished == rpc = "ended" /\ UNCHANGED vars

Next ==
    \/ SetCompressMethod \/ (\E paths \in Inputs : Add(paths)) \/ EntryOpen
    \/ AddData \/ CloseStream \/ AddReturns \/ DeleteFiles \/ Close
    \/ OpenFile \/ GotoFirst \/ ExtractEntry \/ GotoNext
    \/ Finished

Spec == Init /\ [][Next]_vars

-----------------------------------------------------------------------------
Sound == wpc = "closed" /\ opened /\ image # {} /\ wret = "ok" /\ swallowed = {}

\* The numbers for which the format's "look in the zip64 record" and a plain
\* value are the same: an archive with exactly Max16 entries, a directory or an
\* entry exactly at Max32, a size of exactly Max32.
EntryOnTheLimit ==
    \E r \in image : \/ r.kind = "local" /\ r.at = Max32
                     \/ r.kind = "data" /\ Max32 \in {r.len, r.data.size}
OnTheLimit == Len(cd) = Max16 \/ pos = Max32 \/ EntryOnTheLimit

\* What the writer archived is what the reader extracts, in the same order, for
\* every mix of small and large entries, sizes that changed between stat and
\* read, and 64-bit records: the reader is never misled about an archive that
\* was closed without a fault, and stops only where it was cancelled, could not
\* write, refused a link or found one in its way.  The archives on the limit are left out: there the
\* reader takes a value for the mark that the value is elsewhere.
RoundTrip ==
    Sound /\ rpc = "ended" /\ ~OnTheLimit =>
        /\ rret = "ok" => extracted = archived
        /\ rret # "ok" => \/ \E p \in DOMAIN out : out[p] = "part"
                          \/ rret = "cancel" \/ Kind(Header.path) = "link"
                          \/ \E p \in Loose : p[1] = Header.path
        /\ IsPrefix(extracted, archived)

\* The local header and the central directory tell the same sizes of every
\* finished entry, although the one was written before the sizes were known and
\* only has room for 64 bits if stat said so.
HeadersAgree ==
    image # {} /\ ~EntryOnTheLimit =>
        \A i \in DOMAIN cd :
            LET f == Zip64Field(cd[i]) IN
            \E l \in At(f.at, "local") :
                /\ f.u = IF l.extra # <<>> THEN l.extra[1] ELSE l.u
                /\ f.c = IF l.extra # <<>> THEN l.extra[2] ELSE l.c

\* No record overlaps another, although local headers are written again later:
\* a header keeps the length it had before the sizes were known.
RecordsDisjoint ==
    \A r, s \in image : r = s \/ r.at + r.len <= s.at \/ s.at + s.len <= r.at

\* The archive is sound at every moment it is written: what was written early and
\* written again late, when the sizes are known, fits and agrees.
ArchiveSound == HeadersAgree /\ RecordsDisjoint

\* Extraction never touches a file that was there before, whatever the archive
\* holds, also when it is cancelled and cleans up.  A link that leads nowhere is not
\* seen: a link entry of its name removes it, also when it is refused itself, and a
\* file entry writes through it.
SparesExisting == \A p \in Existing : p \in DOMAIN out /\ out[p] = "old"

\* A cancelled extraction leaves no file that is only half there, unless it was
\* writing through a link that led nowhere: then it removes the link.
CancelLeavesNoPart == rret = "cancel" => \A p \in DOMAIN out : out[p] = "part" => Len(p) = 3

\* An extraction that fails leaves at most one file half done, the one of the entry
\* at which it failed: all that it had extracted before is whole.
FailureLeavesOnePart ==
    \A p \in DOMAIN out : out[p] = "part" =>
        /\ rret \in {"error", "cancel"} /\ p[1] = Header.path
        /\ \A q \in DOMAIN out : out[q] = "part" => q = p

\* Extraction treats the directory it extracts to with care: files that were there
\* are never touched, a cancelled extraction leaves nothing half done, and a failed
\* one no more than the entry it failed at.
OutputSafe == SparesExisting /\ CancelLeavesNoPart /\ FailureLeavesOnePart
=============================================================================

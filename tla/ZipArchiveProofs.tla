-------------------------- MODULE ZipArchiveProofs --------------------------
(***************************************************************************)
(* Proofs about ZipArchive, for any lists of paths, sizes and limits of    *)
(* the format.  OutInv is about the directory that is extracted to.        *)
(* WriteInv says of the file that is written where its records are and     *)
(* what the directory, the local headers and the data tell of an entry;    *)
(* ReadInv, of an archive that was closed without a fault, that the reader *)
(* goes through the directory header by header and that it has extracted   *)
(* the entries before the one it is at.                                    *)
(***************************************************************************)
EXTENDS ZipArchive, SequenceTheorems, SumLemmas
-----------------------------------------------------------------------------
(* The output directory                                                    *)

NoPart == \A p \in DOMAIN out : out[p] # "part"
OutInv ==
    /\ IsFiniteSet(DOMAIN out) /\ OutputSafe
    /\ rpc # "none" => wpc = "closed"
    /\ rpc # "ended" => rret = "none" /\ NoPart

LEMMA OutInit == Init => OutInv
<1> SUFFICES ASSUME Init PROVE OutInv
    OBVIOUS
<1>1. /\ DOMAIN out = Existing \cup Dangling /\ rret = "none" /\ rpc = "none"
      /\ \A p \in Existing : out[p] = "old"
      /\ \A p \in DOMAIN out : out[p] # "part"
    BY DEF Init
<1>2. IsFiniteSet(DOMAIN out)
    <2>1. IsFiniteSet(Existing) /\ IsFiniteSet(Dangling)
        BY ZipAssumption
    <2>2. IsFiniteSet(Existing \cup Dangling)
        BY <2>1, FS_Union, Zenon
    <2> QED BY <1>1, <2>2
<1> QED BY <1>1, <1>2 DEF OutInv, OutputSafe, SparesExisting, CancelLeavesNoPart, FailureLeavesOnePart, NoPart

\* There is a name that nothing exists by.
LEMMA RenamedIsFree ==
    ASSUME IsFiniteSet(DOMAIN out), NEW p, NEW leading
    PROVE  \E n : AutoRenamePath(p, leading) = <<p, n>> /\ ~IsFileExists(<<p, n>>, leading)
<1> DEFINE free == {n \in Copies : ~IsFileExists(<<p, n>>, leading)}
           K == Cardinality(DOMAIN out)
<1>1. K \in Nat /\ Copies = 1 .. K + 1
    BY FS_CardinalityType DEF Copies
<1>2. IsFiniteSet(Copies) /\ Cardinality(Copies) = K + 1
    <2>1. IsFiniteSet(1 .. K + 1) /\ Cardinality(1 .. K + 1) = K + 1
        BY <1>1, FS_Interval
    <2> QED BY <1>1, <2>1
<1>3. free # {}
    <2> SUFFICES ASSUME \A n \in Copies : IsFileExists(<<p, n>>, leading) PROVE FALSE
        OBVIOUS
    <2> DEFINE f == [n \in Copies |-> <<p, n>>]
    <2>1. f \in [Copies -> DOMAIN out]
        BY DEF IsFileExists
    <2>2. Cardinality(DOMAIN out) < Cardinality(Copies)
        BY <1>1, <1>2
    <2>3. \E x, y \in Copies : x # y /\ f[x] = f[y]
        <3> HIDE DEF f
        <3> QED BY <1>2, <2>1, <2>2, FS_PigeonHole
    <2> QED BY <2>3
<1>4. free \in SUBSET Nat
    BY <1>1
<1>5. PICK n \in free : \A m \in free : n <= m
    <2> HIDE DEF free
    <2> QED BY <1>3, <1>4, LeastNat
<1>6. ASSUME NEW m \in 1 .. (n - 1) PROVE IsFileExists(<<p, m>>, leading)
    <2>1. m \in Copies /\ m < n
        BY <1>1, <1>5, <1>6
    <2>2. m \notin free
        BY <1>1, <1>5, <2>1
    <2> QED BY <2>1, <2>2
<1> DEFINE First(k) == /\ ~IsFileExists(<<p, k>>, leading)
                       /\ \A m \in 1 .. (k - 1) : IsFileExists(<<p, m>>, leading)
<1>7. \E k \in Copies : First(k)
    BY <1>5, <1>6
<1>8. First(CHOOSE k \in Copies : First(k))
    <2> HIDE DEF First
    <2> QED BY <1>7
<1> QED BY <1>8 DEF AutoRenamePath

\* What may be done to the directory: the old files stay, and there is a part only of
\* the entry the extraction ends at.
LEMMA OutChange ==
    ASSUME OutInv, rpc = "entry", UNCHANGED <<wpc, image, cur>>, IsFiniteSet(DOMAIN out'),
           \A x \in Existing : x \in DOMAIN out' /\ out'[x] = out[x],
           rpc' = "ended" \/ (rpc' = "next" /\ rret' = rret), NEW q,
           \A x \in DOMAIN out' : out'[x] = "part" =>
                /\ x = q /\ q[1] = Header.path /\ rpc' = "ended"
                /\ rret' = "error" \/ (rret' = "cancel" /\ Len(q) = 3)
    PROVE  OutInv'
<1>1. Header' = Header
    BY DEF Header, At
<1>2. SparesExisting'
    BY DEF OutInv, OutputSafe, SparesExisting
<1>3. CancelLeavesNoPart'
    BY DEF CancelLeavesNoPart
<1>4. FailureLeavesOnePart'
    BY <1>1 DEF FailureLeavesOnePart
<1> QED BY <1>2, <1>3, <1>4 DEF OutInv, OutputSafe, NoPart

\* The steps of the writer, and those of the reader that extract nothing.
LEMMA OutSame ==
    ASSUME OutInv, out' = out, NoPart, rpc' = "ended" \/ rret' = "none", rret' # "cancel",
           rpc' # "none" => wpc' = "closed"
    PROVE  OutInv'
BY DEF OutInv, OutputSafe, SparesExisting, CancelLeavesNoPart, FailureLeavesOnePart, NoPart

LEMMA OutCreated ==
    ASSUME OutInv, rpc = "entry", UNCHANGED <<wpc, image, cur>>, NEW q, q \notin Existing, NEW v,
           Created(q, v),
           \/ v # "part" /\ rpc' = "next" /\ rret' = rret
           \/ q[1] = Header.path /\ Ends("error")
    PROVE  OutInv'
<1>1. DOMAIN out' = DOMAIN out \cup {q} /\ out'[q] = v /\ \A x \in DOMAIN out \ {q} : out'[x] = out[x]
    BY DEF Created
<1>2. IsFiniteSet(DOMAIN out')
    BY <1>1, FS_AddElement DEF OutInv
<1>3. \A x \in Existing : x \in DOMAIN out' /\ out'[x] = out[x]
    BY <1>1 DEF OutInv, OutputSafe, SparesExisting
<1>4. NoPart
    BY DEF OutInv
<1>5. \A x \in DOMAIN out' : out'[x] = "part" =>
        x = q /\ q[1] = Header.path /\ rpc' = "ended" /\ rret' = "error"
    BY <1>1, <1>4 DEF NoPart, Ends
<1> QED BY <1>2, <1>3, <1>5, OutChange DEF Ends

LEMMA ExtractOut == ASSUME OutInv, ExtractEntry PROVE OutInv'
<1>1. /\ rpc = "entry" /\ rret = "none" /\ IsFiniteSet(DOMAIN out) /\ NoPart
      /\ UNCHANGED <<wpc, image, cur>> /\ wpc = "closed"
    BY DEF ExtractEntry, OutInv, writerVars
<1>2. PICK h : h = Header
    OBVIOUS
<1>3. CASE Kind(h.path) = "dir" /\ rpc' = "next" /\ Created(<<h.path, 1>>, "dir") /\ UNCHANGED rret
    <2>1. <<h.path, 1>> \notin Existing
        <3>1. h.path \in DOMAIN Children /\ <<h.path, 1>>[1] = h.path
            BY <1>3 DEF Kind
        <3> QED BY <3>1, ZipAssumption
    <2> QED BY <1>1, <1>3, <2>1, OutCreated
<1>4. CASE Ends("error") /\ UNCHANGED out
    BY <1>1, <1>4, OutSame DEF Ends
<1>5. ASSUME NEW leading, NEW p, p = AutoRenamePath(h.path, leading),
             \/ Kind(h.path) = "file" /\ SaveFile(h, Zip64Field(h), p)
             \/ Kind(h.path) = "link" /\ MakeSymlink(h, Zip64Field(h), p)
      PROVE  OutInv'
    <2>1. PICK n : p = <<h.path, n>> /\ ~IsFileExists(p, leading)
        BY <1>1, <1>5, RenamedIsFree
    <2>2. p \notin Existing /\ p[1] = h.path
        BY <2>1 DEF IsFileExists, Loose, OutInv, OutputSafe, SparesExisting
    <2>3. Target(p) \notin Existing /\ Target(p)[1] = h.path /\ Len(Target(p)) = 3
        <3>1. Target(p)[1] = h.path /\ Len(Target(p)) = 3
            BY <2>2 DEF Target
        <3>2. \A e \in Existing : Len(e) = 2
            BY ZipAssumption, Zenon
        <3> QED BY <3>1, <3>2
    <2>4. Place(p) \notin Existing /\ Place(p)[1] = h.path
        BY <2>2, <2>3 DEF Place
    <2>5. CASE Created(Place(p), "new") /\ rpc' = "next" /\ UNCHANGED rret
        BY <1>1, <2>4, <2>5, OutCreated
    <2>6. CASE Created(p, "link") /\ rpc' = "next" /\ UNCHANGED rret
        BY <1>1, <2>2, <2>6, OutCreated
    <2>7. CASE Ends("error") /\ KeepTempFile(p)
        BY <1>1, <1>2, <2>4, <2>7, OutCreated DEF KeepTempFile
    <2>8. CASE Ends("error") /\ out' = Without(out, {p})
        <3>1. DOMAIN out' = DOMAIN out \ {p} /\ \A x \in DOMAIN out' : out'[x] = out[x]
            BY <2>8 DEF Without
        <3>2. IsFiniteSet(DOMAIN out')
            BY <1>1, <3>1, FS_Subset
        <3>3. \A x \in Existing : x \in DOMAIN out' /\ out'[x] = out[x]
            BY <2>2, <3>1 DEF OutInv, OutputSafe, SparesExisting
        <3>4. \A x \in DOMAIN out' : out'[x] # "part"
            BY <1>1, <3>1 DEF NoPart
        <3> QED BY <1>1, <2>8, <3>2, <3>3, <3>4, OutChange DEF Ends
    <2>9. CASE Ends("cancel") /\ DeleteTempFile(p)
        <3>1. PICK D \in SUBSET DOMAIN Children, part \in {{Target(p)}, {}} :
                out' = [x \in (DOMAIN out \ ({p} \cup {<<d, 1>> : d \in D})) \cup part |->
                            IF x \in part THEN "part" ELSE out[x]]
            BY <2>9 DEF DeleteTempFile
        <3> DEFINE S == {p} \cup {<<d, 1>> : d \in D}
        <3>2. ASSUME NEW q \in S PROVE q \notin Existing
            <4>1. CASE q = p
                BY <2>2, <4>1
            <4>2. ASSUME NEW d \in D, q = <<d, 1>> PROVE q \notin Existing
                <5>1. q[1] = d
                    BY <4>2
                <5> QED BY <5>1, ZipAssumption
            <4> QED BY <4>1, <4>2
        <3>3. /\ DOMAIN out' = (DOMAIN out \ S) \cup part
              /\ \A x \in DOMAIN out' : out'[x] = IF x \in part THEN "part" ELSE out[x]
            BY <3>1
        <3> HIDE DEF S
        <3>4. IsFiniteSet(DOMAIN out')
            <4>1. IsFiniteSet(DOMAIN out \ S) /\ IsFiniteSet(part)
                BY <1>1, FS_Subset, FS_EmptySet, FS_Singleton
            <4>2. IsFiniteSet((DOMAIN out \ S) \cup part)
                BY <4>1, FS_Union, Zenon
            <4> QED BY <3>3, <4>2
        <3>5. \A x \in Existing : x \in DOMAIN out' /\ out'[x] = out[x]
            BY <2>3, <3>2, <3>3 DEF OutInv, OutputSafe, SparesExisting
        <3>6. \A x \in DOMAIN out' : out'[x] = "part" => x = Target(p)
            BY <1>1, <3>3 DEF NoPart
        <3> QED BY <1>1, <1>2, <2>3, <2>9, <3>4, <3>5, <3>6, OutChange DEF Ends
    <2> QED BY <1>4, <1>5, <2>5, <2>6, <2>7, <2>8, <2>9 DEF SaveFile, MakeSymlink
<1> QED BY <1>2, <1>3, <1>5 DEF ExtractEntry

LEMMA OutStep == OutInv /\ [Next]_vars => OutInv'
<1> SUFFICES ASSUME OutInv, [Next]_vars PROVE OutInv'
    OBVIOUS
<1>1. CASE UNCHANGED vars \/ Finished
    BY <1>1 DEF Finished, vars, writerVars, readerVars, OutInv, OutputSafe, SparesExisting, CancelLeavesNoPart,
        FailureLeavesOnePart, NoPart, Header, At
<1>2. CASE wpc # "closed" /\ UNCHANGED readerVars
    <2>1. rpc = "none" /\ rret = "none" /\ NoPart
        BY <1>2 DEF OutInv
    <2> QED BY <1>2, <2>1, OutSame DEF readerVars
<1>3. CASE OpenFile
    <2>1. /\ out' = out /\ wpc' = "closed" /\ NoPart /\ rret = "none"
          /\ rret' = rret \/ (rpc' = "ended" /\ rret' = "error")
        BY <1>3 DEF OpenFile, OutInv, writerVars
    <2> QED BY <2>1, OutSame
<1>4. ASSUME NEW p, NEW i, GotoEntry(p, i), rpc \notin {"none", "ended"}, out' = out, wpc' = wpc PROVE OutInv'
    <2>1. /\ wpc' = "closed" /\ NoPart /\ rret = "none"
          /\ rret' = rret \/ (rpc' = "ended" /\ rret' \in {"ok", "error"})
        BY <1>4 DEF GotoEntry, Ends, OutInv
    <2> QED BY <1>4, <2>1, OutSame
<1>5. CASE GotoFirst \/ GotoNext
    BY <1>4, <1>5 DEF GotoFirst, GotoNext, writerVars
<1>6. CASE ExtractEntry
    BY <1>6, ExtractOut
<1>7. CASE SetCompressMethod \/ (\E paths \in Inputs : Add(paths)) \/ EntryOpen
           \/ AddData \/ CloseStream \/ AddReturns \/ DeleteFiles \/ Close
    BY <1>2, <1>7 DEF SetCompressMethod, Add, EntryOpen, AddData, CloseStream, AddReturns, DeleteFiles, Close
<1> QED BY <1>1, <1>3, <1>5, <1>6, <1>7 DEF Next

\* Extraction never touches a file that was there before, also when it is cancelled and
\* cleans up; a cancelled extraction leaves no file that is half there, unless it was
\* writing through a link that led nowhere, and a failed one at most the one of the
\* entry it failed at.
THEOREM OutputIsSafe == Spec => []OutputSafe
<1>1. OutInv => OutputSafe
    BY DEF OutInv
<1> QED BY <1>1, OutInit, OutStep, PTL DEF Spec

-----------------------------------------------------------------------------
(* Entries and their headers                                               *)

Contents == [of : Paths, size : Nat]
Entries ==
    [path : Paths, at : Nat, u : Nat, c : Nat, zip64 : BOOLEAN, method : {"store", "deflate"},
     data : Contents, torn : BOOLEAN]
CdHeaders ==
    [at : Nat, len : Nat \ {0}, kind : {"cd"}, path : Paths, method : {"store", "deflate"}, crc : Contents,
     u : Nat, c : Nat, at32 : Nat, extra : Seq(Nat)]

LEMMA Limits == /\ Max16 \in Nat /\ Max32 \in Nat /\ Max32 # 0 /\ Zip64From \in Nat
                /\ FileSizes \subseteq Nat /\ PackedSizes \subseteq Nat \ {0}
BY ZipAssumption

LEMMA Tuples ==
    ASSUME NEW a \in Nat, NEW b \in Nat, NEW c \in Nat
    PROVE  <<a>> \o <<b>> = <<a, b>> /\ <<a, b>> \o <<c>> = <<a, b, c>>
<1>1. ASSUME NEW s \in Seq(Nat), Len(s) = 2, s[1] = a, s[2] = b PROVE s = <<a, b>>
    <2>1. <<a, b>> \in Seq(Nat) /\ Len(<<a, b>>) = 2 /\ <<a, b>>[1] = a /\ <<a, b>>[2] = b
        OBVIOUS
    <2>2. \A i \in 1 .. 2 : i = 1 \/ i = 2
        OBVIOUS
    <2> QED BY <1>1, <2>1, <2>2, SeqEqual
<1>2. ASSUME NEW s \in Seq(Nat), Len(s) = 3, s[1] = a, s[2] = b, s[3] = c PROVE s = <<a, b, c>>
    <2>1. /\ <<a, b, c>> \in Seq(Nat) /\ Len(<<a, b, c>>) = 3
          /\ <<a, b, c>>[1] = a /\ <<a, b, c>>[2] = b /\ <<a, b, c>>[3] = c
        OBVIOUS
    <2>2. \A i \in 1 .. 3 : i = 1 \/ i = 2 \/ i = 3
        OBVIOUS
    <2> QED BY <1>2, <2>1, <2>2, SeqEqual
<1>3. /\ <<a>> \in Seq(Nat) /\ <<b>> \in Seq(Nat) /\ <<c>> \in Seq(Nat) /\ <<a, b>> \in Seq(Nat)
      /\ Len(<<a>>) = 1 /\ Len(<<b>>) = 1 /\ Len(<<c>>) = 1 /\ Len(<<a, b>>) = 2
      /\ <<a>>[1] = a /\ <<b>>[1] = b /\ <<c>>[1] = c /\ <<a, b>>[1] = a /\ <<a, b>>[2] = b
    OBVIOUS
<1>4. <<a>> \o <<b>> \in Seq(Nat) /\ Len(<<a>> \o <<b>>) = 2 /\ (<<a>> \o <<b>>)[1] = a /\ (<<a>> \o <<b>>)[2] = b
    BY <1>3, ConcatProperties
<1>5. /\ <<a, b>> \o <<c>> \in Seq(Nat) /\ Len(<<a, b>> \o <<c>>) = 3
      /\ (<<a, b>> \o <<c>>)[1] = a /\ (<<a, b>> \o <<c>>)[2] = b /\ (<<a, b>> \o <<c>>)[3] = c
    BY <1>3, ConcatProperties
<1> QED BY <1>1, <1>2, <1>4, <1>5

\* The extra data of a header, by what is above the limit.
LEMMA ExtraIs ==
    ASSUME NEW e \in Entries
    PROVE  Zip64Extra(e) =
             IF e.u > Max32
             THEN IF e.c > Max32 THEN IF e.at > Max32 THEN <<e.u, e.c, e.at>> ELSE <<e.u, e.c>>
                                 ELSE IF e.at > Max32 THEN <<e.u, e.at>> ELSE <<e.u>>
             ELSE IF e.c > Max32 THEN IF e.at > Max32 THEN <<e.c, e.at>> ELSE <<e.c>>
                                 ELSE IF e.at > Max32 THEN <<e.at>> ELSE <<>>
<1> DEFINE u == e.u  c == e.c  a == e.at
<1>0. u \in Nat /\ c \in Nat /\ a \in Nat /\ <<u>> \in Seq(Nat) /\ <<c>> \in Seq(Nat) /\ <<u, c>> \in Seq(Nat)
      /\ <<a>> \in Seq(Nat) /\ <<>> \in Seq(Nat)
    BY DEF Entries
<1> HIDE DEF u, c, a
<1>1. /\ <<u>> \o <<>> = <<u>> /\ <<>> \o <<c>> = <<c>> /\ <<>> \o <<>> = <<>>
      /\ <<u>> \o <<c>> = <<u, c>> /\ <<c>> \o <<a>> = <<c, a>> /\ <<u>> \o <<a>> = <<u, a>>
      /\ <<>> \o <<a>> = <<a>> /\ <<u, c>> \o <<a>> = <<u, c, a>> /\ <<u, c>> \o <<>> = <<u, c>>
      /\ <<c>> \o <<>> = <<c>>
    BY <1>0, Tuples, ConcatEmptySeq
<1> QED BY <1>1 DEF Zip64Extra, u, c, a

LEMMA HeaderType ==
    ASSUME NEW e \in Entries
    PROVE  /\ CdHeader(e) \in CdHeaders
           /\ CdHeader(e).len = 1 + (IF e.u > Max32 THEN 1 ELSE 0) + (IF e.c > Max32 THEN 1 ELSE 0)
                                  + (IF e.at > Max32 THEN 1 ELSE 0)
<1>1. /\ Zip64Extra(e) \in Seq(Nat)
      /\ Len(Zip64Extra(e)) = (IF e.u > Max32 THEN 1 ELSE 0) + (IF e.c > Max32 THEN 1 ELSE 0)
                                  + (IF e.at > Max32 THEN 1 ELSE 0)
    <2> DEFINE u == e.u  c == e.c  a == e.at
    <2>1. u \in Nat /\ c \in Nat /\ a \in Nat
        BY DEF Entries
    <2> HIDE DEF u, c, a
    <2>2. /\ <<u, c, a>> \in Seq(Nat) /\ Len(<<u, c, a>>) = 3 /\ <<>> \in Seq(Nat) /\ Len(<<>>) = 0
          /\ \A x \in Nat : <<x>> \in Seq(Nat) /\ Len(<<x>>) = 1
          /\ \A x, y \in Nat : <<x, y>> \in Seq(Nat) /\ Len(<<x, y>>) = 2
        BY <2>1
    <2>3. Zip64Extra(e) =
             IF u > Max32
             THEN IF c > Max32 THEN IF a > Max32 THEN <<u, c, a>> ELSE <<u, c>>
                               ELSE IF a > Max32 THEN <<u, a>> ELSE <<u>>
             ELSE IF c > Max32 THEN IF a > Max32 THEN <<c, a>> ELSE <<c>>
                               ELSE IF a > Max32 THEN <<a>> ELSE <<>>
        BY ExtraIs DEF u, c, a
    <2>4. /\ Zip64Extra(e) \in Seq(Nat)
          /\ Len(Zip64Extra(e)) = (IF u > Max32 THEN 1 ELSE 0) + (IF c > Max32 THEN 1 ELSE 0) + (IF a > Max32 THEN 1 ELSE 0)
        <3>1. CASE u > Max32 /\ c > Max32
            BY <2>1, <2>2, <2>3, <3>1
        <3>2. CASE u > Max32 /\ ~(c > Max32)
            BY <2>1, <2>2, <2>3, <3>2
        <3>3. CASE ~(u > Max32) /\ c > Max32
            BY <2>1, <2>2, <2>3, <3>3
        <3>4. CASE ~(u > Max32) /\ ~(c > Max32)
            BY <2>1, <2>2, <2>3, <3>4
        <3> QED BY <3>1, <3>2, <3>3, <3>4
    <2> QED BY <2>4 DEF u, c, a
<1>2. Clip(e.u, Max32) \in Nat /\ Clip(e.c, Max32) \in Nat /\ Clip(e.at, Max32) \in Nat
    BY Limits DEF Clip, Entries
<1>3. 1 + Len(Zip64Extra(e)) \in Nat \ {0}
    BY <1>1
<1>4. CdHeader(e) \in CdHeaders
    BY <1>1, <1>2, <1>3 DEF CdHeader, CdHeaders, Entries
<1> QED BY <1>1, <1>4 DEF CdHeader

\* What the reader makes of the header of an entry that is not on a limit.
LEMMA FieldIs ==
    ASSUME NEW e \in Entries, e.u # Max32, e.c # Max32, e.at # Max32, NEW h,
           h.u = CdHeader(e).u, h.c = CdHeader(e).c, h.at32 = CdHeader(e).at32, h.extra = CdHeader(e).extra
    PROVE  Zip64Field(h).u = e.u /\ Zip64Field(h).c = e.c /\ Zip64Field(h).at = e.at
<1>1. /\ e.u \in Nat /\ e.c \in Nat /\ e.at \in Nat
      /\ h.u = Clip(e.u, Max32) /\ h.c = Clip(e.c, Max32) /\ h.at32 = Clip(e.at, Max32)
      /\ h.extra = Zip64Extra(e)
    BY DEF Entries, CdHeader
<1>2. /\ h.u = (IF e.u > Max32 THEN Max32 ELSE e.u) /\ h.c = (IF e.c > Max32 THEN Max32 ELSE e.c)
      /\ h.at32 = (IF e.at > Max32 THEN Max32 ELSE e.at)
    BY <1>1 DEF Clip
<1>3. /\ e.u > Max32 <=> h.u = Max32
      /\ e.c > Max32 <=> h.c = Max32
      /\ e.at > Max32 <=> h.at32 = Max32
    BY <1>1, <1>2, Limits
<1>4. CASE e.u > Max32 /\ e.c > Max32 /\ e.at > Max32
    <2>1. h.extra = <<e.u, e.c, e.at>>
        BY <1>1, <1>4, ExtraIs
    <2> QED BY <1>1, <1>2, <1>3, <1>4, <2>1 DEF Zip64Field
<1>5. CASE e.u > Max32 /\ e.c > Max32 /\ ~(e.at > Max32)
    <2>1. h.extra = <<e.u, e.c>>
        BY <1>1, <1>5, ExtraIs
    <2> QED BY <1>1, <1>2, <1>3, <1>5, <2>1 DEF Zip64Field
<1>6. CASE e.u > Max32 /\ ~(e.c > Max32) /\ e.at > Max32
    <2>1. h.extra = <<e.u, e.at>>
        BY <1>1, <1>6, ExtraIs
    <2> QED BY <1>1, <1>2, <1>3, <1>6, <2>1 DEF Zip64Field
<1>7. CASE e.u > Max32 /\ ~(e.c > Max32) /\ ~(e.at > Max32)
    <2>1. h.extra = <<e.u>>
        BY <1>1, <1>7, ExtraIs
    <2> QED BY <1>1, <1>2, <1>3, <1>7, <2>1 DEF Zip64Field
<1>8. CASE ~(e.u > Max32) /\ e.c > Max32 /\ e.at > Max32
    <2>1. h.extra = <<e.c, e.at>>
        BY <1>1, <1>8, ExtraIs
    <2> QED BY <1>1, <1>2, <1>3, <1>8, <2>1 DEF Zip64Field
<1>9. CASE ~(e.u > Max32) /\ e.c > Max32 /\ ~(e.at > Max32)
    <2>1. h.extra = <<e.c>>
        BY <1>1, <1>9, ExtraIs
    <2> QED BY <1>1, <1>2, <1>3, <1>9, <2>1 DEF Zip64Field
<1>10. CASE ~(e.u > Max32) /\ ~(e.c > Max32) /\ e.at > Max32
    <2>1. h.extra = <<e.at>>
        BY <1>1, <1>10, ExtraIs
    <2> QED BY <1>1, <1>2, <1>3, <1>10, <2>1 DEF Zip64Field
<1>11. CASE ~(e.u > Max32) /\ ~(e.c > Max32) /\ ~(e.at > Max32)
    <2>1. h.extra = <<>>
        BY <1>1, <1>11, ExtraIs
    <2> QED BY <1>1, <1>2, <1>3, <1>11, <2>1 DEF Zip64Field
<1> QED BY <1>4, <1>5, <1>6, <1>7, <1>8, <1>9, <1>10, <1>11

-----------------------------------------------------------------------------
(* Where the headers of the directory are                                  *)

Lens(s) == [i \in DOMAIN s |-> s[i].len]
Off(s, i) == SumLen(SubSeq(s, 1, i))

LEMMA SumLenIs == ASSUME NEW s PROVE SumLen(s) = Sum(Lens(s), DOMAIN s)
<1>1. SumLen(s) = (CHOOSE h : h = [u \in SUBSET DOMAIN Lens(s) |-> WithPicked(Lens(s), h, u)])[DOMAIN Lens(s)]
    BY DEF SumLen, FoldSeq, FoldFunction, FoldFunctionOnSet, MapThenFoldSet, Pick, WithPicked, Lens
<1>2. DOMAIN Lens(s) = DOMAIN s
    BY DEF Lens
<1> QED BY <1>1, <1>2, SumUnfolds

LEMMA LensNat ==
    ASSUME NEW s \in Seq(CdHeaders)
    PROVE  /\ Lens(s) \in [1 .. Len(s) -> Nat \ {0}] /\ DOMAIN s = 1 .. Len(s) /\ Len(s) \in Nat
           /\ \A i \in 1 .. Len(s) : Lens(s)[i] = s[i].len /\ s[i].len \in Nat \ {0} /\ Lens(s)[i] \in Int
<1>1. DOMAIN s = 1 .. Len(s) /\ Len(s) \in Nat /\ \A i \in 1 .. Len(s) : s[i] \in CdHeaders
    OBVIOUS
<1>2. \A i \in 1 .. Len(s) : s[i].len \in Nat \ {0}
    BY <1>1 DEF CdHeaders
<1> QED BY <1>1, <1>2 DEF Lens

LEMMA OffIs ==
    ASSUME NEW s \in Seq(CdHeaders), NEW i \in 0 .. Len(s)
    PROVE  Off(s, i) = Sum(Lens(s), 1 .. i)
<1> DEFINE t == SubSeq(s, 1, i)
<1>1. t \in Seq(CdHeaders) /\ Len(t) = i /\ \A j \in 1 .. i : t[j] = s[j]
    OBVIOUS
<1> HIDE DEF t
<1>2. SumLen(t) = Sum(Lens(t), 1 .. i)
    BY <1>1, SumLenIs, LensNat
<1>3. \A j \in 1 .. i : Lens(t)[j] = Lens(s)[j] /\ Lens(t)[j] \in Int
    <2>1. \A j \in 1 .. i : Lens(t)[j] = t[j].len /\ Lens(t)[j] \in Int
        BY <1>1, LensNat
    <2>2. \A j \in 1 .. i : Lens(s)[j] = s[j].len
        BY LensNat
    <2> QED BY <1>1, <2>1, <2>2
<1>4. Sum(Lens(t), 1 .. i) = Sum(Lens(s), 1 .. i)
    <2>1. IsFiniteSet(1 .. i)
        BY FS_Interval
    <2> QED BY <1>3, <2>1, SumAgrees
<1> QED BY <1>2, <1>4 DEF Off, t

LEMMA OffSteps ==
    ASSUME NEW s \in Seq(CdHeaders)
    PROVE  /\ Off(s, 0) = 0 /\ Off(s, Len(s)) = SumLen(s)
           /\ \A i \in 0 .. Len(s) : Off(s, i) \in Nat
           /\ \A i \in 1 .. Len(s) : Off(s, i) = Off(s, i - 1) + s[i].len
<1>1. Len(s) \in Nat
    OBVIOUS
<1>2. Off(s, 0) = 0
    <2>1. 1 .. 0 = {} /\ 0 \in 0 .. Len(s)
        BY <1>1
    <2> QED BY <2>1, OffIs, SumEmpty
<1>3. Off(s, Len(s)) = SumLen(s)
    BY <1>1, OffIs, SumLenIs, LensNat
<1>4. ASSUME NEW i \in 0 .. Len(s) PROVE Off(s, i) \in Nat
    <2>1. SubSeq(s, 1, i) \in Seq(CdHeaders)
        BY <1>1
    <2> DEFINE t == SubSeq(s, 1, i)
    <2> HIDE DEF t
    <2>2. SumLen(t) \in Nat
        <3>1. IsFiniteSet(1 .. Len(t)) /\ Lens(t) \in [1 .. Len(t) -> Nat] /\ DOMAIN t = 1 .. Len(t)
            <4>1. t \in Seq(CdHeaders) /\ Len(t) \in Nat
                BY <2>1 DEF t
            <4>2. IsFiniteSet(1 .. Len(t))
                BY <4>1, FS_Interval
            <4>3. Lens(t) \in [1 .. Len(t) -> Nat \ {0}] /\ DOMAIN t = 1 .. Len(t)
                BY <4>1, LensNat
            <4> QED BY <4>2, <4>3
        <3> QED BY <3>1, SumLenIs, SumNat
    <2> QED BY <2>2 DEF Off, t
<1>5. ASSUME NEW i \in 1 .. Len(s) PROVE Off(s, i) = Off(s, i - 1) + s[i].len
    <2>1. i - 1 \in Nat /\ i - 1 \in 0 .. Len(s) /\ i \in 0 .. Len(s) /\ (i - 1) + 1 = i
        BY <1>1
    <2>2. \A j \in 1 .. (i - 1) + 1 : Lens(s)[j] \in Int
        BY <1>1, <2>1, LensNat
    <2>3. Sum(Lens(s), 1 .. (i - 1) + 1) = Sum(Lens(s), 1 .. i - 1) + Lens(s)[(i - 1) + 1]
        BY <2>1, <2>2, SumOneMore
    <2>4. Sum(Lens(s), 1 .. i) = Sum(Lens(s), 1 .. i - 1) + Lens(s)[i]
        BY <2>1, <2>3
    <2> QED BY <2>1, <2>4, OffIs, LensNat
<1> QED BY <1>2, <1>3, <1>4, <1>5

\* The headers follow each other.
LEMMA OffGrows ==
    ASSUME NEW s \in Seq(CdHeaders), NEW i \in 0 .. Len(s), NEW j \in 0 .. Len(s), i < j
    PROVE  Off(s, i) + s[i + 1].len <= Off(s, j) /\ Off(s, i) < Off(s, j)
<1> DEFINE Good == {m \in Nat : i + 1 + m <= Len(s) => Off(s, i) + s[i + 1].len <= Off(s, i + 1 + m)}
<1>1. Len(s) \in Nat /\ \A k \in 0 .. Len(s) : Off(s, k) \in Nat
    BY OffSteps
<1>2. \A k \in 1 .. Len(s) : s[k].len \in Nat \ {0} /\ Off(s, k) = Off(s, k - 1) + s[k].len
    BY OffSteps, LensNat
<1>3. 0 \in Good
    <2>1. i + 1 \in 1 .. Len(s) /\ (i + 1) - 1 = i /\ i + 1 + 0 = i + 1
        BY <1>1
    <2>2. Off(s, i + 1) = Off(s, i) + s[i + 1].len /\ Off(s, i + 1) \in Nat
        BY <1>1, <1>2, <2>1
    <2> QED BY <2>1, <2>2
<1>4. ASSUME NEW m \in Nat, m \in Good PROVE m + 1 \in Good
    <2> SUFFICES ASSUME i + 1 + (m + 1) <= Len(s)
                 PROVE  Off(s, i) + s[i + 1].len <= Off(s, i + 1 + (m + 1))
        OBVIOUS
    <2> DEFINE k == i + 1 + (m + 1)
    <2>1. k \in 1 .. Len(s) /\ k - 1 = i + 1 + m /\ i + 1 + m <= Len(s) /\ i + 1 \in 1 .. Len(s)
          /\ i + 1 + m \in 0 .. Len(s)
        BY <1>1
    <2>2. Off(s, i) + s[i + 1].len <= Off(s, i + 1 + m)
        BY <1>4, <2>1
    <2> HIDE DEF k
    <2>3. Off(s, k) = Off(s, i + 1 + m) + s[k].len /\ s[k].len \in Nat
        BY <1>2, <2>1
    <2>4. Off(s, i + 1 + m) \in Nat /\ Off(s, i) \in Nat /\ s[i + 1].len \in Nat
        <3>1. s[i + 1].len \in Nat
            BY <1>2, <2>1
        <3>2. i \in 0 .. Len(s)
            OBVIOUS
        <3> QED BY <1>1, <2>1, <3>1, <3>2
    <2>5. Off(s, i) + s[i + 1].len <= Off(s, k)
        <3>1. PICK x \in Nat : x = Off(s, i) + s[i + 1].len
            BY <2>4
        <3>2. PICK y \in Nat, z \in Nat : y = Off(s, i + 1 + m) /\ z = s[k].len
            BY <2>3, <2>4
        <3>3. x <= y /\ Off(s, k) = y + z
            BY <2>2, <2>3, <3>1, <3>2
        <3> QED BY <3>1, <3>3
    <2> QED BY <2>5 DEF k
<1>5. Nat \subseteq Good
    <2> HIDE DEF Good
    <2> QED BY <1>3, <1>4, NatSetInduction
<1>6. j - (i + 1) \in Nat /\ i + 1 + (j - (i + 1)) = j /\ j <= Len(s) /\ i + 1 \in 1 .. Len(s)
    BY <1>1
<1>7. Off(s, i) + s[i + 1].len <= Off(s, j)
    <2>1. j - (i + 1) \in Good
        BY <1>5, <1>6
    <2> QED BY <1>6, <2>1
<1>8. Off(s, i) \in Nat /\ Off(s, j) \in Nat /\ s[i + 1].len \in Nat \ {0}
    BY <1>1, <1>2, <1>6
<1> QED BY <1>7, <1>8

LEMMA SumLenAppend ==
    ASSUME NEW s \in Seq(CdHeaders), NEW h \in CdHeaders
    PROVE  SumLen(Append(s, h)) = SumLen(s) + h.len /\ SumLen(s) \in Nat
<1> DEFINE t == Append(s, h)
<1>1. t \in Seq(CdHeaders) /\ Len(t) = Len(s) + 1 /\ t[Len(t)] = h /\ Len(s) \in Nat
    OBVIOUS
<1>2. SubSeq(t, 1, Len(s)) = s
    <2>1. SubSeq(t, 1, Len(s)) \in Seq(CdHeaders) /\ Len(SubSeq(t, 1, Len(s))) = Len(s)
        BY <1>1
    <2>2. \A i \in 1 .. Len(s) : SubSeq(t, 1, Len(s))[i] = s[i]
        OBVIOUS
    <2> QED BY <2>1, <2>2, SeqEqual
<1> HIDE DEF t
<1>3. Off(t, Len(s)) = SumLen(s)
    BY <1>2 DEF Off
<1>4. Off(t, Len(t)) = Off(t, Len(t) - 1) + t[Len(t)].len /\ Off(t, Len(t)) = SumLen(t)
    BY <1>1, OffSteps
<1>5. Len(t) - 1 = Len(s)
    BY <1>1
<1>6. SumLen(s) \in Nat
    BY <1>1, OffSteps
<1> QED BY <1>1, <1>3, <1>4, <1>5, <1>6 DEF t

-----------------------------------------------------------------------------
(* The writer                                                              *)

LLen(e) == IF e.zip64 THEN 2 ELSE 1
DataRec(e) == [at |-> e.at + LLen(e), len |-> e.c, kind |-> "data", data |-> e.data, torn |-> e.torn]
Archs == [path : Paths, data : Contents]

\* How far the finished entries reach.
Frontier == IF wpc \in {"reading", "closing"} THEN entry.at ELSE pos

\* The sizes of an entry that was read: contents that are not empty are not packed
\* into nothing.
Read(e) == e.data = [of |-> e.path, size |-> e.u] /\ (e.c = 0 => e.u = 0)
Fits(e) == e.zip64 \/ (e.u <= Max32 /\ e.c <= Max32)

\* A finished entry: what the directory, the file and the program's account have of it.
Kept(e, i) ==
    /\ Read(e) /\ Fits(e)
    /\ cd[i] = CdHeader(e) /\ archived[i] = [path |-> e.path, data |-> e.data]
    /\ LocalHeader(e) \in image /\ DataRec(e) \in image
    /\ e.at + LLen(e) + e.c <= Frontier

Typed ==
    /\ pos \in Nat /\ cd \in Seq(CdHeaders) /\ archived \in Seq(Archs) /\ Len(archived) = Len(cd)
    /\ queue \in Seq(Paths) /\ method \in {"store", "deflate"}
\* Records of entries, one after the other.
InBounds(r) ==
    /\ r.at \in Nat /\ r.len \in Nat /\ r.kind \in {"local", "data"} /\ r.at + r.len <= pos
    /\ r.kind = "local" => r.len > 0
    /\ r.kind = "data" /\ swallowed = {} => r.torn = FALSE
Bodies == \A r \in image : InBounds(r)
DataAlone == \A r, s \in image : r.kind = "data" /\ s.kind = "data" /\ r.at = s.at => r = s
\* The entry being written is the last one, and its header is there.
AtEntry ==
    wpc \in {"reading", "closing"} =>
        /\ entry \in Entries /\ pos = entry.at + LLen(entry) /\ queue # <<>>
        /\ \A r \in image : r.at <= entry.at
        /\ \E l \in image : l.kind = "local" /\ l.at = entry.at /\ l.len = LLen(entry)
        /\ wpc = "closing" => Read(entry) /\ (swallowed = {} => entry.torn = FALSE)
Finishes == \A i \in DOMAIN cd : \E e \in Entries : Kept(e, i)
\* The directory is shorter than what it is about, or that is beyond the limit.
Shorter == SumLen(cd) <= Frontier \/ Frontier > Max32

Writing == Typed /\ Bodies /\ RecordsDisjoint /\ DataAlone /\ AtEntry /\ Finishes /\ Shorter

\* What is there once the archive is closed.
EndKinds == {"eocd", "eocd64", "locator"}
EndsOf == EndRecords(pos, SumLen(cd), Len(cd))
DirRec(i) == [cd[i] EXCEPT !.at = pos + Off(cd, i - 1)]
InArchive(r) ==
    \/ InBounds(r)
    \/ \E i \in DOMAIN cd : r = DirRec(i)
    \/ r \in EndsOf
ClosedWell ==
    /\ Typed /\ Finishes /\ Shorter /\ RecordsDisjoint /\ DataAlone
    /\ \A r \in image : InArchive(r)
    /\ \A i \in DOMAIN cd : DirRec(i) \in image
    /\ Sound => EndsOf \subseteq image

WriteInv ==
    /\ wpc \in {"ready", "adding", "reading", "closing", "closed"}
    /\ wpc \in {"adding", "reading", "closing"} => base
    /\ wpc = "closed" => ~base
    /\ opened \/ (image = {} /\ wpc \in {"ready", "closed"})
    /\ base => Writing
    /\ ~base => image = {} \/ (wpc = "closed" /\ ClosedWell)

LEMMA WriteInit == Init => WriteInv
<1> SUFFICES ASSUME Init PROVE WriteInv
    OBVIOUS
<1>1. /\ wpc = "ready" /\ opened = FALSE /\ base = TRUE /\ method = "deflate"
      /\ image = {} /\ pos = 0 /\ cd = <<>> /\ queue = <<>> /\ archived = <<>> /\ swallowed = {}
    BY DEF Init
<1>2. <<>> \in Seq(CdHeaders) /\ <<>> \in Seq(Archs) /\ <<>> \in Seq(Paths) /\ DOMAIN <<>> = {} /\ Len(<<>>) = 0
    OBVIOUS
<1>3. SumLen(cd) = 0
    BY <1>1, <1>2, SumLenIs, SumEmpty
<1>4. Typed
    BY <1>1, <1>2 DEF Typed
<1>5. Bodies /\ RecordsDisjoint /\ DataAlone /\ AtEntry /\ Finishes /\ Shorter
    BY <1>1, <1>2, <1>3 DEF Bodies, RecordsDisjoint, DataAlone, AtEntry, Finishes, Shorter, Frontier
<1> QED BY <1>1, <1>4, <1>5 DEF WriteInv, Writing

LEMMA WriteSame == ASSUME WriteInv, UNCHANGED writerVars PROVE WriteInv'
<1>1. UNCHANGED <<wpc, wret, opened, base, method, image, pos, cd, queue, entry, archived, swallowed>>
    BY DEF writerVars
<1>2. Typed' = Typed /\ Bodies' = Bodies /\ RecordsDisjoint' = RecordsDisjoint /\ DataAlone' = DataAlone
    BY <1>1 DEF Typed, Bodies, InBounds, RecordsDisjoint, DataAlone
<1>3. AtEntry' = AtEntry /\ Shorter' = Shorter
    BY <1>1 DEF AtEntry, Shorter, Frontier
<1>4. Finishes' = Finishes
    BY <1>1 DEF Finishes, Kept, Frontier
<1>5. ClosedWell' = ClosedWell
    BY <1>1, <1>2, <1>3, <1>4 DEF ClosedWell, InArchive, InBounds, DirRec, EndsOf, Sound
<1> QED BY <1>1, <1>2, <1>3, <1>4, <1>5 DEF WriteInv, Writing

\* What adds no entry and takes no record.
LEMMA EntriesSame ==
    ASSUME Finishes, Shorter, image \subseteq image', UNCHANGED <<cd, archived>>, Frontier' = Frontier
    PROVE  Finishes' /\ Shorter'
<1>1. ASSUME NEW i \in DOMAIN cd PROVE \E e \in Entries : Kept(e, i)'
    <2>1. PICK e \in Entries : Kept(e, i)
        BY DEF Finishes
    <2>2. Kept(e, i)'
        BY <2>1 DEF Kept
    <2> QED BY <2>2
<1> QED BY <1>1 DEF Finishes, Shorter

LEMMA SmallWrites ==
    ASSUME WriteInv, SetCompressMethod \/ (\E paths \in Inputs : Add(paths)) \/ AddReturns \/ DeleteFiles
    PROVE  WriteInv'
<1>1. CASE DeleteFiles
    BY <1>1 DEF DeleteFiles, WriteInv
<1>2. CASE \E paths \in Inputs : Add(paths) /\ OpenOutputFails
    <2>1. /\ wpc = "ready" /\ wpc' = "ready" /\ base' = FALSE /\ image = {} /\ image' = image /\ opened' = opened
        BY <1>2 DEF Add, OpenOutputFails, WriteInv
    <2> QED BY <2>1 DEF WriteInv
<1>3. CASE /\ wpc \in {"ready", "adding"} /\ wpc' \in {"ready", "adding"} /\ base' = base /\ (opened' \/ (wpc' = "ready" /\ opened' = opened))
           /\ (wpc' = "adding" => base) /\ (base => queue' \in Seq(Paths)) /\ method' \in {method, "store"}
           /\ UNCHANGED <<image, pos, cd, archived, swallowed>>
    <2>1. ASSUME base PROVE Writing'
        <3>1. Writing
            BY <2>1 DEF WriteInv
        <3>2. Typed'
            BY <1>3, <2>1, <3>1 DEF Writing, Typed
        <3>3. Bodies' /\ RecordsDisjoint' /\ DataAlone' /\ AtEntry'
            BY <1>3, <3>1 DEF Writing, Bodies, InBounds, RecordsDisjoint, DataAlone, AtEntry
        <3>4. Frontier' = Frontier
            BY <1>3 DEF Frontier
        <3>5. Finishes' /\ Shorter'
            BY <1>3, <3>1, <3>4, EntriesSame DEF Writing
        <3> QED BY <3>2, <3>3, <3>5 DEF Writing
    <2> QED BY <1>3, <2>1 DEF WriteInv
<1>4. CASE SetCompressMethod
    <2>1. base => queue \in Seq(Paths)
        BY DEF WriteInv, Writing, Typed
    <2> QED BY <1>3, <1>4, <2>1 DEF SetCompressMethod, WriteInv
<1>5. CASE AddReturns
    <2>1. base => queue \in Seq(Paths)
        BY DEF WriteInv, Writing, Typed
    <2> QED BY <1>3, <1>5, <2>1 DEF AddReturns, WriteInv
<1>6. ASSUME NEW paths \in Inputs, Add(paths), ~OpenOutputFails PROVE WriteInv'
    <2>1. base => queue \in Seq(Paths)
        BY DEF WriteInv, Writing, Typed
    <2>2. paths \in Seq(Paths)
        BY ZipAssumption
    <2> QED BY <1>3, <1>6, <2>1, <2>2 DEF Add, WriteInv
<1> QED BY <1>1, <1>2, <1>4, <1>5, <1>6

LEMMA LocalIs ==
    ASSUME NEW e \in Entries
    PROVE  /\ LocalHeader(e).at = e.at /\ LocalHeader(e).len = LLen(e) /\ LocalHeader(e).kind = "local"
           /\ LLen(e) \in {1, 2} /\ e.at \in Nat /\ e.c \in Nat /\ e.u \in Nat
           /\ DataRec(e).at = e.at + LLen(e) /\ DataRec(e).len = e.c /\ DataRec(e).kind = "data"
           /\ DataRec(e).torn = e.torn /\ DataRec(e).data = e.data
BY DEF LocalHeader, LLen, Entries, DataRec

\* A new record goes behind all others.
LEMMA RecordAdded ==
    ASSUME Bodies, RecordsDisjoint, DataAlone, pos \in Nat, NEW r, r.at = pos, r.len \in Nat,
           r.kind = "local", r.len > 0, image' = image \cup {r}, pos' = pos + r.len, swallowed' = swallowed
    PROVE  Bodies' /\ RecordsDisjoint' /\ DataAlone'
<1>1. \A s \in image : InBounds(s)
    BY DEF Bodies
<1>2. \A s \in image : InBounds(s)'
    BY <1>1 DEF InBounds
<1>3. InBounds(r)'
    BY DEF InBounds
<1>4. \A s \in image : s.at + s.len <= r.at
    BY <1>1 DEF InBounds
<1>5. RecordsDisjoint'
    BY <1>4 DEF RecordsDisjoint
<1>6. DataAlone'
    BY DEF DataAlone
<1> QED BY <1>2, <1>3, <1>5, <1>6 DEF Bodies

LEMMA EntryOpenWrites == ASSUME WriteInv, EntryOpen PROVE WriteInv'
<1>1. wpc = "adding" /\ queue # <<>> /\ base /\ Writing /\ opened
    BY DEF EntryOpen, WriteInv
<1>2. UNCHANGED <<wret, opened, base, method, cd, archived, swallowed>>
    BY DEF EntryOpen
<1>3. Head(queue) \in Paths /\ Tail(queue) \in Seq(Paths) /\ queue \in Seq(Paths)
    BY <1>1 DEF Writing, Typed
<1>4. CASE PassOver
    <2>1. queue' = Tail(queue) /\ UNCHANGED <<wpc, image, pos, entry>>
        BY <1>4 DEF PassOver
    <2>2. Typed' /\ Bodies' /\ RecordsDisjoint' /\ DataAlone' /\ AtEntry'
        BY <1>1, <1>2, <1>3, <2>1 DEF Writing, Typed, Bodies, InBounds, RecordsDisjoint, DataAlone, AtEntry
    <2>3. Frontier' = Frontier
        BY <2>1 DEF Frontier
    <2>4. Finishes' /\ Shorter'
        BY <1>1, <1>2, <2>1, <2>3, EntriesSame DEF Writing
    <2> QED BY <1>1, <1>2, <2>1, <2>2, <2>4 DEF WriteInv, Writing
<1>5. CASE ~PassOver
    <2>1. PICK size \in IF Kind(Head(queue)) = "dir" THEN {0} ELSE FileSizes :
            LET p == Head(queue)
                e == [path |-> p, at |-> pos, u |-> size, c |-> 0,
                      zip64 |-> NeedZip64(size),
                      method |-> IF Kind(p) = "dir" THEN "store" ELSE method,
                      data |-> [of |-> p, size |-> 0], torn |-> FALSE]
            IN  /\ entry' = e
                /\ image' = image \cup {LocalHeader(e)}
                /\ pos' = pos + LocalHeader(e).len
                /\ wpc' = IF Kind(p) = "dir" THEN "closing" ELSE "reading"
                /\ UNCHANGED queue
        BY <1>5 DEF EntryOpen
    <2>2. size \in Nat /\ (Kind(Head(queue)) = "dir" => size = 0)
        <3>1. CASE Kind(Head(queue)) = "dir"
            BY <3>1
        <3>2. CASE Kind(Head(queue)) # "dir"
            <4>1. size \in FileSizes
                BY <3>2
            <4> QED BY <3>2, <4>1, Limits
        <3> QED BY <3>1, <3>2
    <2>3. pos \in Nat /\ method \in {"store", "deflate"}
        BY <1>1 DEF Writing, Typed
    <2> DEFINE e == [path |-> Head(queue), at |-> pos, u |-> size, c |-> 0,
                     zip64 |-> NeedZip64(size),
                     method |-> IF Kind(Head(queue)) = "dir" THEN "store" ELSE method,
                     data |-> [of |-> Head(queue), size |-> 0], torn |-> FALSE]
    <2>4. e \in Entries
        BY <1>3, <2>2, <2>3 DEF Entries, Contents, NeedZip64
    <2>5. /\ entry' = e /\ image' = image \cup {LocalHeader(e)} /\ pos' = pos + LocalHeader(e).len
          /\ wpc' = IF Kind(Head(queue)) = "dir" THEN "closing" ELSE "reading"
          /\ queue' = queue
        BY <2>1
    <2>6. /\ e.at = pos /\ e.torn = FALSE /\ e.c = 0 /\ e.path = Head(queue) /\ e.u = size
          /\ e.data = [of |-> Head(queue), size |-> 0]
        OBVIOUS
    <2>7. wpc' = "closing" => Read(e)
        BY <2>2, <2>5, <2>6 DEF Read
    <2> HIDE DEF e
    <2>8. LocalHeader(e).at = pos /\ LocalHeader(e).len = LLen(e) /\ LocalHeader(e).kind = "local" /\ LLen(e) \in {1, 2}
        BY <2>4, <2>6, LocalIs
    <2>9. Bodies' /\ RecordsDisjoint' /\ DataAlone'
        BY <1>1, <1>2, <2>3, <2>5, <2>8, RecordAdded DEF Writing
    <2>10. Typed'
        BY <1>1, <1>2, <2>5, <2>8 DEF Writing, Typed
    <2>11. wpc' \in {"reading", "closing"}
        BY <2>5
    <2>12. AtEntry'
        <3>1. entry' \in Entries /\ pos' = entry'.at + LLen(entry') /\ queue' # <<>>
            BY <1>1, <2>4, <2>5, <2>6, <2>8
        <3>2. \A r \in image' : r.at <= entry'.at
            <4>1. \A r \in image : r.at \in Nat /\ r.len \in Nat /\ r.at + r.len <= pos
                BY <1>1 DEF Writing, Bodies, InBounds
            <4>2. \A r \in image : r.at <= pos
                BY <2>3, <4>1
            <4> QED BY <2>3, <2>5, <2>6, <2>8, <4>2
        <3>3. \E l \in image' : l.kind = "local" /\ l.at = entry'.at /\ l.len = LLen(entry')
            BY <2>5, <2>6, <2>8
        <3>4. wpc' = "closing" => Read(entry') /\ (swallowed' = {} => entry'.torn = FALSE)
            BY <2>5, <2>6, <2>7
        <3> QED BY <3>1, <3>2, <3>3, <3>4 DEF AtEntry, LLen, Read
    <2>13. Frontier' = Frontier
        BY <1>1, <2>5, <2>6, <2>11 DEF Frontier
    <2>14. Finishes' /\ Shorter'
        BY <1>1, <1>2, <2>5, <2>13, EntriesSame DEF Writing
    <2> QED BY <1>1, <1>2, <2>9, <2>10, <2>11, <2>12, <2>14 DEF WriteInv, Writing
<1> QED BY <1>4, <1>5

LEMMA AddDataWrites == ASSUME WriteInv, AddData PROVE WriteInv'
<1>1. wpc = "reading" /\ base /\ Writing /\ opened
    BY DEF AddData, WriteInv
<1>2. wpc' = "closing" /\ UNCHANGED <<wret, opened, base, method, image, pos, cd, queue, archived>>
    BY DEF AddData
<1>30. PICK n \in IF Kind(entry.path) = "link" THEN {1} ELSE FileSizes :
         \E torn \in DeflateMayLose(n) :
         /\ \E c \in IF method = "store" THEN {n} ELSE PackedSizes :
              entry' = [entry EXCEPT !.u = n, !.c = c, !.torn = torn, !.data = [of |-> entry.path, size |-> n]]
         /\ swallowed' = IF torn THEN swallowed \cup {"write"} ELSE swallowed
    BY DEF AddData
<1>3. PICK torn \in DeflateMayLose(n) :
        /\ \E c \in IF method = "store" THEN {n} ELSE PackedSizes :
              entry' = [entry EXCEPT !.u = n, !.c = c, !.torn = torn, !.data = [of |-> entry.path, size |-> n]]
        /\ swallowed' = IF torn THEN swallowed \cup {"write"} ELSE swallowed
    BY <1>30
<1>4. PICK c \in IF method = "store" THEN {n} ELSE PackedSizes :
        entry' = [entry EXCEPT !.u = n, !.c = c, !.torn = torn, !.data = [of |-> entry.path, size |-> n]]
    BY <1>3
<1>5. n \in Nat /\ torn \in BOOLEAN /\ c \in Nat /\ (c = 0 => n = 0)
    <2>1. n \in {1} \/ n \in FileSizes
        OBVIOUS
    <2>2. n \in Nat
        BY <2>1, Limits
    <2>3. torn \in BOOLEAN
        BY DEF DeflateMayLose
    <2>4. c = n \/ c \in PackedSizes
        OBVIOUS
    <2> QED BY <2>2, <2>3, <2>4, Limits
<1>6. entry \in Entries /\ pos = entry.at + LLen(entry) /\ queue # <<>>
    BY <1>1 DEF Writing, AtEntry
<1>7. /\ entry' \in Entries /\ entry'.at = entry.at /\ LLen(entry') = LLen(entry)
      /\ entry'.u = n /\ entry'.c = c /\ entry'.data = [of |-> entry.path, size |-> n]
      /\ entry'.path = entry.path /\ entry'.torn = torn
    BY <1>4, <1>5, <1>6 DEF Entries, Contents, LLen
<1>8. swallowed' = {} => swallowed = {} /\ torn = FALSE
    BY <1>3, <1>5
<1>9. Typed' /\ RecordsDisjoint' /\ DataAlone'
    BY <1>1, <1>2 DEF Writing, Typed, RecordsDisjoint, DataAlone
<1>10. Bodies'
    BY <1>1, <1>2, <1>8 DEF Writing, Bodies, InBounds
<1>11. AtEntry'
    <2>1. Read(entry')
        BY <1>5, <1>7 DEF Read
    <2>2. \E l \in image' : l.kind = "local" /\ l.at = entry'.at /\ l.len = LLen(entry')
        BY <1>1, <1>2, <1>7 DEF Writing, AtEntry
    <2>3. \A r \in image' : r.at <= entry'.at
        BY <1>1, <1>2, <1>7 DEF Writing, AtEntry
    <2>4. pos' = entry'.at + LLen(entry') /\ queue' # <<>>
        BY <1>2, <1>6, <1>7
    <2> QED BY <1>7, <1>8, <2>1, <2>2, <2>3, <2>4 DEF AtEntry, Read, LLen
<1>12. Frontier' = Frontier
    BY <1>1, <1>2, <1>7 DEF Frontier
<1>13. Finishes' /\ Shorter'
    BY <1>1, <1>2, <1>12, EntriesSame DEF Writing
<1> QED BY <1>1, <1>2, <1>9, <1>10, <1>11, <1>13 DEF WriteInv, Writing

LEMMA CloseStreamWrites == ASSUME WriteInv, CloseStream PROVE WriteInv'
<1>1. wpc = "closing" /\ base /\ Writing /\ opened
    BY DEF CloseStream, WriteInv
<1>2. /\ Fits(entry) /\ image' = OtherThanLocal(entry) \cup {LocalHeader(entry), DataOf(entry)}
      /\ pos' = pos + entry.c /\ cd' = Append(cd, CdHeader(entry))
      /\ archived' = Append(archived, [path |-> entry.path, data |-> entry.data])
      /\ wpc' = "adding" /\ UNCHANGED <<wret, opened, base, method, swallowed>>
    BY DEF CloseStream, UpdateLocalHeader, Fits
<1>3. /\ entry \in Entries /\ pos = entry.at + LLen(entry) /\ queue # <<>> /\ Read(entry)
      /\ (swallowed = {} => entry.torn = FALSE)
      /\ \A r \in image : r.at <= entry.at
    BY <1>1 DEF Writing, AtEntry
<1>4. PICK old \in image : old.kind = "local" /\ old.at = entry.at /\ old.len = LLen(entry)
    BY <1>1 DEF Writing, AtEntry
<1>30. PICK l, d : l = LocalHeader(entry) /\ d = DataRec(entry)
    OBVIOUS
<1>5. DataOf(entry) = d
    BY <1>3, <1>30 DEF DataOf, DataRec
<1>6. /\ l.at = entry.at /\ l.len = LLen(entry) /\ l.kind = "local" /\ LLen(entry) \in {1, 2}
      /\ entry.at \in Nat /\ entry.c \in Nat /\ entry.u \in Nat
      /\ d.at = pos /\ d.len = entry.c /\ d.kind = "data" /\ d.torn = entry.torn
    BY <1>3, <1>30, LocalIs
<1>7. image' = OtherThanLocal(entry) \cup {l, d}
    BY <1>2, <1>5, <1>30
<1>8. ASSUME NEW r \in OtherThanLocal(entry)
      PROVE  /\ r \in image /\ InBounds(r) /\ r.at \in Nat /\ r.len \in Nat /\ r.at + r.len <= pos
             /\ ~(r.kind = "local" /\ r.at = entry.at) /\ r.at <= entry.at
             /\ r.at + r.len <= entry.at
    <2>1. r \in image /\ ~(r.kind = "local" /\ r.at = entry.at)
        BY DEF OtherThanLocal
    <2>2. InBounds(r) /\ r.at <= entry.at
        BY <1>1, <1>3, <2>1 DEF Writing, Bodies
    <2>3. r.at \in Nat /\ r.len \in Nat /\ r.at + r.len <= pos
        BY <2>2 DEF InBounds
    <2>4. r = old \/ r.at + r.len <= old.at \/ old.at + old.len <= r.at
        BY <1>1, <2>1 DEF Writing, RecordsDisjoint
    <2>5. r # old
        BY <1>4, <2>1
    <2>6. r.at + r.len <= entry.at
        BY <1>4, <1>6, <2>2, <2>3, <2>4, <2>5
    <2> QED BY <2>1, <2>2, <2>3, <2>6
<1>9. CdHeader(entry) \in CdHeaders
    BY <1>3, HeaderType
<1>10. cd \in Seq(CdHeaders) /\ archived \in Seq(Archs) /\ Len(archived) = Len(cd) /\ queue \in Seq(Paths) /\ pos \in Nat
    BY <1>1 DEF Writing, Typed
<1>11. Typed'
    <2>1. [path |-> entry.path, data |-> entry.data] \in Archs
        BY <1>3 DEF Entries, Archs
    <2>2. cd' \in Seq(CdHeaders) /\ archived' \in Seq(Archs) /\ Len(archived') = Len(cd')
        BY <1>2, <1>9, <1>10, <2>1
    <2>3. queue' \in Seq(Paths)
        <3>1. PICK more \in TraversalDir(entry.path) : queue' = Tail(queue) \o more
            BY DEF CloseStream
        <3>2. more \in Seq(Paths)
            <4>1. CASE entry.path \in DOMAIN Children
                <5>1. Children[entry.path] \in Seq(Paths) /\ <<>> \in Seq(Paths)
                    BY <4>1, ZipAssumption
                <5>2. more \in {Children[entry.path], <<>>}
                    BY <4>1 DEF TraversalDir, Kind
                <5> QED BY <5>1, <5>2
            <4>2. CASE entry.path \notin DOMAIN Children
                <5>1. Kind(entry.path) # "dir"
                    BY <4>2 DEF Kind
                <5>2. more \in {<<>>}
                    BY <5>1 DEF TraversalDir
                <5> QED BY <5>2
            <4> QED BY <4>1, <4>2
        <3>3. Tail(queue) \in Seq(Paths)
            BY <1>3, <1>10
        <3> QED BY <3>1, <3>2, <3>3
    <2>4. pos' \in Nat
        BY <1>2, <1>6, <1>10
    <2> QED BY <1>1, <1>2, <2>2, <2>3, <2>4 DEF Writing, Typed
<1>12. Bodies'
    <2>1. \A r \in OtherThanLocal(entry) : InBounds(r)'
        <3> TAKE r \in OtherThanLocal(entry)
        <3>1. InBounds(r) /\ r.at + r.len <= pos'
            BY <1>2, <1>6, <1>8, <1>10
        <3> QED BY <1>2, <3>1 DEF InBounds
    <2>2. InBounds(l)' /\ InBounds(d)'
        <3>1. pos' = pos + entry.c /\ swallowed' = swallowed
            BY <1>2
        <3>2. l.at + l.len <= pos' /\ d.at + d.len <= pos' /\ l.at \in Nat /\ l.len \in Nat /\ d.at \in Nat /\ d.len \in Nat /\ l.len > 0
            BY <1>3, <1>6, <1>10, <3>1
        <3>3. InBounds(l)'
            BY <1>6, <3>2 DEF InBounds
        <3>4. InBounds(d)'
            BY <1>3, <1>6, <3>1, <3>2 DEF InBounds
        <3> QED BY <3>3, <3>4
    <2> QED BY <1>7, <2>1, <2>2 DEF Bodies
<1>13. RecordsDisjoint'
    <2>1. \A r \in OtherThanLocal(entry) : r.at + r.len <= l.at /\ r.at + r.len <= d.at
        BY <1>6, <1>8
    <2>2. l.at + l.len <= d.at
        BY <1>3, <1>6
    <2>3. \A r, s \in OtherThanLocal(entry) : r = s \/ r.at + r.len <= s.at \/ s.at + s.len <= r.at
        BY <1>1, <1>8 DEF Writing, RecordsDisjoint
    <2> QED BY <1>7, <2>1, <2>2, <2>3 DEF RecordsDisjoint
<1>14. DataAlone'
    <2>1. \A r \in OtherThanLocal(entry) : r.at # d.at
        BY <1>3, <1>6, <1>8
    <2>2. \A r, s \in OtherThanLocal(entry) : r.kind = "data" /\ s.kind = "data" /\ r.at = s.at => r = s
        BY <1>1, <1>8 DEF Writing, DataAlone
    <2> QED BY <1>6, <1>7, <2>1, <2>2 DEF DataAlone
<1>15. AtEntry'
    BY <1>2 DEF AtEntry
<1>16. Frontier = entry.at /\ Frontier' = entry.at + LLen(entry) + entry.c /\ Frontier' = pos'
    BY <1>1, <1>2, <1>3 DEF Frontier
<1>17. Finishes'
    <2>1. ASSUME NEW i \in DOMAIN cd PROVE \E e \in Entries : Kept(e, i)'
        <3>1. PICK e \in Entries : Kept(e, i)
            BY <1>1 DEF Writing, Finishes
        <3>2. e.at + LLen(e) + e.c <= entry.at
            BY <1>16, <3>1 DEF Kept
        <3>3. LLen(e) \in {1, 2} /\ e.at \in Nat /\ e.c \in Nat /\ LocalHeader(e).at = e.at /\ DataRec(e).kind = "data"
            BY LocalIs
        <3>4. LocalHeader(e) \in image' /\ DataRec(e) \in image'
            <4>1. e.at # entry.at
                BY <1>6, <3>2, <3>3
            <4> QED BY <1>7, <3>1, <3>3, <4>1 DEF Kept, OtherThanLocal
        <3>5. cd'[i] = cd[i] /\ archived'[i] = archived[i]
            BY <1>2, <1>10
        <3>6. e.at + LLen(e) + e.c <= Frontier'
            BY <1>6, <1>16, <3>2, <3>3
        <3>7. Kept(e, i)'
            BY <3>1, <3>4, <3>5, <3>6 DEF Kept
        <3> QED BY <3>7
    <2>2. PICK n : n = Len(cd) + 1
        OBVIOUS
    <2>3. \E e \in Entries : Kept(e, n)'
        <3>1. PICK e \in Entries : e = entry
            BY <1>3
        <3>2. Read(e) /\ Fits(e)
            BY <1>2, <1>3, <3>1
        <3>3. cd'[n] = CdHeader(e) /\ archived'[n] = [path |-> e.path, data |-> e.data]
            BY <1>2, <1>10, <2>2, <3>1
        <3>4. LocalHeader(e) \in image' /\ DataRec(e) \in image'
            BY <1>7, <1>30, <3>1
        <3>5. e.at + LLen(e) + e.c <= Frontier'
            BY <1>6, <1>16, <3>1
        <3>6. Kept(e, n)'
            BY <3>2, <3>3, <3>4, <3>5 DEF Kept
        <3> QED BY <3>6
    <2>4. \A i \in DOMAIN cd' : i \in DOMAIN cd \/ i = n
        <3>1. DOMAIN cd = 1 .. Len(cd) /\ Len(cd) \in Nat /\ DOMAIN cd' = 1 .. Len(cd) + 1
            BY <1>2, <1>9, <1>10, AppendProperties, LenProperties
        <3> QED BY <2>2, <3>1
    <2> QED BY <2>1, <2>3, <2>4 DEF Finishes
<1>18. Shorter'
    <2>1. SumLen(cd') = SumLen(cd) + CdHeader(entry).len /\ SumLen(cd) \in Nat
        BY <1>2, <1>9, <1>10, SumLenAppend
    <2>2. CdHeader(entry).len = 1 + (IF entry.u > Max32 THEN 1 ELSE 0) + (IF entry.c > Max32 THEN 1 ELSE 0)
                                  + (IF entry.at > Max32 THEN 1 ELSE 0)
        BY <1>3, HeaderType
    <2>3. entry.zip64 => LLen(entry) = 2
        BY DEF LLen
    <2>4. SumLen(cd) <= entry.at \/ entry.at > Max32
        BY <1>1, <1>16 DEF Writing, Shorter
    <2>5. PICK x \in Nat, y \in Nat, z \in {1, 2}, a \in Nat, b \in Nat :
            x = SumLen(cd) /\ y = entry.at /\ z = LLen(entry) /\ a = entry.c /\ b = entry.u
        BY <1>6, <2>1
    <2>6. PICK h : h = CdHeader(entry).len
        OBVIOUS
    <2>7. h = 1 + (IF b > Max32 THEN 1 ELSE 0) + (IF a > Max32 THEN 1 ELSE 0) + (IF y > Max32 THEN 1 ELSE 0)
        BY <2>2, <2>5, <2>6
    <2>8. b > Max32 => z = 2 \/ a > Max32
        <3>1. b > Max32 => entry.zip64 \/ a > Max32
            BY <1>2, <2>5, Limits DEF Fits
        <3> QED BY <2>3, <2>5, <3>1
    <2>9. x + h <= y + z + a \/ y + z + a > Max32
        BY <2>4, <2>5, <2>7, <2>8, Limits
    <2>10. SumLen(cd') = x + h /\ Frontier' = y + z + a
        BY <1>16, <2>1, <2>5, <2>6
    <2> QED BY <2>9, <2>10 DEF Shorter
<1> QED BY <1>1, <1>2, <1>11, <1>12, <1>13, <1>14, <1>15, <1>17, <1>18 DEF WriteInv, Writing

\* The headers as they are placed, and what comes after them.
LEMMA DirIs ==
    ASSUME Typed
    PROVE  /\ SumLen(cd) \in Nat
           /\ \A i \in DOMAIN cd :
                /\ DirRec(i) \in CdHeaders /\ DirRec(i).at = pos + Off(cd, i - 1) /\ DirRec(i).at \in Nat
                /\ DirRec(i).len = cd[i].len /\ DirRec(i).len \in Nat \ {0} /\ DirRec(i).kind = "cd"
                /\ pos <= DirRec(i).at /\ DirRec(i).at + DirRec(i).len <= pos + SumLen(cd)
           /\ \A i, j \in DOMAIN cd : i < j => DirRec(i).at + DirRec(i).len <= DirRec(j).at
<1>1. pos \in Nat /\ cd \in Seq(CdHeaders) /\ DOMAIN cd = 1 .. Len(cd) /\ Len(cd) \in Nat
    BY LenProperties DEF Typed
<1>2. SumLen(cd) \in Nat
    <2>1. Len(cd) \in 0 .. Len(cd)
        BY <1>1
    <2> QED BY <1>1, <2>1, OffSteps
<1>3. ASSUME NEW i \in DOMAIN cd
      PROVE  /\ DirRec(i) \in CdHeaders /\ DirRec(i).at = pos + Off(cd, i - 1) /\ DirRec(i).at \in Nat
             /\ DirRec(i).len = cd[i].len /\ DirRec(i).len \in Nat \ {0} /\ DirRec(i).kind = "cd"
             /\ pos <= DirRec(i).at /\ DirRec(i).at + DirRec(i).len <= pos + SumLen(cd)
             /\ DirRec(i).at + DirRec(i).len = pos + Off(cd, i)
    <2>1. cd[i] \in CdHeaders
        BY <1>1
    <2>2. i - 1 \in 0 .. Len(cd) /\ i \in 1 .. Len(cd) /\ i \in 0 .. Len(cd)
        BY <1>1
    <2>3. Off(cd, i - 1) \in Nat /\ Off(cd, i) = Off(cd, i - 1) + cd[i].len /\ Off(cd, i) \in Nat
        BY <1>1, <2>2, OffSteps
    <2>4. PICK a \in Nat : a = pos + Off(cd, i - 1)
        BY <1>1, <2>3
    <2>5. DirRec(i) = [cd[i] EXCEPT !.at = a]
        BY <2>4 DEF DirRec
    <2>6. DirRec(i) \in CdHeaders /\ DirRec(i).at = a /\ DirRec(i).len = cd[i].len
        BY <2>1, <2>5 DEF CdHeaders
    <2>7. DirRec(i).len \in Nat \ {0} /\ DirRec(i).kind = "cd"
        BY <2>6 DEF CdHeaders
    <2>8. Off(cd, i) <= SumLen(cd)
        <3>1. CASE i = Len(cd)
            BY <1>1, <1>2, <3>1, OffSteps
        <3>2. CASE i < Len(cd)
            <4>1. Len(cd) \in 0 .. Len(cd)
                BY <1>1
            <4>2. Off(cd, i) < Off(cd, Len(cd))
                BY <1>1, <2>2, <3>2, <4>1, OffGrows
            <4> QED BY <1>1, <1>2, <2>3, <4>2, OffSteps
        <3> QED BY <2>2, <3>1, <3>2
    <2>9. PICK x \in Nat, y \in Nat, z \in Nat, w \in Nat :
            x = Off(cd, i - 1) /\ y = Off(cd, i) /\ z = SumLen(cd) /\ w = DirRec(i).len
        BY <1>2, <2>3, <2>7
    <2>10. y = x + w /\ y <= z /\ a = pos + x
        BY <2>3, <2>4, <2>6, <2>8, <2>9
    <2>11. pos <= a /\ a + w <= pos + z /\ a + w = pos + y
        BY <1>1, <2>10
    <2> QED BY <2>4, <2>6, <2>7, <2>9, <2>11
<1>4. ASSUME NEW i \in DOMAIN cd, NEW j \in DOMAIN cd, i < j PROVE DirRec(i).at + DirRec(i).len <= DirRec(j).at
    <2>1. DirRec(i).at + DirRec(i).len = pos + Off(cd, i) /\ DirRec(j).at = pos + Off(cd, j - 1)
        BY <1>3
    <2>2. i \in 0 .. Len(cd) /\ j - 1 \in 0 .. Len(cd) /\ (i = j - 1 \/ i < j - 1)
        BY <1>1, <1>4
    <2>3. Off(cd, i) \in Nat /\ Off(cd, j - 1) \in Nat
        BY <1>1, <2>2, OffSteps
    <2>4. Off(cd, i) <= Off(cd, j - 1)
        <3>1. CASE i = j - 1
            BY <2>3, <3>1
        <3>2. CASE i < j - 1
            BY <1>1, <2>2, <2>3, <3>2, OffGrows
        <3> QED BY <2>2, <3>1, <3>2
    <2> QED BY <1>1, <2>1, <2>3, <2>4
<1> QED BY <1>2, <1>3, <1>4

\* Whether the archive has the 64-bit end records.
Zip64Ends == SumLen(cd) > Max32 \/ pos > Max32 \/ Len(cd) > Max16
EndRec(a) ==
    [at |-> a, len |-> 1, kind |-> "eocd", off |-> Clip(pos, Max32),
     size |-> Clip(SumLen(cd), Max32), total |-> Clip(Len(cd), Max16)]
End64(a) ==
    [at |-> a, len |-> 1, kind |-> "eocd64", off |-> pos, size |-> SumLen(cd), total |-> Len(cd)]
Locator(a) == [at |-> a + 1, len |-> 1, kind |-> "locator", off |-> a]

LEMMA EndsAre ==
    EndsOf = IF Zip64Ends
             THEN {End64(pos + SumLen(cd)), Locator(pos + SumLen(cd)), EndRec(pos + SumLen(cd) + 2)}
             ELSE {EndRec(pos + SumLen(cd))}
BY DEF EndsOf, EndRecords, EndRecordsIf, Zip64Ends, EndRec, End64, Locator

LEMMA EndsApart ==
    ASSUME Typed
    PROVE  /\ \A r \in EndsOf : r.at \in Nat /\ r.len = 1 /\ r.kind \in EndKinds /\ pos + SumLen(cd) <= r.at
           /\ \A r, s \in EndsOf : r = s \/ r.at + r.len <= s.at \/ s.at + s.len <= r.at
<1>1. pos + SumLen(cd) \in Nat
    BY DirIs DEF Typed
<1>2. PICK a \in Nat : a = pos + SumLen(cd)
    BY <1>1
<1>3. CASE Zip64Ends
    <2>1. EndsOf = {End64(a), Locator(a), EndRec(a + 2)}
        BY <1>2, <1>3, EndsAre
    <2>2. /\ End64(a).at = a /\ End64(a).len = 1 /\ End64(a).kind = "eocd64"
          /\ Locator(a).at = a + 1 /\ Locator(a).len = 1 /\ Locator(a).kind = "locator"
          /\ EndRec(a + 2).at = a + 2 /\ EndRec(a + 2).len = 1 /\ EndRec(a + 2).kind = "eocd"
        BY DEF End64, Locator, EndRec
    <2> QED BY <1>2, <2>1, <2>2 DEF EndKinds
<1>4. CASE ~Zip64Ends
    <2>1. EndsOf = {EndRec(a)}
        BY <1>2, <1>4, EndsAre
    <2>2. EndRec(a).at = a /\ EndRec(a).len = 1 /\ EndRec(a).kind = "eocd"
        BY DEF EndRec
    <2> QED BY <1>2, <2>1, <2>2 DEF EndKinds
<1> QED BY <1>3, <1>4

LEMMA CloseWrites == ASSUME WriteInv, Close PROVE WriteInv'
<1>1. /\ wpc = "ready" /\ wpc' = "closed" /\ base' = FALSE
      /\ UNCHANGED <<opened, method, pos, cd, queue, entry, archived>>
    BY DEF Close
<1>2. CASE ~(opened /\ base)
    <2>1. image = {} /\ image' = image
        BY <1>1, <1>2 DEF Close, WriteInv
    <2> QED BY <1>1, <2>1 DEF WriteInv
<1>3. CASE opened /\ base
    <2>1. Writing
        BY <1>3 DEF WriteInv
    <2>2. PICK ends \in SUBSET EndsOf :
            /\ image' = image \cup Placed(cd, pos) \cup ends
            /\ (Sound' => ends = EndsOf) /\ (swallowed' = {} => swallowed = {})
        <3>1. \/ image' = image \cup Placed(cd, pos) \cup EndsOf /\ swallowed' = swallowed
              \/ image' = image \cup Placed(cd, pos) /\ wret' = "error" /\ swallowed' = swallowed
              \/ image' = image \cup Placed(cd, pos) /\ swallowed' = swallowed \cup {"flush"}
            BY <1>3 DEF Close, EndsOf
        <3>2. {} \in SUBSET EndsOf /\ EndsOf \in SUBSET EndsOf /\ Placed(cd, pos) \cup {} = Placed(cd, pos)
              /\ image \cup Placed(cd, pos) \cup {} = image \cup Placed(cd, pos)
            OBVIOUS
        <3>3. CASE image' = image \cup Placed(cd, pos) \cup EndsOf /\ swallowed' = swallowed
            BY <3>2, <3>3
        <3>4. CASE image' = image \cup Placed(cd, pos) /\ wret' = "error" /\ swallowed' = swallowed
            <4>1. ~Sound'
                BY <3>4 DEF Sound
            <4> QED BY <3>2, <3>4, <4>1
        <3>5. CASE image' = image \cup Placed(cd, pos) /\ swallowed' = swallowed \cup {"flush"}
            <4>1. swallowed' # {}
                BY <3>5
            <4>2. ~Sound'
                BY <4>1 DEF Sound
            <4> QED BY <3>2, <3>5, <4>1, <4>2
        <3> QED BY <3>1, <3>3, <3>4, <3>5
    <2>3. Placed(cd, pos) = {DirRec(i) : i \in DOMAIN cd}
        BY DEF Placed, DirRec, Off
    <2>4. Typed /\ Typed'
        BY <1>1, <2>1 DEF Writing, Typed
    <2>5. EndsOf' = EndsOf /\ \A i : DirRec(i)' = DirRec(i)
        BY <1>1 DEF EndsOf, DirRec
    <2>6. Frontier' = Frontier
        BY <1>1 DEF Frontier
    <2>7. Finishes' /\ Shorter'
        BY <1>1, <2>1, <2>2, <2>6, EntriesSame DEF Writing
    <2>8. \A r \in image : InBounds(r) /\ InBounds(r)' /\ r.at \in Nat /\ r.len \in Nat /\ r.at + r.len <= pos
        BY <1>1, <2>1, <2>2 DEF Writing, Bodies, InBounds
    <2>9. \A r \in image' : r \in image \/ (\E i \in DOMAIN cd : r = DirRec(i)) \/ r \in EndsOf
        BY <2>2, <2>3
    <2>10. RecordsDisjoint'
        <3> SUFFICES ASSUME NEW r \in image', NEW s \in image'
                     PROVE  r = s \/ r.at + r.len <= s.at \/ s.at + s.len <= r.at
            BY DEF RecordsDisjoint
        <3>1. SumLen(cd) \in Nat /\ pos \in Nat
            BY <2>4, DirIs DEF Typed
        <3>2. ASSUME NEW x, x \in image \/ (\E i \in DOMAIN cd : x = DirRec(i)) \/ x \in EndsOf
              PROVE  /\ x.at \in Nat /\ x.len \in Nat
                     /\ x \in image => x.at + x.len <= pos
                     /\ x \in EndsOf => pos + SumLen(cd) <= x.at
                     /\ (\E i \in DOMAIN cd : x = DirRec(i)) => pos <= x.at /\ x.at + x.len <= pos + SumLen(cd)
            <4>1. \A i \in DOMAIN cd : /\ DirRec(i).at \in Nat /\ DirRec(i).len \in Nat
                                       /\ pos <= DirRec(i).at /\ DirRec(i).at + DirRec(i).len <= pos + SumLen(cd)
                BY <2>4, DirIs
            <4>2. x \in EndsOf => x.at \in Nat /\ x.len \in Nat /\ pos + SumLen(cd) <= x.at
                BY <2>4, EndsApart
            <4> QED BY <2>8, <3>2, <4>1, <4>2
        <3>3. CASE r \in image /\ s \in image
            BY <2>1, <3>3 DEF Writing, RecordsDisjoint
        <3>4. CASE r \in EndsOf /\ s \in EndsOf
            BY <2>4, <3>4, EndsApart
        <3>5. ASSUME NEW i \in DOMAIN cd, r = DirRec(i), NEW j \in DOMAIN cd, s = DirRec(j)
              PROVE  r = s \/ r.at + r.len <= s.at \/ s.at + s.len <= r.at
            <4>1. i \in Int /\ j \in Int
                BY <2>4, LenProperties DEF Typed
            <4>2. i = j \/ i < j \/ j < i
                BY <4>1
            <4> QED BY <2>4, <3>5, <4>2, DirIs
        <3>6. PICK rk \in {1, 2, 3} : /\ rk = 1 => r \in image
                                      /\ rk = 2 => \E i \in DOMAIN cd : r = DirRec(i)
                                      /\ rk = 3 => r \in EndsOf
            BY <2>9
        <3>7. PICK sk \in {1, 2, 3} : /\ sk = 1 => s \in image
                                      /\ sk = 2 => \E i \in DOMAIN cd : s = DirRec(i)
                                      /\ sk = 3 => s \in EndsOf
            BY <2>9
        <3>8. CASE rk = sk
            BY <3>3, <3>4, <3>5, <3>6, <3>7, <3>8
        <3>9. /\ r.at \in Nat /\ r.len \in Nat /\ s.at \in Nat /\ s.len \in Nat
              /\ (rk = 1 => r.at + r.len <= pos) /\ (sk = 1 => s.at + s.len <= pos)
              /\ (rk = 2 => pos <= r.at /\ r.at + r.len <= pos + SumLen(cd))
              /\ (sk = 2 => pos <= s.at /\ s.at + s.len <= pos + SumLen(cd))
              /\ (rk = 3 => pos + SumLen(cd) <= r.at) /\ (sk = 3 => pos + SumLen(cd) <= s.at)
            BY <2>9, <3>2, <3>6, <3>7
        <3>10. CASE rk # sk
            <4>1. PICK a \in Nat, b \in Nat, x \in Nat, y \in Nat, z \in Nat :
                    a = r.at /\ b = r.len /\ x = s.at /\ y = s.len /\ z = SumLen(cd)
                BY <3>1, <3>9
            <4>2. /\ (rk = 1 => a + b <= pos) /\ (sk = 1 => x + y <= pos)
                  /\ (rk = 2 => pos <= a /\ a + b <= pos + z) /\ (sk = 2 => pos <= x /\ x + y <= pos + z)
                  /\ (rk = 3 => pos + z <= a) /\ (sk = 3 => pos + z <= x)
                BY <3>9, <4>1
            <4>3. a + b <= x \/ x + y <= a
                BY <3>1, <3>6, <3>7, <3>10, <4>2
            <4> QED BY <4>1, <4>3
        <3> QED BY <3>8, <3>10
    <2>11. DataAlone'
        <3>1. \A r \in image' : r.kind = "data" => r \in image
            <4>1. \A i \in DOMAIN cd : DirRec(i).kind = "cd"
                BY <2>4, DirIs
            <4>2. \A r \in EndsOf : r.kind \in EndKinds
                BY <2>4, EndsApart
            <4> QED BY <2>9, <4>1, <4>2 DEF EndKinds
        <3> QED BY <2>1, <3>1 DEF Writing, DataAlone
    <2>12. \A r \in image' : InArchive(r)'
        BY <1>1, <2>5, <2>8, <2>9 DEF InArchive
    <2>13. \A i \in DOMAIN cd' : DirRec(i)' \in image'
        BY <1>1, <2>2, <2>3, <2>5
    <2>14. Sound' => EndsOf' \subseteq image'
        BY <2>2, <2>5
    <2>15. ClosedWell'
        BY <2>4, <2>7, <2>10, <2>11, <2>12, <2>13, <2>14 DEF ClosedWell
    <2> QED BY <1>1, <1>3, <2>15 DEF WriteInv
<1> QED BY <1>2, <1>3

LEMMA ReaderWritesNothing ==
    ASSUME OpenFile \/ GotoFirst \/ ExtractEntry \/ GotoNext \/ Finished
    PROVE  UNCHANGED writerVars
BY DEF OpenFile, GotoFirst, ExtractEntry, GotoNext, Finished, vars

LEMMA WriteStep == WriteInv /\ [Next]_vars => WriteInv'
<1> SUFFICES ASSUME WriteInv, [Next]_vars PROVE WriteInv'
    OBVIOUS
<1>1. CASE UNCHANGED vars
    BY <1>1, WriteSame DEF vars
<1>2. CASE OpenFile \/ GotoFirst \/ ExtractEntry \/ GotoNext \/ Finished
    BY <1>2, ReaderWritesNothing, WriteSame
<1>3. CASE SetCompressMethod \/ (\E paths \in Inputs : Add(paths)) \/ AddReturns \/ DeleteFiles
    BY <1>3, SmallWrites
<1> QED BY <1>1, <1>2, <1>3, EntryOpenWrites, AddDataWrites, CloseStreamWrites, CloseWrites DEF Next

\* A finished entry of an archive with nothing on a limit.
LEMMA OffTheLimit ==
    ASSUME ~EntryOnTheLimit, NEW e \in Entries, NEW i, Kept(e, i)
    PROVE  e.at # Max32 /\ e.c # Max32 /\ e.u # Max32
<1>1. LocalHeader(e) \in image /\ DataRec(e) \in image /\ e.data = [of |-> e.path, size |-> e.u]
    BY DEF Kept, Read
<1>2. /\ LocalHeader(e).at = e.at /\ LocalHeader(e).kind = "local"
      /\ DataRec(e).len = e.c /\ DataRec(e).kind = "data" /\ DataRec(e).data = e.data
    BY LocalIs
<1>3. e.data.size = e.u
    BY <1>1
<1> QED BY <1>1, <1>2, <1>3 DEF EntryOnTheLimit

LEMMA Agreement == ASSUME Finishes PROVE HeadersAgree
<1> SUFFICES ASSUME ~EntryOnTheLimit, NEW i \in DOMAIN cd
             PROVE  LET f == Zip64Field(cd[i]) IN
                    \E l \in At(f.at, "local") :
                        /\ f.u = IF l.extra # <<>> THEN l.extra[1] ELSE l.u
                        /\ f.c = IF l.extra # <<>> THEN l.extra[2] ELSE l.c
    BY DEF HeadersAgree
<1>1. PICK e \in Entries : Kept(e, i)
    BY DEF Finishes
<1>2. e.at # Max32 /\ e.c # Max32 /\ e.u # Max32
    BY <1>1, OffTheLimit
<1>3. cd[i] = CdHeader(e)
    BY <1>1 DEF Kept
<1>4. PICK f : f = Zip64Field(cd[i])
    OBVIOUS
<1>5. f.u = e.u /\ f.c = e.c /\ f.at = e.at
    BY <1>2, <1>3, <1>4, FieldIs
<1>6. PICK l : l = LocalHeader(e)
    OBVIOUS
<1>7. l \in At(f.at, "local")
    BY <1>1, <1>5, <1>6, LocalIs DEF Kept, At
<1>8. e.u = (IF l.extra # <<>> THEN l.extra[1] ELSE l.u) /\ e.c = (IF l.extra # <<>> THEN l.extra[2] ELSE l.c)
    <2>1. e.u \in Nat /\ e.c \in Nat
        BY DEF Entries
    <2>2. CASE e.zip64
        <3>1. l.extra = <<e.u, e.c>>
            BY <1>6, <2>2 DEF LocalHeader
        <3>2. <<e.u, e.c>> # <<>> /\ <<e.u, e.c>>[1] = e.u /\ <<e.u, e.c>>[2] = e.c
            OBVIOUS
        <3> QED BY <3>1, <3>2
    <2>3. CASE ~e.zip64
        <3>1. e.u <= Max32 /\ e.c <= Max32
            BY <1>1, <2>3 DEF Kept, Fits
        <3>2. l.extra = <<>> /\ l.u = Clip(e.u, Max32) /\ l.c = Clip(e.c, Max32)
            BY <1>6, <2>3 DEF LocalHeader
        <3> QED BY <2>1, <3>1, <3>2, Limits DEF Clip
    <2> QED BY <2>2, <2>3
<1> QED BY <1>4, <1>5, <1>7, <1>8

LEMMA WriteInvSound == WriteInv => ArchiveSound
<1> SUFFICES ASSUME WriteInv PROVE ArchiveSound
    OBVIOUS
<1>1. CASE image = {}
    BY <1>1 DEF ArchiveSound, HeadersAgree, RecordsDisjoint
<1>2. CASE image # {}
    <2>1. Finishes /\ RecordsDisjoint
        BY <1>2 DEF WriteInv, Writing, ClosedWell
    <2> QED BY <2>1, Agreement DEF ArchiveSound
<1> QED BY <1>1, <1>2

\* The archive is sound at every moment it is written, for every mix of entries
\* and every value of the limits: the local header, written before the sizes are
\* known and again when they are, tells the sizes the central directory tells, or
\* the archive holds a number that is exactly a limit, and no record that
\* EntryOpen, CloseStream and SaveCD put into the file overlaps another.
THEOREM ArchiveIsSound == Spec => []ArchiveSound
<1>1. Spec => []WriteInv
    BY WriteInit, WriteStep, PTL DEF Spec
<1> QED BY <1>1, WriteInvSound, PTL

-----------------------------------------------------------------------------
(* The reader                                                              *)

\* An archive that was closed without a fault, with no number on a limit.
Good == Sound /\ ~OnTheLimit

LEMMA OneOf == ASSUME NEW x PROVE The({x}) = x
<1>1. (CHOOSE r \in {x} : TRUE) \in {x}
    OBVIOUS
<1> QED BY <1>1 DEF The

LEMMA GoodIs ==
    ASSUME WriteInv, Good
    PROVE  /\ wpc = "closed" /\ ClosedWell /\ Typed /\ EndsOf \subseteq image /\ swallowed = {}
           /\ Len(cd) # Max16 /\ pos # Max32 /\ ~EntryOnTheLimit
           /\ DOMAIN cd = 1 .. Len(cd) /\ Len(cd) \in Nat /\ pos \in Nat /\ cd \in Seq(CdHeaders) /\ SumLen(cd) \in Nat
<1>1. wpc = "closed" /\ image # {} /\ Sound /\ swallowed = {}
    BY DEF Good, Sound
<1>2. ClosedWell
    BY <1>1 DEF WriteInv
<1>3. Typed /\ EndsOf \subseteq image
    BY <1>1, <1>2 DEF ClosedWell
<1>4. SumLen(cd) \in Nat
    BY <1>3, DirIs
<1>5. cd \in Seq(CdHeaders) /\ pos \in Nat
    BY <1>3 DEF Typed
<1> QED BY <1>1, <1>2, <1>3, <1>4, <1>5, LenProperties DEF Good, OnTheLimit

\* Which records there are, by kind.
LEMMA ByKind ==
    ASSUME WriteInv, Good, NEW r \in image
    PROVE  /\ r.kind = "cd" => \E i \in DOMAIN cd : r = DirRec(i)
           /\ r.kind \in EndKinds => r \in EndsOf
           /\ r.kind = "local" => r.at \in Nat /\ r.len \in Nat /\ r.len > 0
           /\ r.kind = "data" => r.torn = FALSE
<1>1. InArchive(r) /\ swallowed = {} /\ Typed
    BY GoodIs DEF ClosedWell
<1>2. \A i \in DOMAIN cd : DirRec(i).kind = "cd"
    BY <1>1, DirIs
<1>3. \A s \in EndsOf : s.kind \in EndKinds
    BY <1>1, EndsApart
<1>4. CASE InBounds(r)
    BY <1>1, <1>4 DEF InBounds, EndKinds
<1>5. CASE \E i \in DOMAIN cd : r = DirRec(i)
    BY <1>2, <1>5 DEF EndKinds
<1>6. CASE r \in EndsOf
    BY <1>3, <1>6 DEF EndKinds
<1> QED BY <1>1, <1>4, <1>5, <1>6 DEF InArchive

\* The header that the reader finds at a place of the directory.
LEMMA HeaderAt ==
    ASSUME WriteInv, Good, NEW i \in DOMAIN cd
    PROVE  At(pos + Off(cd, i - 1), "cd") = {DirRec(i)}
<1>1. Typed /\ DirRec(i) \in image
    BY GoodIs DEF ClosedWell
<1>2. /\ DirRec(i).at = pos + Off(cd, i - 1) /\ DirRec(i).kind = "cd"
      /\ \A j \in DOMAIN cd : DirRec(j).at \in Nat /\ DirRec(j).len \in Nat \ {0}
      /\ \A j, k \in DOMAIN cd : j < k => DirRec(j).at + DirRec(j).len <= DirRec(k).at
    BY <1>1, DirIs
<1>3. ASSUME NEW j \in DOMAIN cd, DirRec(j).at = DirRec(i).at PROVE j = i
    <2>1. i \in Int /\ j \in Int
        BY GoodIs
    <2>2. ~(i < j) /\ ~(j < i)
        BY <1>2, <1>3
    <2> QED BY <2>1, <2>2
<1>4. ASSUME NEW r \in image, r.at = pos + Off(cd, i - 1), r.kind = "cd" PROVE r = DirRec(i)
    BY <1>2, <1>3, <1>4, ByKind
<1> QED BY <1>1, <1>2, <1>4 DEF At

\* What the reader gets of an entry: the sizes, the local header, the data.
LEMMA EntryRead ==
    ASSUME WriteInv, Good, NEW i \in DOMAIN cd, rd.correction = 0, NEW h, h = DirRec(i)
    PROVE  /\ archived[i] = [path |-> h.path, data |-> h.crc] /\ archived[i] \in Archs
           /\ LocalHeaderAt(Zip64Field(h).at) # {}
           /\ LET l == The(LocalHeaderAt(Zip64Field(h).at))
              IN  Decoded(h, Zip64Field(h), The(At(l.at + l.len, "data"))) = h.crc
<1>1. PICK e \in Entries : Kept(e, i)
    BY GoodIs DEF ClosedWell, Finishes
<1>2. e.at # Max32 /\ e.c # Max32 /\ e.u # Max32
    BY <1>1, GoodIs, OffTheLimit
<1>3. cd[i] = CdHeader(e) /\ archived[i] = [path |-> e.path, data |-> e.data]
      /\ LocalHeader(e) \in image /\ DataRec(e) \in image /\ Read(e)
    BY <1>1 DEF Kept
<1>4. /\ h.u = CdHeader(e).u /\ h.c = CdHeader(e).c /\ h.at32 = CdHeader(e).at32 /\ h.extra = CdHeader(e).extra
      /\ h.path = e.path /\ h.crc = e.data /\ h.method = e.method
    BY <1>3, HeaderType DEF DirRec, CdHeader, CdHeaders
<1>5. PICK f : f = Zip64Field(h)
    OBVIOUS
<1>6. f.u = e.u /\ f.c = e.c /\ f.at = e.at
    BY <1>2, <1>4, <1>5, FieldIs
<1>7. /\ LocalHeader(e).at = e.at /\ LocalHeader(e).len = LLen(e) /\ LocalHeader(e).kind = "local"
      /\ DataRec(e).at = e.at + LLen(e) /\ DataRec(e).len = e.c /\ DataRec(e).kind = "data"
      /\ DataRec(e).data = e.data /\ LLen(e) \in {1, 2} /\ e.at \in Nat
    BY LocalIs
<1>8. At(e.at, "local") = {LocalHeader(e)}
    <2>1. ASSUME NEW r \in image, r.at = e.at, r.kind = "local" PROVE r = LocalHeader(e)
        <3>1. r.len \in Nat /\ r.len > 0
            BY <2>1, ByKind
        <3>2. \/ r = LocalHeader(e) \/ r.at + r.len <= LocalHeader(e).at
              \/ LocalHeader(e).at + LocalHeader(e).len <= r.at
            BY <1>3, GoodIs DEF ClosedWell, RecordsDisjoint
        <3> QED BY <1>7, <2>1, <3>1, <3>2
    <2> QED BY <1>3, <1>7, <2>1 DEF At
<1>9. At(e.at + LLen(e), "data") = {DataRec(e)}
    <2>1. ASSUME NEW r \in image, r.at = e.at + LLen(e), r.kind = "data" PROVE r = DataRec(e)
        BY <1>3, <1>7, <2>1, GoodIs DEF ClosedWell, DataAlone
    <2> QED BY <1>3, <1>7, <2>1 DEF At
<1>10. LocalHeaderAt(f.at) = {LocalHeader(e)}
    <2>1. ~(rd.correction > 0)
        OBVIOUS
    <2> QED BY <1>6, <1>8, <2>1 DEF LocalHeaderAt
<1>11. PICK l : l = The(LocalHeaderAt(f.at))
    OBVIOUS
<1>12. l = LocalHeader(e)
    BY <1>10, <1>11, OneOf
<1>13. At(l.at + l.len, "data") = {DataRec(e)}
    BY <1>7, <1>9, <1>12
<1>14. The(At(l.at + l.len, "data")) = DataRec(e)
    BY <1>13, OneOf
<1>15. Decoded(h, f, DataRec(e)) = h.crc
    <2>1. e.data = [of |-> e.path, size |-> e.u] /\ (e.c = 0 => e.u = 0)
        BY <1>3 DEF Read
    <2>2. DataRec(e).torn = FALSE
        BY <1>3, <1>7, ByKind
    <2>3. CASE f.u = 0 \/ f.c = 0
        BY <1>4, <1>6, <2>1, <2>3 DEF Decoded
    <2>4. CASE ~(f.u = 0 \/ f.c = 0)
        BY <1>4, <1>6, <1>7, <2>2, <2>4 DEF Decoded
    <2> QED BY <2>3, <2>4
<1>16. archived[i] \in Archs
    BY <1>3 DEF Archs, Entries
<1> QED BY <1>3, <1>4, <1>5, <1>10, <1>11, <1>14, <1>15, <1>16

\* Where the directory is said to be.
Found(r) == r.at = pos /\ r.size = SumLen(cd) /\ r.total = Len(cd) /\ r.correction = 0

\* The end record that the search ends with, 64 bits wide or not, tells the numbers
\* themselves.
LEMMA EndFound ==
    ASSUME WriteInv, Good
    PROVE  /\ \E r \in image : r.kind = "eocd"
           /\ SearchEOCD.zip64 = Zip64Ends
           /\ SearchEOCD.end.off = pos /\ SearchEOCD.end.size = SumLen(cd) /\ SearchEOCD.end.total = Len(cd)
           /\ SearchEOCD.end.at = pos + SumLen(cd)
<1>1. /\ wpc = "closed" /\ EndsOf \subseteq image /\ Len(cd) # Max16 /\ pos # Max32
      /\ Len(cd) \in Nat /\ pos \in Nat /\ SumLen(cd) \in Nat
    BY GoodIs
<1>2. PICK a \in Nat, n \in Nat, t \in Nat : a = pos + SumLen(cd) /\ n = Len(cd) /\ t = SumLen(cd)
    BY <1>1
<1>3. t <= pos \/ pos > Max32
    BY <1>1, <1>2, GoodIs DEF ClosedWell, Shorter, Frontier
<1>4. Zip64Ends <=> pos > Max32 \/ n > Max16
    BY <1>1, <1>2, <1>3, Limits DEF Zip64Ends
<1>5. Zip64Ends \in BOOLEAN
    BY DEF Zip64Ends
<1>6. ASSUME NEW b, {r \in image : r.kind = "eocd"} = {EndRec(b)}
      PROVE  /\ SearchEOCD.zip64 = Zip64Ends
             /\ SearchEOCD.end = IF Zip64Ends THEN SearchEOCD64(EndRec(b)) ELSE EndRec(b)
    <2>1. The({r \in image : r.kind = "eocd"}) = EndRec(b)
        BY <1>6, OneOf
    <2>2. EndRec(b).total = Clip(n, Max16) /\ EndRec(b).off = Clip(pos, Max32)
        BY <1>2 DEF EndRec
    <2>3. EndRec(b).total = Max16 \/ EndRec(b).off = Max32 <=> Zip64Ends
        BY <1>1, <1>2, <1>4, <2>2, Limits DEF Clip
    <2> QED BY <1>5, <2>1, <2>3 DEF SearchEOCD
<1>7. CASE Zip64Ends
    <2>1. EndsOf = {End64(a), Locator(a), EndRec(a + 2)}
        BY <1>2, <1>7, EndsAre
    <2>2. /\ End64(a).at = a /\ End64(a).kind = "eocd64" /\ End64(a).off = pos /\ End64(a).size = t /\ End64(a).total = n
          /\ Locator(a).at = a + 1 /\ Locator(a).kind = "locator" /\ Locator(a).off = a
          /\ EndRec(a + 2).at = a + 2 /\ EndRec(a + 2).kind = "eocd"
        BY <1>2 DEF End64, Locator, EndRec
    <2>3. \A r \in image : r.kind \in EndKinds => r \in EndsOf
        BY ByKind
    <2>4. {r \in image : r.kind = "eocd"} = {EndRec(a + 2)}
        BY <1>1, <2>1, <2>2, <2>3 DEF EndKinds
    <2>5. At(a + 1, "locator") = {Locator(a)}
        BY <1>1, <2>1, <2>2, <2>3 DEF EndKinds, At
    <2>6. At(a, "eocd64") = {End64(a)}
        BY <1>1, <2>1, <2>2, <2>3 DEF EndKinds, At
    <2>7. EndRec(a + 2).at - 1 = a + 1
        BY <2>2
    <2>8. At(EndRec(a + 2).at - 1, "locator") = {Locator(a)}
        BY <2>5, <2>7
    <2>9. The({Locator(a)}) = Locator(a) /\ The({End64(a)}) = End64(a)
        BY OneOf
    <2>10. SearchEOCD64(EndRec(a + 2)) = End64(a)
        BY <2>2, <2>6, <2>8, <2>9 DEF SearchEOCD64
    <2>11. SearchEOCD.zip64 = Zip64Ends /\ SearchEOCD.end = End64(a)
        BY <1>6, <1>7, <2>4, <2>10
    <2> QED BY <1>2, <2>2, <2>4, <2>11
<1>8. CASE ~Zip64Ends
    <2>1. EndsOf = {EndRec(a)}
        BY <1>2, <1>8, EndsAre
    <2>2. /\ EndRec(a).at = a /\ EndRec(a).kind = "eocd" /\ EndRec(a).off = Clip(pos, Max32)
          /\ EndRec(a).size = Clip(t, Max32) /\ EndRec(a).total = Clip(n, Max16)
        BY <1>2 DEF EndRec
    <2>3. \A r \in image : r.kind \in EndKinds => r \in EndsOf
        BY ByKind
    <2>4. {r \in image : r.kind = "eocd"} = {EndRec(a)}
        BY <1>1, <2>1, <2>2, <2>3 DEF EndKinds
    <2>5. SearchEOCD.zip64 = Zip64Ends /\ SearchEOCD.end = EndRec(a)
        BY <1>6, <1>8, <2>4
    <2>6. Clip(pos, Max32) = pos /\ Clip(t, Max32) = t /\ Clip(n, Max16) = n
        BY <1>1, <1>3, <1>4, <1>8, Limits DEF Clip
    <2> QED BY <1>2, <2>2, <2>4, <2>5, <2>6
<1> QED BY <1>7, <1>8

LEMMA CentralDirFound ==
    ASSUME WriteInv, Good
    PROVE  \E r : CorrectCentralDir(SearchEOCD.zip64, SearchEOCD.end) = {r} /\ Found(r)
<1>1. PICK z, end : z = SearchEOCD.zip64 /\ end = SearchEOCD.end
    OBVIOUS
<1>2. z = Zip64Ends /\ end.off = pos /\ end.size = SumLen(cd) /\ end.total = Len(cd) /\ end.at = pos + SumLen(cd)
    BY <1>1, EndFound
<1>3. pos \in Nat /\ SumLen(cd) \in Nat /\ Len(cd) \in Nat /\ DOMAIN cd = 1 .. Len(cd) /\ cd \in Seq(CdHeaders)
    BY GoodIs
<1> DEFINE found(at, size) == [zip64 |-> z, at |-> at, size |-> size, total |-> end.total,
                               correction |-> at - end.off]
<1>4. Found(found(pos, SumLen(cd)))
    BY <1>2, <1>3 DEF Found
<1> HIDE DEF found
<1>5. CASE Len(cd) # 0
    <2>1. 1 \in DOMAIN cd /\ Off(cd, 0) = 0 /\ 1 - 1 = 0 /\ pos + 0 = pos
        BY <1>3, <1>5, OffSteps
    <2>2. At(pos + Off(cd, 1 - 1), "cd") = {DirRec(1)}
        BY <2>1, HeaderAt
    <2>3. pos + Off(cd, 1 - 1) = pos
        BY <1>3, <2>1
    <2>4. At(pos, "cd") # {}
        BY <2>2, <2>3
    <2>5. At(end.off, "cd") # {} /\ ~(end.at < end.off + end.size)
        BY <1>2, <1>3, <2>4
    <2>6. CorrectCentralDir(z, end) = {found(end.off, end.size)}
        BY <2>5 DEF CorrectCentralDir, found
    <2> QED BY <1>1, <1>2, <1>4, <2>6
<1>6. CASE Len(cd) = 0
    <2>1. DOMAIN cd = {}
        BY <1>3, <1>6
    <2>2. \A x : At(x, "cd") = {}
        BY <2>1, ByKind DEF At
    <2>3. SumLen(cd) = 0
        BY <2>1, SumLenIs, SumEmpty
    <2>4. end.size = 0 /\ end.at = pos /\ end.at >= end.off
        BY <1>2, <1>3, <2>3
    <2>5. ~(end.at > Max32 /\ ~z)
        BY <1>2, <2>4 DEF Zip64Ends
    <2>6. CorrectCentralDir(z, end) = {found(end.off, 0)}
        BY <2>2, <2>4, <2>5 DEF CorrectCentralDir, found
    <2> QED BY <1>1, <1>2, <1>4, <2>3, <2>6
<1> QED BY <1>5, <1>6

\* The entries taken so far are the first ones of the archive.
Taken(n) ==
    /\ extracted \in Seq(Archs) /\ Len(extracted) = n
    /\ \A j \in 1 .. n : extracted[j] = archived[j]
AtHeader == index \in Nat /\ index < Len(cd) /\ cur = pos + Off(cd, index)
Excused ==
    \/ \E p \in DOMAIN out : out[p] = "part"
    \/ rret = "cancel" \/ Kind(Header.path) = "link"
    \/ \E p \in Loose : p[1] = Header.path
Outcome ==
    /\ rret = "ok" => Taken(Len(archived))
    /\ rret # "ok" => Excused
    /\ \E n \in 0 .. Len(archived) : Taken(n)
ReadInv ==
    /\ rpc \in {"none", "open", "entry", "next", "ended"}
    /\ rpc # "none" => wpc = "closed"
    /\ rpc \in {"none", "open"} => extracted = <<>>
    /\ Good => /\ rpc \in {"open", "entry", "next"} => Found(rd)
               /\ rpc = "entry" => AtHeader /\ Taken(index)
               /\ rpc = "next" => AtHeader /\ Taken(index + 1)
               /\ rpc = "ended" => Outcome

LEMMA ReadInit == Init => ReadInv
BY DEF Init, ReadInv

\* The writer runs only before the reader has begun.
LEMMA WriterReadsNothing ==
    ASSUME ReadInv,
           \/ SetCompressMethod \/ (\E paths \in Inputs : Add(paths)) \/ EntryOpen \/ AddData
           \/ CloseStream \/ AddReturns \/ DeleteFiles \/ Close
    PROVE  ReadInv'
<1>1. wpc # "closed" /\ UNCHANGED <<rpc, extracted>>
    BY DEF SetCompressMethod, Add, EntryOpen, AddData, CloseStream, AddReturns, DeleteFiles, Close, readerVars
<1>2. rpc = "none" /\ extracted = <<>>
    BY <1>1 DEF ReadInv
<1> QED BY <1>1, <1>2 DEF ReadInv

LEMMA GoodSame ==
    ASSUME UNCHANGED writerVars
    PROVE  /\ Good' = Good /\ wpc' = wpc /\ image' = image
           /\ UNCHANGED <<pos, cd, archived>>
           /\ \A r : Found(r)' = Found(r)
           /\ \A a, k : At(a, k)' = At(a, k)
<1>1. UNCHANGED <<wpc, wret, opened, base, method, image, pos, cd, queue, entry, archived, swallowed>>
    BY DEF writerVars
<1> QED BY <1>1 DEF Good, Sound, OnTheLimit, EntryOnTheLimit, Found, At

LEMMA ReadSame == ASSUME ReadInv, UNCHANGED vars PROVE ReadInv'
<1>1. UNCHANGED writerVars /\ UNCHANGED <<rpc, rret, rd, index, cur, out, extracted>>
    BY DEF vars, readerVars
<1>2. /\ Good' = Good /\ wpc' = wpc /\ image' = image /\ UNCHANGED <<pos, cd, archived>>
    BY <1>1, GoodSame
<1>3. Found(rd)' = Found(rd) /\ AtHeader' = AtHeader /\ Taken(index)' = Taken(index) /\ Taken(index + 1)' = Taken(index + 1)
    BY <1>1, <1>2 DEF Found, AtHeader, Taken
<1>4. Excused' = Excused
    BY <1>1, <1>2 DEF Excused, Header, At, Loose
<1>5. Outcome' = Outcome
    BY <1>1, <1>2, <1>4 DEF Outcome, Taken
<1> QED BY <1>1, <1>2, <1>3, <1>4, <1>5 DEF ReadInv

LEMMA OpenReads == ASSUME WriteInv, ReadInv, OpenFile PROVE ReadInv'
<1>1. rpc = "none" /\ wpc = "closed" /\ UNCHANGED writerVars /\ extracted' = extracted
    BY DEF OpenFile
<1>2. Good' = Good /\ wpc' = wpc /\ \A r : Found(r)' = Found(r)
    BY <1>1, GoodSame
<1>3. extracted = <<>>
    BY <1>1 DEF ReadInv
<1>4. rpc' \in {"open", "ended"}
    BY DEF OpenFile, writerVars
<1>5. ASSUME Good PROVE rpc' = "open" /\ Found(rd')
    <2>1. PICK r : CorrectCentralDir(SearchEOCD.zip64, SearchEOCD.end) = {r} /\ Found(r)
        BY <1>5, CentralDirFound
    <2>2. \E s \in image : s.kind = "eocd"
        BY <1>5, EndFound
    <2>3. rpc' = "open" /\ rd' = The({r})
        BY <2>1, <2>2 DEF OpenFile
    <2> QED BY <2>1, <2>3, OneOf
<1>6. Good => Found(rd)'
    <2>1. ASSUME Good PROVE Found(rd)'
        <3>1. PICK r : r = rd'
            OBVIOUS
        <3>2. Found(r)
            BY <1>5, <2>1, <3>1
        <3>3. Found(r)'
            BY <1>2, <3>2
        <3> QED BY <3>1, <3>3 DEF Found
    <2> QED BY <2>1
<1>7. CASE Good
    BY <1>1, <1>2, <1>3, <1>5, <1>6, <1>7 DEF ReadInv
<1>8. CASE ~Good
    BY <1>1, <1>2, <1>3, <1>4, <1>8 DEF ReadInv
<1> QED BY <1>7, <1>8

\* Going to an entry of which all before were taken.
LEMMA GotoReads ==
    ASSUME WriteInv, Good, NEW i \in 0 .. Len(cd), GotoEntry(pos + Off(cd, i), i), Found(rd), Taken(i),
           UNCHANGED writerVars, UNCHANGED <<rd, out, extracted>>
    PROVE  /\ rpc' \in {"entry", "ended"}
           /\ Found(rd)'
           /\ rpc' = "entry" => AtHeader' /\ Taken(index)'
           /\ rpc' = "ended" => Outcome'
<1>1. /\ pos \in Nat /\ SumLen(cd) \in Nat /\ Len(cd) \in Nat /\ DOMAIN cd = 1 .. Len(cd) /\ cd \in Seq(CdHeaders)
      /\ Len(archived) = Len(cd)
    BY GoodIs DEF Typed
<1>2. UNCHANGED <<pos, cd, archived>>
    BY GoodSame
<1>3. Found(rd)'
    BY <1>2 DEF Found
<1>4. \A n : Taken(n)' = Taken(n)
    BY <1>2 DEF Taken
<1>5. CASE i = Len(cd)
    <2>1. rpc' = "ended" /\ rret' = "ok"
        BY <1>1, <1>5 DEF GotoEntry, Ends, Found
    <2>2. Taken(Len(archived))'
        <3>1. PICK n \in 0 .. Len(cd) : n = i
            OBVIOUS
        <3>2. Taken(n)'
            BY <1>4, <3>1
        <3>3. Len(archived') = n
            BY <1>1, <1>2, <1>5, <3>1
        <3> QED BY <3>2, <3>3 DEF Taken
    <2>3. Len(archived)' \in 0 .. Len(archived)'
        BY <1>1, <1>2
    <2>4. Outcome'
        BY <2>1, <2>2, <2>3 DEF Outcome
    <2> QED BY <1>3, <2>1, <2>4
<1>6. CASE i < Len(cd)
    <2>1. i + 1 \in DOMAIN cd /\ (i + 1) - 1 = i /\ Len(cd) \in 0 .. Len(cd) /\ i \in Nat
        BY <1>1, <1>6
    <2>2. At(pos + Off(cd, i), "cd") # {}
        <3>1. At(pos + Off(cd, (i + 1) - 1), "cd") = {DirRec(i + 1)}
            BY <2>1, HeaderAt
        <3> QED BY <2>1, <3>1
    <2>3. Off(cd, i) < SumLen(cd) /\ Off(cd, i) \in Nat
        BY <1>1, <1>6, <2>1, OffGrows, OffSteps
    <2>4. ~(i >= rd.total \/ pos + Off(cd, i) >= rd.at + rd.size)
        <3>1. PICK x \in Nat, y \in Nat : x = Off(cd, i) /\ y = SumLen(cd)
            BY <1>1, <2>3
        <3>2. rd.total = Len(cd) /\ rd.at + rd.size = pos + y
            BY <3>1 DEF Found
        <3>3. ~(pos + x >= pos + y)
            BY <1>1, <2>3, <3>1
        <3> QED BY <1>1, <1>6, <2>1, <3>1, <3>2, <3>3
    <2>5. rpc' = "entry" /\ index' = i /\ cur' = pos + Off(cd, i)
        BY <2>2, <2>4 DEF GotoEntry
    <2>6. AtHeader'
        BY <1>2, <1>6, <2>1, <2>5 DEF AtHeader, Off
    <2>7. Taken(index)'
        BY <1>2, <2>5 DEF Taken
    <2> QED BY <1>3, <2>5, <2>6, <2>7
<1>7. i = Len(cd) \/ i < Len(cd)
    <2>1. Len(cd) \in Int /\ i \in Int /\ i <= Len(cd)
        BY <1>1
    <2> QED BY <2>1
<1> QED BY <1>5, <1>6, <1>7

LEMMA GotoAnyway ==
    ASSUME NEW p, NEW i, GotoEntry(p, i)
    PROVE  rpc' \in {"entry", "ended"}
BY DEF GotoEntry, Ends

LEMMA GotoStepReads == ASSUME WriteInv, ReadInv, GotoFirst \/ GotoNext PROVE ReadInv'
<1>1. rpc \in {"open", "next"} /\ wpc = "closed" /\ UNCHANGED writerVars /\ UNCHANGED <<rd, out, extracted>>
    BY DEF ReadInv, GotoFirst, GotoNext
<1>2. Good' = Good /\ wpc' = wpc
    BY <1>1, GoodSame
<1>3. rpc' \in {"entry", "ended"}
    BY GotoAnyway DEF GotoFirst, GotoNext
<1>4. ASSUME Good, GotoFirst
      PROVE  Found(rd)' /\ (rpc' = "entry" => AtHeader' /\ Taken(index)') /\ (rpc' = "ended" => Outcome')
    <2>1. Found(rd) /\ extracted = <<>> /\ GotoEntry(rd.at, 0) /\ rpc = "open"
        BY <1>4 DEF GotoFirst, ReadInv
    <2>2. pos \in Nat /\ Len(cd) \in Nat /\ cd \in Seq(CdHeaders)
        BY <1>4, GoodIs
    <2>3. Off(cd, 0) = 0 /\ pos + 0 = pos /\ 0 \in 0 .. Len(cd)
        BY <2>2, OffSteps
    <2>4. GotoEntry(pos + Off(cd, 0), 0)
        <3>1. rd.at = pos + Off(cd, 0)
            BY <2>1, <2>3 DEF Found
        <3> QED BY <2>1, <3>1
    <2>5. Taken(0)
        BY <2>1 DEF Taken
    <2> QED BY <1>1, <1>4, <2>1, <2>3, <2>4, <2>5, GotoReads
<1>5. ASSUME Good, GotoNext
      PROVE  Found(rd)' /\ (rpc' = "entry" => AtHeader' /\ Taken(index)') /\ (rpc' = "ended" => Outcome')
    <2>1. Found(rd) /\ AtHeader /\ Taken(index + 1) /\ GotoEntry(cur + Header.len, index + 1)
        BY <1>5 DEF GotoNext, ReadInv
    <2>2. pos \in Nat /\ Len(cd) \in Nat /\ cd \in Seq(CdHeaders) /\ DOMAIN cd = 1 .. Len(cd) /\ Typed
        BY <1>5, GoodIs
    <2>3. PICK i \in Nat : i = index + 1 /\ i \in DOMAIN cd /\ i \in 0 .. Len(cd) /\ i - 1 = index /\ i - 1 \in 0 .. Len(cd)
        BY <2>1, <2>2 DEF AtHeader
    <2>4. Header = DirRec(i) /\ DirRec(i).len = cd[i].len
        <3>1. cur = pos + Off(cd, i - 1)
            BY <2>1, <2>3 DEF AtHeader
        <3>2. At(cur, "cd") = {DirRec(i)}
            BY <1>5, <2>3, <3>1, HeaderAt
        <3> QED BY <2>2, <2>3, <3>2, DirIs, OneOf DEF Header
    <2>5. Off(cd, i) = Off(cd, i - 1) + cd[i].len /\ Off(cd, i - 1) \in Nat /\ cd[i].len \in Nat
        BY <2>2, <2>3, OffSteps, LensNat
    <2>6. cur + Header.len = pos + Off(cd, i)
        BY <2>1, <2>2, <2>3, <2>4, <2>5 DEF AtHeader
    <2>7. GotoEntry(pos + Off(cd, i), i) /\ Taken(i)
        BY <2>1, <2>3, <2>6
    <2> QED BY <1>1, <1>5, <2>1, <2>3, <2>7, GotoReads
<1>6. Good => Found(rd)' /\ (rpc' = "entry" => AtHeader' /\ Taken(index)') /\ (rpc' = "ended" => Outcome')
    BY <1>4, <1>5
<1> QED BY <1>1, <1>2, <1>3, <1>6 DEF ReadInv

\* Of an entry whose contents are right there is no more than three ways to end.
LEMMA ExtractIs ==
    ASSUME WriteInv, Good, ReadInv, ExtractEntry
    PROVE  /\ index + 1 \in DOMAIN cd /\ index \in Nat /\ Taken(index) /\ AtHeader /\ Found(rd)
           /\ archived[index + 1] \in Archs
           /\ \/ /\ rpc' = "next" /\ extracted' = Append(extracted, archived[index + 1])
              \/ /\ rpc' = "ended" /\ rret' # "ok" /\ extracted' = extracted
                 /\ \/ rret' = "cancel" \/ Kind(Header.path) = "link"
                    \/ \E p \in DOMAIN out' : out'[p] = "part"
                    \/ \E p \in Loose' : p[1] = Header.path
<1>1. rpc = "entry" /\ Found(rd) /\ AtHeader /\ Taken(index) /\ rd.correction = 0
    BY DEF ExtractEntry, ReadInv, Found
<1>2. pos \in Nat /\ Len(cd) \in Nat /\ DOMAIN cd = 1 .. Len(cd)
    BY GoodIs
<1>3. PICK i \in DOMAIN cd : i = index + 1 /\ i - 1 = index
    BY <1>1, <1>2 DEF AtHeader
<1>4. At(cur, "cd") = {DirRec(i)}
    BY <1>1, <1>3, HeaderAt DEF AtHeader
<1>5. PICK h : h = Header
    OBVIOUS
<1>6. h = DirRec(i)
    BY <1>4, <1>5, OneOf DEF Header
<1>7. PICK f : f = Zip64Field(h)
    OBVIOUS
<1>8. /\ archived[i] = [path |-> h.path, data |-> h.crc] /\ archived[i] \in Archs /\ LocalHeaderAt(f.at) # {}
      /\ LET l == The(LocalHeaderAt(f.at)) IN Decoded(h, f, The(At(l.at + l.len, "data"))) = h.crc
    BY <1>1, <1>6, <1>7, EntryRead
<1>9. \/ /\ rpc' = "next" /\ extracted' = Append(extracted, [path |-> h.path, data |-> h.crc])
      \/ \E p : /\ \E leading : p = AutoRenamePath(h.path, leading)
                /\ \/ Kind(h.path) = "file" /\ SaveFile(h, f, p)
                   \/ Kind(h.path) = "link" /\ MakeSymlink(h, f, p)
    BY <1>5, <1>7 DEF ExtractEntry
<1> DEFINE Goal == \/ rpc' = "next" /\ extracted' = Append(extracted, archived[i])
                   \/ /\ rpc' = "ended" /\ rret' # "ok" /\ extracted' = extracted
                      /\ \/ rret' = "cancel" \/ Kind(h.path) = "link"
                         \/ \E p \in DOMAIN out' : out'[p] = "part"
                         \/ \E p \in Loose' : p[1] = h.path
<1>10. ASSUME NEW leading, NEW p, p = AutoRenamePath(h.path, leading), SaveFile(h, f, p) PROVE Goal
    <2>1. \/ p \in Loose /\ Ends("error") /\ UNCHANGED <<out, extracted>>
          \/ Ends("cancel") /\ extracted' = extracted
          \/ Ends("error") /\ KeepTempFile(p) /\ extracted' = extracted
          \/ rpc' = "next" /\ extracted' = Append(extracted, [path |-> h.path, data |-> h.crc])
        BY <1>8, <1>10 DEF SaveFile
    <2>2. KeepTempFile(p) => Place(p) \in DOMAIN out' /\ out'[Place(p)] = "part"
        BY DEF KeepTempFile, Created
    <2>3. p[1] = h.path
        BY <1>10 DEF AutoRenamePath
    <2>4. out' = out => Loose' = Loose
        BY DEF Loose
    <2> QED BY <1>8, <2>1, <2>2, <2>3, <2>4 DEF Ends
<1>11. ASSUME NEW p, Kind(h.path) = "link", MakeSymlink(h, f, p) PROVE Goal
    BY <1>8, <1>11 DEF MakeSymlink, Ends
<1>12. Goal
    BY <1>8, <1>9, <1>10, <1>11
<1> QED BY <1>1, <1>3, <1>5, <1>8, <1>12 DEF AtHeader

LEMMA ExtractReads == ASSUME WriteInv, ReadInv, ExtractEntry PROVE ReadInv'
<1>1. rpc = "entry" /\ UNCHANGED writerVars /\ UNCHANGED <<rd, index, cur>> /\ wpc = "closed"
    BY DEF ExtractEntry, ReadInv
<1>2. Good' = Good /\ wpc' = wpc /\ image' = image /\ UNCHANGED <<pos, cd, archived>>
    BY <1>1, GoodSame
<1>3. rpc' \in {"next", "ended"}
    BY DEF ExtractEntry, SaveFile, MakeSymlink, Ends
<1>4. CASE ~Good
    BY <1>1, <1>2, <1>3, <1>4 DEF ReadInv
<1>5. CASE Good
    <2>1. /\ index + 1 \in DOMAIN cd /\ index \in Nat /\ Taken(index) /\ AtHeader /\ Found(rd)
          /\ archived[index + 1] \in Archs
        BY <1>5, ExtractIs
    <2>2. Len(archived) = Len(cd) /\ Len(cd) \in Nat /\ DOMAIN cd = 1 .. Len(cd) /\ archived \in Seq(Archs)
        BY <1>5, GoodIs DEF Typed
    <2>3. Found(rd)' /\ AtHeader'
        BY <1>1, <1>2, <2>1 DEF Found, AtHeader, Off
    <2>4. ASSUME rpc' = "next", extracted' = Append(extracted, archived[index + 1]) PROVE ReadInv'
        <3>1. PICK i \in Nat, a \in Archs : i = index /\ a = archived[i + 1]
            BY <2>1
        <3>2. extracted \in Seq(Archs) /\ Len(extracted) = i /\ \A j \in 1 .. i : extracted[j] = archived[j]
            BY <2>1, <3>1 DEF Taken
        <3>3. extracted' = Append(extracted, a)
            BY <2>4, <3>1
        <3>4. /\ extracted' \in Seq(Archs) /\ Len(extracted') = i + 1
              /\ \A j \in 1 .. i + 1 : extracted'[j] = archived[j]
            BY <3>1, <3>2, <3>3
        <3>5. Taken(index + 1)'
            BY <1>1, <1>2, <3>1, <3>4 DEF Taken
        <3> QED BY <1>1, <1>2, <2>3, <2>4, <3>5 DEF ReadInv
    <2>5. ASSUME rpc' = "ended", rret' # "ok", extracted' = extracted,
                 \/ rret' = "cancel" \/ Kind(Header.path) = "link"
                 \/ \E p \in DOMAIN out' : out'[p] = "part"
                 \/ \E p \in Loose' : p[1] = Header.path
          PROVE  ReadInv'
        <3>1. PICK i \in Nat : i = index
            BY <2>1
        <3>2. Taken(i)'
            BY <1>2, <2>1, <2>5, <3>1 DEF Taken
        <3>3. i \in 0 .. Len(archived)'
            BY <1>2, <2>1, <2>2, <3>1
        <3>4. Header' = Header
            BY <1>1, <1>2 DEF Header, At
        <3>5. Excused'
            BY <2>5, <3>4 DEF Excused
        <3>6. Outcome'
            BY <2>5, <3>2, <3>3, <3>5 DEF Outcome
        <3> QED BY <1>1, <1>2, <2>5, <3>6 DEF ReadInv
    <2> QED BY <1>5, <2>4, <2>5, ExtractIs
<1> QED BY <1>4, <1>5

LEMMA ReadStep == WriteInv /\ ReadInv /\ [Next]_vars => ReadInv'
<1> SUFFICES ASSUME WriteInv, ReadInv, [Next]_vars PROVE ReadInv'
    OBVIOUS
<1>1. CASE UNCHANGED vars \/ Finished
    BY <1>1, ReadSame DEF Finished
<1> QED BY <1>1, WriterReadsNothing, OpenReads, GotoStepReads, ExtractReads DEF Next

LEMMA ReadInvRounds == WriteInv /\ ReadInv => RoundTrip
<1> SUFFICES ASSUME WriteInv, ReadInv, Sound, rpc = "ended", ~OnTheLimit
             PROVE  /\ rret = "ok" => extracted = archived
                    /\ rret # "ok" => \/ \E p \in DOMAIN out : out[p] = "part"
                                      \/ rret = "cancel" \/ Kind(Header.path) = "link"
                                      \/ \E p \in Loose : p[1] = Header.path
                    /\ IsPrefix(extracted, archived)
    BY DEF RoundTrip
<1>1. Good
    BY DEF Good
<1>2. Outcome
    BY <1>1 DEF ReadInv
<1>3. archived \in Seq(Archs)
    BY <1>1, GoodIs DEF Typed
<1>4. rret = "ok" => extracted = archived
    BY <1>2, <1>3, SeqEqual DEF Outcome, Taken
<1>5. IsPrefix(extracted, archived)
    <2>1. PICK n \in 0 .. Len(archived) : Taken(n)
        BY <1>2 DEF Outcome
    <2>2. Len(extracted) = n /\ extracted \in Seq(Archs) /\ \A j \in 1 .. n : extracted[j] = archived[j]
        BY <2>1 DEF Taken
    <2>3. SubSeq(extracted, 1, n) \in Seq(Archs) /\ Len(SubSeq(extracted, 1, n)) = n
          /\ \A j \in 1 .. n : SubSeq(extracted, 1, n)[j] = extracted[j]
        BY <2>2
    <2>4. SubSeq(archived, 1, n) \in Seq(Archs) /\ Len(SubSeq(archived, 1, n)) = n
          /\ \A j \in 1 .. n : SubSeq(archived, 1, n)[j] = archived[j]
        BY <1>3
    <2>5. SubSeq(extracted, 1, n) = SubSeq(archived, 1, n)
        BY <2>2, <2>3, <2>4, SeqEqual
    <2>6. n <= Len(archived)
        BY <1>3
    <2> QED BY <2>2, <2>5, <2>6 DEF IsPrefix
<1> QED BY <1>2, <1>4, <1>5 DEF Outcome, Excused

\* What OH_Archive_Reader_ExtractAllFile extracts is what was archived, in the same order
\* and with the same contents, for every archive that was closed without a fault and
\* holds no number that is exactly a limit of the format: for every mix of small
\* and large entries, of sizes that changed between stat and read, and of 64-bit
\* records.  An extraction that does not succeed has extracted the first entries,
\* and was cancelled, could not write, refused a link or found one in its way.
THEOREM RoundTripHolds == Spec => []RoundTrip
<1>1. Spec => []WriteInv
    BY WriteInit, WriteStep, PTL DEF Spec
<1>2. Spec => []ReadInv
    BY <1>1, ReadInit, ReadStep, PTL DEF Spec
<1> QED BY <1>1, <1>2, ReadInvRounds, PTL

=============================================================================

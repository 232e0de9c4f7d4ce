------------------------------ MODULE FileProofs ------------------------------
(***************************************************************************)
(* Two parts of the file interface.                                        *)
(*                                                                         *)
(* AtomicFileSafe holds for any number of temporary files, of chunks and   *)
(* of deaths of the process, in both bindings.  The invariant follows the  *)
(* chunks of the write under way through the workers, the FILE's buffer    *)
(* and the inode, and says that no FILE of the base file is open unless    *)
(* FinishWrite was called too early.                                       *)
(*                                                                         *)
(* MappingsSafe holds for every program, of any number of calls, of        *)
(* workers and of mappings, any file and any number of places in memory.   *)
(* The invariant follows every call that is left to the workers: what an   *)
(* mmap was told before it maps, the mapping whose pages are gone already  *)
(* but whose entity was not told, and the one that has no object yet.      *)
(***************************************************************************)
EXTENDS MCFileObjects, SequencesExt, SequenceTheorems, SumLemmas, TLAPS

----------------------------------------------------------------------------
(* AtomicFile.                                                             *)

Contents == Seq(Nat)
Whole(a, b, c) == (a \o b) \o c

Scalars ==
    /\ made \in 0 .. MaxTemps /\ chunks \in Nat /\ unowned \in Nat
    /\ ref \in {"null", "live", "deleted"} /\ binding \in {"napi", "core"}

Chunks ==
    /\ data \in [Files -> Contents]
    /\ buffer \in [Files -> Contents]
    /\ inflight \in [Files -> Contents]
    /\ given \in Contents /\ committed \in Contents

\* The three names of inodes: the base file is never a temporary, nor what the
\* object names, nor what it writes to.
Names ==
    /\ base \in 0 .. made \cup {None}
    /\ temps \subseteq 1 .. made /\ base \notin temps
    /\ newName \in 1 .. made \cup {Template, Empty} /\ (IsTemp(newName) => newName # base)
    /\ stream \in 1 .. made \cup {None} /\ (stream # None => stream # base)

\* A stream writes to the file the object names, until Delete clears the name; in
\* atomicfile_n_exporter.cpp a live reference goes with it.
StreamOfObject ==
    stream # None => stream = newName \/ newName = Empty

LiveWhileOpen == binding = "napi" /\ stream # None => ref = "live"

\* Inodes that were not made yet have nothing written, nor on its way.
Blank(f) == data[f] = <<>> /\ buffer[f] = <<>> /\ inflight[f] = <<>>
Unmade == \A f \in Files : f > made => Blank(f)

\* What the application gave is in the inode, in the buffer or with the workers,
\* unless the stream lost some of it.
Written ==
    IsTemp(newName) /\ newName \notin torn => Whole(data[newName], buffer[newName], inflight[newName]) = given

\* The base file holds what was committed and nothing is on its way to it.
Held ==
    ~late /\ base \notin torn =>
             IF base = None THEN committed = <<>>
             ELSE data[base] = committed /\ buffer[base] = <<>> /\ inflight[base] = <<>>

\* Who names what, and what is in it.
Ownership ==
    Scalars /\ Names /\ StreamOfObject /\ LiveWhileOpen /\ TempOwned /\ DescriptorsOwned
Followed == Chunks /\ Unmade /\ Written /\ Held

AInv == Ownership /\ Followed

-----------------------------------------------------------------------------
(* Sequences: a chunk changes its place, the whole stays.                  *)

LEMMA Associative ==
    ASSUME NEW a \in Contents, NEW b \in Contents, NEW c \in Contents
    PROVE  (a \o b) \o c = a \o (b \o c)
BY ConcatAssociative DEF Contents

LEMMA Regroup ==
    ASSUME NEW a \in Contents, NEW b \in Contents, NEW h \in Contents, NEW r \in Contents
    PROVE  Whole(a, b \o h, r) = Whole(a, b, h \o r)
<1>1. PICK d \in Contents : d = a \o b
    BY ConcatProperties DEF Contents
<1>2. (a \o b) \o h = a \o (b \o h)
    BY Associative, ZenonT(40)
<1>3. (d \o h) \o r = d \o (h \o r)
    BY Associative, SMTT(40)
<1> QED BY <1>1, <1>2, <1>3, Zenon DEF Whole

LEMMA AppendGiven ==
    ASSUME NEW a \in Contents, NEW b \in Contents, NEW c \in Contents, NEW x \in Nat
    PROVE  Whole(a, b, Append(c, x)) = Append(Whole(a, b, c), x)
<1>1. a \o b \in Seq(Nat) /\ (a \o b) \o c \in Seq(Nat)
    BY ConcatProperties DEF Contents
<1>2. Append(c, x) = c \o <<x>> /\ Append((a \o b) \o c, x) = ((a \o b) \o c) \o <<x>>
    BY <1>1, AppendIsConcat DEF Contents
<1>3. <<x>> \in Seq(Nat)
    OBVIOUS
<1> QED BY <1>1, <1>2, <1>3, ConcatAssociative, SMTT(40) DEF Contents, Whole

LEMMA HeadAndTail ==
    ASSUME NEW c \in Contents, c # <<>>
    PROVE  <<Head(c)>> \o Tail(c) = c
<1>1. Head(c) \in Nat /\ Tail(c) \in Seq(Nat) /\ Len(Tail(c)) = Len(c) - 1
      /\ \A i \in 1 .. Len(Tail(c)) : Tail(c)[i] = c[i + 1]
    BY HeadTailProperties DEF Contents
<1>2. <<Head(c)>> \in Seq(Nat) /\ Len(<<Head(c)>>) = 1 /\ <<Head(c)>>[1] = c[1]
    BY <1>1 DEF Contents
<1> DEFINE d == <<Head(c)>> \o Tail(c)
<1>3. d \in Seq(Nat) /\ Len(d) = 1 + (Len(c) - 1)
      /\ \A i \in 1 .. 1 + (Len(c) - 1) :
            d[i] = IF i <= 1 THEN <<Head(c)>>[i] ELSE Tail(c)[i - 1]
    BY <1>1, <1>2, ConcatProperties DEF Contents
<1>4. Len(c) \in Nat /\ Len(c) # 0
    BY EmptySeq, LenProperties DEF Contents
<1>5. Len(d) = Len(c)
    BY <1>3, <1>4
<1>6. ASSUME NEW i \in 1 .. Len(d) PROVE d[i] = c[i]
    <2>1. CASE i = 1
        BY <2>1, <1>2, <1>3, <1>4
    <2>2. CASE i # 1
        <3>1. i - 1 \in 1 .. Len(Tail(c)) /\ (i - 1) + 1 = i
            BY <2>2, <1>1, <1>4, <1>5
        <3> QED BY <3>1, <2>2, <1>1, <1>3, <1>4
    <2> QED BY <2>1, <2>2
<1> HIDE DEF d
<1>7. d = c
    BY <1>3, <1>5, <1>6, SeqEqual DEF Contents
<1> QED BY <1>7 DEF d

LEMMA MoveHead ==
    ASSUME NEW a \in Contents, NEW b \in Contents, NEW c \in Contents, c # <<>>
    PROVE  /\ Append(b, Head(c)) \in Contents /\ Tail(c) \in Contents
           /\ Whole(a, Append(b, Head(c)), Tail(c)) = Whole(a, b, c)
<1>1. Head(c) \in Nat /\ Tail(c) \in Contents
    BY HeadTailProperties DEF Contents
<1>2. PICK h \in Contents, r \in Contents : h = <<Head(c)>> /\ r = Tail(c)
    <2>1. <<Head(c)>> \in Contents
        BY <1>1 DEF Contents
    <2> QED BY <1>1, <2>1, Zenon
<1>3. Append(b, Head(c)) = b \o h /\ Append(b, Head(c)) \in Contents
    BY <1>1, <1>2, AppendIsConcat, AppendProperties DEF Contents
<1>4. h \o r = c
    BY <1>2, HeadAndTail
<1>5. Whole(a, b \o h, r) = Whole(a, b, c)
    <2>1. Whole(a, b \o h, r) = Whole(a, b, h \o r)
        BY Regroup
    <2> QED BY <2>1, <1>4, Zenon
<1> QED BY <1>1, <1>2, <1>3, <1>5, Zenon

LEMMA MoveBuffer ==
    ASSUME NEW a \in Contents, NEW b \in Contents
    PROVE  a \o b \in Contents /\ (a \o b) \o <<>> = a \o b
BY ConcatProperties, ConcatEmptySeq DEF Contents

LEMMA EmptyContents == <<>> \in Contents /\ <<>> \o <<>> = <<>>
BY EmptySeq, ConcatEmptySeq DEF Contents

-----------------------------------------------------------------------------
(* Names and owners                                                        *)

LEMMA InitOwned == Init => AInv
<1> SUFFICES ASSUME Init PROVE AInv
    OBVIOUS
<1>1. Ownership
    BY AtomicFileAssumption DEF Init, Ownership, Scalars, Names, StreamOfObject, LiveWhileOpen,
       TempOwned, DescriptorsOwned, IsTemp, Template, Empty, None
<1>2. Chunks
    BY EmptyContents DEF Init, Chunks
<1>3. Unmade /\ Written /\ Held
    BY AtomicFileAssumption DEF Init, Unmade, Blank, Written, Held, IsTemp, Files, None
<1> QED BY <1>1, <1>2, <1>3 DEF AInv, Followed

USE DEF IsTemp, Template, Empty, None

LEMMA StepOwned == ASSUME AInv, Next PROVE Ownership'
<1> USE AtomicFileAssumption DEF AInv, Ownership
<1>1. ASSUME StartWriteNoStream, binding' = binding PROVE Ownership'
    <2> USE <1>1 DEF StartWriteNoStream, Mkstemp
    <2>1. Scalars'
        BY DEF Scalars
    <2>2. Names'
        BY DEF Scalars, Names, StreamOfObject
    <2>3. StreamOfObject' /\ LiveWhileOpen'
        BY DEF Scalars, Names, StreamOfObject, LiveWhileOpen
    <2>4. TempOwned' /\ DescriptorsOwned'
        BY DEF Scalars, Names, TempOwned, DescriptorsOwned
    <2> QED BY <2>1, <2>2, <2>3, <2>4
<1>2. ASSUME NapiStartWrite, binding' = binding PROVE Ownership'
    <2> USE <1>2 DEF NapiStartWrite, Mkstemp
    <2>1. Scalars'
        BY DEF Scalars
    <2>2. Names'
        BY DEF Scalars, Names, StreamOfObject
    <2>3. StreamOfObject' /\ LiveWhileOpen'
        BY DEF Scalars, Names, StreamOfObject, LiveWhileOpen
    <2>4. TempOwned' /\ DescriptorsOwned'
        BY DEF Scalars, Names, TempOwned, DescriptorsOwned
    <2> QED BY <2>1, <2>2, <2>3, <2>4
<1>3. ASSUME CoreStartWrite, binding' = binding PROVE Ownership'
    <2> USE <1>3 DEF CoreStartWrite, Mkstemp
    <2>1. Scalars'
        BY DEF Scalars
    <2>2. Names'
        BY DEF Scalars, Names, StreamOfObject
    <2>3. StreamOfObject' /\ LiveWhileOpen'
        BY DEF Scalars, Names, StreamOfObject, LiveWhileOpen
    <2>4. TempOwned' /\ DescriptorsOwned'
        BY DEF Scalars, Names, TempOwned, DescriptorsOwned
    <2> QED BY <2>1, <2>2, <2>3, <2>4
<1>4. ASSUME DoWrite, binding' = binding PROVE Ownership'
    <2> USE <1>4 DEF DoWrite, disk, object
    <2>1. Scalars'
        BY DEF Scalars
    <2>2. Names'
        BY DEF Scalars, Names, StreamOfObject
    <2>3. StreamOfObject' /\ LiveWhileOpen'
        BY DEF Scalars, Names, StreamOfObject, LiveWhileOpen
    <2>4. TempOwned' /\ DescriptorsOwned'
        BY DEF Scalars, Names, TempOwned, DescriptorsOwned
    <2> QED BY <2>1, <2>2, <2>3, <2>4
<1>5. ASSUME NEW f \in Files, WriteExec(f), binding' = binding PROVE Ownership'
    <2> USE <1>5 DEF WriteExec, disk, object, bounds
    <2>1. Scalars'
        BY DEF Scalars
    <2>2. Names'
        BY DEF Scalars, Names, StreamOfObject
    <2>3. StreamOfObject' /\ LiveWhileOpen'
        BY DEF Scalars, Names, StreamOfObject, LiveWhileOpen
    <2>4. TempOwned' /\ DescriptorsOwned'
        BY DEF Scalars, Names, TempOwned, DescriptorsOwned
    <2> QED BY <2>1, <2>2, <2>3, <2>4
<1>6. ASSUME NEW f \in Files, Flush(f), binding' = binding PROVE Ownership'
    <2> USE <1>6 DEF Flush, object, bounds
    <2>1. Scalars'
        BY DEF Scalars
    <2>2. Names'
        BY DEF Scalars, Names, StreamOfObject
    <2>3. StreamOfObject' /\ LiveWhileOpen'
        BY DEF Scalars, Names, StreamOfObject, LiveWhileOpen
    <2>4. TempOwned' /\ DescriptorsOwned'
        BY DEF Scalars, Names, TempOwned, DescriptorsOwned
    <2> QED BY <2>1, <2>2, <2>3, <2>4
<1>7. ASSUME NapiFinishWrite, binding' = binding PROVE Ownership'
    <2> USE <1>7 DEF NapiFinishWrite, CloseSync, RenameDone, RenameFailed, bounds
    <2>1. Scalars'
        BY DEF Scalars
    <2>2. Names'
        <3>1. stream' = None /\ made' = made
            OBVIOUS
        <3>2. CASE RenameFailed
            BY <3>1, <3>2, Zenon DEF Names
        <3>3. CASE RenameDone
            <4>1. newName \in temps /\ temps' = temps \ {newName} /\ base' = newName /\ newName' = Template
                BY <3>3
            <4> QED BY <3>1, <4>1 DEF Scalars, Names
        <3> QED BY <3>2, <3>3
    <2>3. StreamOfObject' /\ LiveWhileOpen'
        BY DEF Scalars, Names, StreamOfObject, LiveWhileOpen
    <2>4. TempOwned' /\ DescriptorsOwned'
        BY DEF Scalars, Names, TempOwned, DescriptorsOwned
    <2> QED BY <2>1, <2>2, <2>3, <2>4
<1>8. ASSUME NapiFinishWriteAgain, binding' = binding PROVE Ownership'
    <2> USE <1>8 DEF NapiFinishWriteAgain, RenameDone, bounds
    <2>1. Scalars'
        BY DEF Scalars
    <2>2. Names'
        <3>1. stream = None /\ stream' = None /\ made' = made
            BY DEF Scalars, Names, LiveWhileOpen
        <3>2. CASE UNCHANGED <<base, temps, newName>>
            BY <3>1, <3>2, Zenon DEF Names
        <3>3. CASE RenameDone
            <4>1. newName \in temps /\ temps' = temps \ {newName} /\ base' = newName /\ newName' = Template
                BY <3>3
            <4> QED BY <3>1, <4>1 DEF Scalars, Names
        <3> QED BY <3>2, <3>3
    <2>3. StreamOfObject' /\ LiveWhileOpen'
        BY DEF Scalars, Names, StreamOfObject, LiveWhileOpen
    <2>4. TempOwned' /\ DescriptorsOwned'
        BY DEF Scalars, Names, TempOwned, DescriptorsOwned
    <2> QED BY <2>1, <2>2, <2>3, <2>4
<1>9. ASSUME CoreFinishWrite, binding' = binding PROVE Ownership'
    <2> USE <1>9 DEF CoreFinishWrite, CloseSync, RenameDone, RenameFailed, bounds
    <2>1. Scalars'
        BY DEF Scalars
    <2>2. Names'
        <3>1. stream' = None /\ made' = made
            OBVIOUS
        <3>2. CASE RenameFailed
            BY <3>1, <3>2, Zenon DEF Names
        <3>3. CASE RenameDone
            <4>1. newName \in temps /\ temps' = temps \ {newName} /\ base' = newName /\ newName' = Template
                BY <3>3
            <4> QED BY <3>1, <4>1 DEF Scalars, Names
        <3> QED BY <3>2, <3>3
    <2>3. StreamOfObject' /\ LiveWhileOpen'
        BY DEF Scalars, Names, StreamOfObject, LiveWhileOpen
    <2>4. TempOwned' /\ DescriptorsOwned'
        BY DEF Scalars, Names, TempOwned, DescriptorsOwned
    <2> QED BY <2>1, <2>2, <2>3, <2>4
<1>10. ASSUME NapiFailWrite, binding' = binding PROVE Ownership'
    <2> USE <1>10 DEF NapiFailWrite, CloseSync, RemoveTemp, RemoveTempFailed, bounds
    <2>1. Scalars'
        BY DEF Scalars
    <2>2. Names'
        BY DEF Scalars, Names, StreamOfObject
    <2>3. StreamOfObject' /\ LiveWhileOpen'
        BY DEF Scalars, Names, StreamOfObject, LiveWhileOpen
    <2>4. TempOwned' /\ DescriptorsOwned'
        BY DEF Scalars, Names, TempOwned, DescriptorsOwned
    <2> QED BY <2>1, <2>2, <2>3, <2>4
<1>11. ASSUME CoreFailWrite, binding' = binding PROVE Ownership'
    <2> USE <1>11 DEF CoreFailWrite, CloseSync, RemoveTemp, RemoveTempFailed, bounds
    <2>1. Scalars'
        BY DEF Scalars
    <2>2. Names'
        BY DEF Scalars, Names, StreamOfObject
    <2>3. StreamOfObject' /\ LiveWhileOpen'
        BY DEF Scalars, Names, StreamOfObject, LiveWhileOpen
    <2>4. TempOwned' /\ DescriptorsOwned'
        BY DEF Scalars, Names, TempOwned, DescriptorsOwned
    <2> QED BY <2>1, <2>2, <2>3, <2>4
<1>12. ASSUME NapiDelete, binding' = binding PROVE Ownership'
    <2> USE <1>12 DEF NapiDelete, Removals, Cleared, bounds
    <2>1. Scalars'
        BY DEF Scalars
    <2>2. Names'
        BY DEF Scalars, Names, StreamOfObject
    <2>3. StreamOfObject' /\ LiveWhileOpen'
        BY DEF Scalars, Names, StreamOfObject, LiveWhileOpen
    <2>4. TempOwned' /\ DescriptorsOwned'
        BY DEF Scalars, Names, TempOwned, DescriptorsOwned
    <2> QED BY <2>1, <2>2, <2>3, <2>4
<1>13. ASSUME CoreDelete, binding' = binding PROVE Ownership'
    <2> USE <1>13 DEF CoreDelete
    <2>1. Scalars'
        BY DEF Scalars, bounds
    <2>2. PICK t, b \in BOOLEAN :
            /\ Removals(t, b)
            /\ IF Failed(t, b) THEN UNCHANGED <<newName, hasBase>> ELSE Cleared
        BY Zenon
    <2>3. /\ UNCHANGED <<stream, orphans, unowned, made, ref>>
          /\ temps' \subseteq temps /\ base' \in {base, None}
          /\ newName' = newName \/ newName' = Empty
        BY <2>2 DEF Removals, Cleared, bounds
    <2>4. Names'
        BY <2>3 DEF Scalars, Names
    <2>5. StreamOfObject' /\ LiveWhileOpen'
        BY <2>3 DEF StreamOfObject, LiveWhileOpen
    <2>6. newName' # newName => newName \notin temps'
        <3> SUFFICES ASSUME newName' # newName, newName \in temps' PROVE FALSE
            OBVIOUS
        <3>1. newName \in temps /\ ~Failed(t, b)
            BY <2>2, <2>3, Zenon
        <3>2. IsTemp(newName)
            BY <3>1 DEF Names, Scalars
        <3>3. t
            BY <3>1, <3>2, Zenon DEF Failed
        <3> QED BY <2>2, <3>3 DEF Removals
    <2>7. TempOwned' /\ DescriptorsOwned'
        BY <2>3, <2>6 DEF TempOwned, DescriptorsOwned
    <2> QED BY <2>1, <2>4, <2>5, <2>7
<1>14. ASSUME Crash, binding' = binding PROVE Ownership'
    <2> USE <1>14 DEF Crash, disk
    <2>1. Scalars'
        BY DEF Scalars
    <2>2. Names'
        BY DEF Scalars, Names, StreamOfObject
    <2>3. StreamOfObject' /\ LiveWhileOpen'
        BY DEF Scalars, Names, StreamOfObject, LiveWhileOpen
    <2>4. TempOwned' /\ DescriptorsOwned'
        BY DEF Scalars, Names, TempOwned, DescriptorsOwned
    <2> QED BY <2>1, <2>2, <2>3, <2>4
<1>15. CASE StartWriteFails
    BY <1>15 DEF StartWriteFails, vars, disk, object, bounds, Next, Scalars, Names, StreamOfObject,
       LiveWhileOpen, TempOwned, DescriptorsOwned
<1> QED BY <1>1, <1>2, <1>3, <1>4, <1>5, <1>6, <1>7, <1>8, <1>9, <1>10, <1>11, <1>12, <1>13, <1>14, <1>15 DEF Next, Step

-----------------------------------------------------------------------------
(* Where the chunks are                                                    *)

\* A flush of the FILE of f leaves the other files alone and empties its buffer:
\* into the inode, or the inode is torn.
LEMMA FlushedEffect ==
    ASSUME AInv, NEW f \in Files, Flushed(f)
    PROVE  /\ data' \in [Files -> Contents] /\ buffer' \in [Files -> Contents] /\ torn \subseteq torn'
           /\ \A g \in Files : g # f => data'[g] = data[g] /\ buffer'[g] = buffer[g]
           /\ buffer'[f] = <<>>
           /\ \A g \in Files : g \notin torn' => data'[g] \o buffer'[g] = data[g] \o buffer[g]
           /\ \A g \in Files : buffer[g] = <<>> => buffer'[g] = <<>> /\ data'[g] = data[g]
<1>1. Chunks
    BY DEF AInv, Followed
<1>2. data[f] \in Contents /\ buffer[f] \in Contents
    BY <1>1 DEF Chunks
<1>3. data[f] \o buffer[f] \in Contents /\ (data[f] \o buffer[f]) \o <<>> = data[f] \o buffer[f]
    BY <1>2, MoveBuffer
<1>4. buffer' = [buffer EXCEPT ![f] = <<>>]
    BY DEF Flushed
<1>5. buffer' \in [Files -> Contents] /\ buffer'[f] = <<>> /\ \A g \in Files : g # f => buffer'[g] = buffer[g]
    BY <1>1, <1>4, EmptyContents DEF Chunks
<1>6. CASE data' = [data EXCEPT ![f] = data[f] \o buffer[f]] /\ torn' = torn
    <2>1. data' \in [Files -> Contents] /\ data'[f] = data[f] \o buffer[f]
          /\ \A g \in Files : g # f => data'[g] = data[g]
        BY <1>1, <1>3, <1>6 DEF Chunks
    <2>2. \A g \in Files : data'[g] \o buffer'[g] = data[g] \o buffer[g]
        BY <1>3, <1>5, <2>1, Zenon
    <2>3. buffer[f] = <<>> => data'[f] = data[f]
        BY <1>2, <2>1, ConcatEmptySeq DEF Contents
    <2> QED BY <1>5, <1>6, <2>1, <2>2, <2>3, Zenon
<1>7. CASE buffer[f] # <<>> /\ data' = data /\ torn' = torn \cup {f}
    <2>1. data \in [Files -> Contents] /\ torn \subseteq torn' /\ f \in torn'
        BY <1>1, <1>7 DEF Chunks
    <2> QED BY <1>5, <1>7, <2>1, Zenon
<1> QED BY <1>6, <1>7 DEF Flushed, Loses

\* So does a close, which writes what is buffered if no worker holds the FILE.
LEMMA CloseEffect ==
    ASSUME AInv, CloseSync
    PROVE  /\ data' \in [Files -> Contents] /\ buffer' \in [Files -> Contents] /\ torn \subseteq torn'
           /\ \A g \in Files : g \notin torn' => data'[g] \o buffer'[g] = data[g] \o buffer[g]
           /\ \A g \in Files : g = stream /\ inflight[g] = <<>> => buffer'[g] = <<>>
           /\ \A g \in Files : buffer[g] = <<>> => buffer'[g] = <<>> /\ data'[g] = data[g]
<1>0. Chunks /\ (stream # None => stream \in Files)
    BY AtomicFileAssumption DEF AInv, Followed, Ownership, Names, Scalars, Files
<1>1. CASE stream # None /\ inflight[stream] = <<>> /\ Flushed(stream)
    <2>0. stream \in Files
        BY <1>0, <1>1
    <2> QED BY <2>0, <1>1, FlushedEffect, Zenon
<1>2. CASE ~(stream # None /\ inflight[stream] = <<>>) /\ UNCHANGED <<data, buffer, torn>>
    <2>1. \A g \in Files : ~(g = stream /\ inflight[g] = <<>>)
        BY <1>2, AtomicFileAssumption DEF Files
    <2>2. data' = data /\ buffer' = buffer /\ torn \subseteq torn'
        BY <1>2
    <2> QED BY <2>1, <2>2, <1>0, Zenon DEF Chunks
<1> QED BY <1>1, <1>2 DEF CloseSync

\* A file that was just made takes the name; no other file changes.
LEMMA MadeFollowed ==
    ASSUME AInv, NEW closes, Mkstemp(closes), UNCHANGED <<base, data, inflight, buffer, committed, late, torn>>
    PROVE  Followed'
<1> USE AtomicFileAssumption
<1>1. Scalars /\ Names /\ Followed
    BY DEF AInv, Ownership
<1>2. made + 1 \in Files /\ made + 1 > made /\ made' = made + 1 /\ newName' = made + 1 /\ given' = <<>>
    BY <1>1 DEF Mkstemp, Scalars, Files
<1>3. Blank(made + 1)
    BY <1>1, <1>2 DEF Followed, Unmade
<1>4. Chunks'
    BY <1>1, <1>2, EmptyContents DEF Followed, Chunks
<1>5. Unmade'
    <2> SUFFICES ASSUME NEW f \in Files, f > made' PROVE Blank(f)'
        BY DEF Unmade
    <2>1. Blank(f)
        BY <1>1, <1>2 DEF Followed, Unmade, Scalars, Files
    <2> QED BY <2>1 DEF Blank
<1>6. Written'
    BY <1>2, <1>3, EmptyContents DEF Written, Blank, Whole
<1>7. Held'
    BY <1>1 DEF Followed, Held
<1> QED BY <1>4, <1>5, <1>6, <1>7 DEF Followed

LEMMA DoWriteFollowed ==
    ASSUME AInv, DoWrite PROVE Followed'
<1> USE AtomicFileAssumption
<1>1. Scalars /\ Names /\ StreamOfObject /\ Chunks /\ Unmade /\ Written /\ Held
    BY DEF AInv, Ownership, Followed
<1>2. /\ stream \in Files /\ stream <= made /\ stream # base /\ chunks + 1 \in Nat
      /\ (stream = newName \/ newName = Empty)
    BY <1>1 DEF DoWrite, Scalars, Names, StreamOfObject, Files
<1>3. /\ inflight' = [inflight EXCEPT ![stream] = Append(inflight[stream], chunks + 1)]
      /\ given' = Append(given, chunks + 1)
      /\ UNCHANGED <<base, data, newName, buffer, committed, late, torn, made>>
    BY DEF DoWrite, disk, object
<1>4. inflight[stream] \in Contents /\ given \in Contents
    BY <1>1, <1>2 DEF Chunks
<1>5. Append(inflight[stream], chunks + 1) \in Contents /\ Append(given, chunks + 1) \in Contents
    BY <1>2, <1>4, AppendProperties DEF Contents
<1>6. Chunks'
    BY <1>1, <1>3, <1>5 DEF Chunks
<1>7. /\ \A f \in Files : f # stream => inflight'[f] = inflight[f]
      /\ inflight'[stream] = Append(inflight[stream], chunks + 1)
    BY <1>1, <1>2, <1>3 DEF Chunks
<1>8. Unmade'
    <2> SUFFICES ASSUME NEW f \in Files, f > made' PROVE Blank(f)'
        BY DEF Unmade
    <2>1. f # stream /\ Blank(f)
        BY <1>1, <1>2, <1>3 DEF Unmade, Files, Scalars
    <2> QED BY <2>1, <1>3, <1>7 DEF Blank
<1>9. Written'
    <2> SUFFICES ASSUME IsTemp(newName), newName \notin torn PROVE
            Whole(data[newName], buffer[newName], inflight'[newName]) = given'
        BY <1>3 DEF Written
    <2>1. stream = newName
        BY <1>2
    <2>2. Whole(data[newName], buffer[newName], inflight[newName]) = given
        BY <1>1 DEF Written
    <2>3. data[newName] \in Contents /\ buffer[newName] \in Contents /\ inflight[newName] \in Contents
          /\ chunks + 1 \in Nat
        BY <2>1, <1>1, <1>2 DEF Chunks
    <2>4. Whole(data[newName], buffer[newName], Append(inflight[newName], chunks + 1))
            = Append(Whole(data[newName], buffer[newName], inflight[newName]), chunks + 1)
        BY <2>3, AppendGiven, ZenonT(40)
    <2> QED BY <2>1, <2>2, <2>4, <1>3, <1>7, Zenon
<1>10. Held'
    <2>1. ~late /\ base # None => base \in Files
        BY <1>1 DEF Names, Scalars, Files
    <2> QED BY <2>1, <1>1, <1>2, <1>3, <1>7 DEF Held
<1> QED BY <1>6, <1>8, <1>9, <1>10 DEF Followed

LEMMA WriteExecFollowed ==
    ASSUME AInv, NEW f \in Files, WriteExec(f) PROVE Followed'
<1> USE AtomicFileAssumption
<1>1. Scalars /\ Names /\ Chunks /\ Unmade /\ Written /\ Held
    BY DEF AInv, Ownership, Followed
<1>2. /\ inflight[f] # <<>> /\ inflight' = [inflight EXCEPT ![f] = Tail(inflight[f])]
      /\ \/ /\ buffer' = [buffer EXCEPT ![f] = Append(buffer[f], Head(inflight[f]))]
            /\ torn' = torn
         \/ /\ buffer' \in {buffer, [buffer EXCEPT ![f] = Append(buffer[f], 0)]}
            /\ torn' = torn \cup {f}
      /\ UNCHANGED <<base, data, newName, given, committed, late, made>>
    BY DEF WriteExec, Loses, disk, object, bounds
<1>3. data[f] \in Contents /\ inflight[f] \in Contents /\ buffer[f] \in Contents
      /\ inflight[f] # <<>>
    BY <1>1, <1>2 DEF Chunks
<1>4. /\ Append(buffer[f], Head(inflight[f])) \in Contents /\ Tail(inflight[f]) \in Contents
      /\ Whole(data[f], Append(buffer[f], Head(inflight[f])), Tail(inflight[f]))
            = Whole(data[f], buffer[f], inflight[f])
    BY <1>3, MoveHead, ZenonT(40)
<1>5. Append(buffer[f], 0) \in Contents
    BY <1>3, AppendProperties DEF Contents
<1>6. /\ buffer' \in [Files -> Contents] /\ inflight' \in [Files -> Contents] /\ torn \subseteq torn'
      /\ \A g \in Files : g # f => inflight'[g] = inflight[g] /\ buffer'[g] = buffer[g]
      /\ inflight'[f] = Tail(inflight[f])
      /\ f \notin torn' => buffer'[f] = Append(buffer[f], Head(inflight[f]))
    <2>1. /\ inflight' \in [Files -> Contents] /\ inflight'[f] = Tail(inflight[f])
          /\ \A g \in Files : g # f => inflight'[g] = inflight[g]
        BY <1>1, <1>2, <1>4 DEF Chunks
    <2>2. CASE buffer' = [buffer EXCEPT ![f] = Append(buffer[f], Head(inflight[f]))] /\ torn' = torn
        BY <1>1, <1>4, <2>1, <2>2 DEF Chunks
    <2>3. CASE buffer' = [buffer EXCEPT ![f] = Append(buffer[f], 0)] /\ torn' = torn \cup {f}
        BY <1>1, <1>5, <2>1, <2>3 DEF Chunks
    <2>4. CASE buffer' = buffer /\ torn' = torn \cup {f}
        BY <1>1, <2>1, <2>4 DEF Chunks
    <2> QED BY <1>2, <2>2, <2>3, <2>4
<1>7. Chunks'
    BY <1>1, <1>2, <1>6 DEF Chunks
<1>8. Unmade'
    <2> SUFFICES ASSUME NEW g \in Files, g > made' PROVE Blank(g)'
        BY DEF Unmade
    <2>1. Blank(g) /\ g # f
        BY <1>1, <1>2 DEF Unmade, Blank
    <2> QED BY <2>1, <1>2, <1>6 DEF Blank
<1>9. Written'
    <2> SUFFICES ASSUME IsTemp(newName), newName \notin torn' PROVE
            Whole(data[newName], buffer'[newName], inflight'[newName]) = given
        BY <1>2 DEF Written
    <2>0. newName \notin torn
        BY <1>6
    <2>1. Whole(data[newName], buffer[newName], inflight[newName]) = given
        BY <1>1, <2>0, Zenon DEF Written
    <2>2. newName \in Files
        BY <1>1 DEF Names, Scalars, Files
    <2> QED BY <2>1, <2>2, <1>4, <1>6, Zenon
<1>10. Held'
    <2>1. ~late /\ base # None /\ base \notin torn => base \in Files /\ base # f
        BY <1>1, <1>2 DEF Names, Scalars, Files, Held
    <2> QED BY <2>1, <1>1, <1>2, <1>6 DEF Held
<1> QED BY <1>7, <1>8, <1>9, <1>10 DEF Followed

\* data and buffer change as a flush or a close changes them, nothing else does.
LEMMA DrainFollowed ==
    ASSUME AInv, UNCHANGED <<base, newName, inflight, given, committed, late, made>>,
           data' \in [Files -> Contents], buffer' \in [Files -> Contents],
           torn \subseteq torn', \A g \in Files : g \notin torn' => data'[g] \o buffer'[g] = data[g] \o buffer[g],
           \A g \in Files : buffer[g] = <<>> => buffer'[g] = <<>> /\ data'[g] = data[g]
    PROVE  Followed'
<1> USE AtomicFileAssumption
<1>1. Scalars /\ Names /\ Chunks /\ Unmade /\ Written /\ Held
    BY DEF AInv, Ownership, Followed
<1>2. Chunks'
    BY <1>1 DEF Chunks
<1>3. Unmade'
    <2> SUFFICES ASSUME NEW g \in Files, g > made' PROVE Blank(g)'
        BY DEF Unmade
    <2>1. Blank(g)
        BY <1>1 DEF Unmade
    <2> QED BY <2>1 DEF Blank
<1>4. Written'
    <2> SUFFICES ASSUME IsTemp(newName), newName \notin torn' PROVE
            Whole(data'[newName], buffer'[newName], inflight[newName]) = given
        BY DEF Written
    <2>0. newName \notin torn
        OBVIOUS
    <2>1. Whole(data[newName], buffer[newName], inflight[newName]) = given
        BY <1>1, <2>0, Zenon DEF Written
    <2>2. newName \in Files
        BY <1>1 DEF Names, Scalars, Files
    <2> QED BY <2>1, <2>2, Zenon DEF Whole
<1>5. Held'
    <2>1. ~late /\ base # None => base \in Files
        BY <1>1 DEF Names, Scalars, Files
    <2> QED BY <2>1, <1>1 DEF Held
<1> QED BY <1>2, <1>3, <1>4, <1>5 DEF Followed

LEMMA FlushFollowed ==
    ASSUME AInv, NEW f \in Files, Flush(f) PROVE Followed'
<1>1. /\ UNCHANGED <<base, newName, inflight, given, committed, late, made>>
      /\ buffer[f] # <<>> /\ Flushed(f)
    BY DEF Flush, object, bounds
<1>2. /\ data' \in [Files -> Contents] /\ buffer' \in [Files -> Contents]
      /\ torn \subseteq torn'
      /\ \A g \in Files : g \notin torn' => data'[g] \o buffer'[g] = data[g] \o buffer[g]
      /\ \A g \in Files : buffer[g] = <<>> => buffer'[g] = <<>> /\ data'[g] = data[g]
    BY <1>1, FlushedEffect
<1> QED BY <1>1, <1>2, DrainFollowed

\* The name is given up: what was written under it is nobody's.
LEMMA LetGoFollowed ==
    ASSUME AInv, UNCHANGED <<base, inflight, given, committed, late, made>>, ~IsTemp(newName'),
           data' \in [Files -> Contents], buffer' \in [Files -> Contents], torn \subseteq torn',
           \A g \in Files : buffer[g] = <<>> => buffer'[g] = <<>> /\ data'[g] = data[g]
    PROVE  Followed'
<1> USE AtomicFileAssumption
<1>1. Scalars /\ Names /\ Chunks /\ Unmade /\ Held
    BY DEF AInv, Ownership, Followed
<1>2. Chunks'
    BY <1>1 DEF Chunks
<1>3. Unmade'
    <2> SUFFICES ASSUME NEW g \in Files, g > made' PROVE Blank(g)'
        BY DEF Unmade
    <2>1. Blank(g)
        BY <1>1 DEF Unmade
    <2> QED BY <2>1 DEF Blank
<1>4. Written'
    BY DEF Written
<1>5. Held'
    <2>1. ~late /\ base # None => base \in Files
        BY <1>1 DEF Names, Scalars, Files
    <2> QED BY <2>1, <1>1 DEF Held
<1> QED BY <1>2, <1>3, <1>4, <1>5 DEF Followed

\* The rename commits what was given, unless a worker still holds a part of it.
LEMMA RenameFollowed ==
    ASSUME AInv, RenameDone, UNCHANGED <<inflight, given, made>>,
           data' \in [Files -> Contents], buffer' \in [Files -> Contents],
           torn \subseteq torn', \A g \in Files : g \notin torn' => data'[g] \o buffer'[g] = data[g] \o buffer[g],
           \A g \in Files : buffer[g] = <<>> => buffer'[g] = <<>> /\ data'[g] = data[g],
           \A g \in Files : g = stream /\ inflight[g] = <<>> => buffer'[g] = <<>>
    PROVE  Followed'
<1> USE AtomicFileAssumption
<1>1. Scalars /\ Names /\ StreamOfObject /\ Chunks /\ Unmade /\ Written
    BY DEF AInv, Ownership, Followed
<1>2. /\ newName \in temps /\ base' = newName /\ newName' = Template
      /\ late' = UnderWay(newName)
      /\ committed' = IF UnderWay(newName) THEN committed ELSE given
    BY DEF RenameDone
<1>3. newName \in Files /\ newName # None /\ IsTemp(newName)
    BY <1>1, <1>2 DEF Names, Scalars, Files
<1>4. Chunks'
    BY <1>1, <1>2 DEF Chunks
<1>5. Unmade'
    <2> SUFFICES ASSUME NEW g \in Files, g > made' PROVE Blank(g)'
        BY DEF Unmade
    <2>1. Blank(g)
        BY <1>1 DEF Unmade
    <2> QED BY <2>1 DEF Blank
<1>6. Written'
    BY <1>2 DEF Written
<1>7. Held'
    <2> SUFFICES ASSUME ~UnderWay(newName), newName \notin torn'
                 PROVE  data'[newName] = given /\ buffer'[newName] = <<>> /\ inflight[newName] = <<>>
        BY <1>2, <1>3, Zenon DEF Held
    <2>1. inflight[newName] = <<>> /\ (stream = newName \/ buffer[newName] = <<>>)
        BY Zenon DEF UnderWay
    <2>2. buffer'[newName] = <<>>
        BY <2>1, <1>3, Zenon
    <2>0. newName \notin torn
        OBVIOUS
    <2>3. Whole(data[newName], buffer[newName], <<>>) = given
        BY <2>0, <2>1, <1>1, <1>3, Zenon DEF Written
    <2>4. data[newName] \o buffer[newName] = data'[newName] \o <<>>
        BY <2>2, <1>3, Zenon
    <2>5. data'[newName] \in Contents
        BY <1>3
    <2>6. data'[newName] \o <<>> = data'[newName]
        BY <2>5, ConcatEmptySeq DEF Contents
    <2>7. Whole(data[newName], buffer[newName], <<>>) = data'[newName]
        BY <2>4, <2>6, Zenon DEF Whole
    <2> QED BY <2>1, <2>2, <2>3, <2>7, Zenon
<1> QED BY <1>4, <1>5, <1>6, <1>7 DEF Followed

\* FinishWrite and FailWrite close the stream, then rename or remove.
LEMMA FinishFollowed ==
    ASSUME AInv, CloseSync, RenameDone \/ RenameFailed, UNCHANGED <<inflight, given, made>>
    PROVE  Followed'
<1>1. /\ data' \in [Files -> Contents] /\ buffer' \in [Files -> Contents]
      /\ torn \subseteq torn'
      /\ \A g \in Files : g \notin torn' => data'[g] \o buffer'[g] = data[g] \o buffer[g]
      /\ \A g \in Files : g = stream /\ inflight[g] = <<>> => buffer'[g] = <<>>
      /\ \A g \in Files : buffer[g] = <<>> => buffer'[g] = <<>> /\ data'[g] = data[g]
    BY CloseEffect
<1>2. CASE RenameDone
    BY <1>1, <1>2, RenameFollowed
<1>3. CASE RenameFailed
    <2>1. UNCHANGED <<base, newName, inflight, given, committed, late, made>>
        BY <1>3 DEF RenameFailed
    <2> QED BY <1>1, <2>1, DrainFollowed
<1> QED BY <1>2, <1>3

LEMMA FailFollowed ==
    ASSUME AInv, CloseSync, RemoveTemp \/ RemoveTempFailed,
           UNCHANGED <<base, inflight, given, committed, late, made>>
    PROVE  Followed'
<1>1. /\ data' \in [Files -> Contents] /\ buffer' \in [Files -> Contents]
      /\ torn \subseteq torn'
      /\ \A g \in Files : g \notin torn' => data'[g] \o buffer'[g] = data[g] \o buffer[g]
      /\ \A g \in Files : buffer[g] = <<>> => buffer'[g] = <<>> /\ data'[g] = data[g]
    BY CloseEffect
<1>2. CASE RemoveTemp
    <2>1. ~IsTemp(newName')
        BY <1>2 DEF RemoveTemp
    <2> QED BY <1>1, <2>1, LetGoFollowed
<1>3. CASE RemoveTempFailed
    <2>1. UNCHANGED newName
        BY <1>3 DEF RemoveTempFailed
    <2> QED BY <1>1, <2>1, DrainFollowed
<1> QED BY <1>2, <1>3

\* data and buffer are as they were.
LEMMA SameFollowed ==
    ASSUME AInv, UNCHANGED <<base, newName, data, buffer, inflight, given, committed, late, torn, made>>
    PROVE  Followed'
BY DEF AInv, Followed, Chunks, Unmade, Blank, Written, Held

LEMMA DeleteFollowed ==
    ASSUME AInv, NEW t \in BOOLEAN, NEW b \in BOOLEAN, Removals(t, b), newName' \in {newName, Empty},
           UNCHANGED <<data, buffer, inflight, given, late, torn, made>>
    PROVE  Followed'
<1>1. Chunks /\ Unmade /\ Written /\ Held
    BY DEF AInv, Followed
<1>2. (base' = base /\ committed' = committed) \/ (base' = None /\ committed' = <<>>)
    <2>1. CASE b
        BY <2>1, Zenon DEF Removals
    <2>2. CASE ~b
        BY <2>2, Zenon DEF Removals
    <2> QED BY <2>1, <2>2
<1>3. Chunks'
    BY <1>1, <1>2, EmptyContents DEF Chunks
<1>4. Unmade'
    BY <1>1 DEF Unmade, Blank
<1>5. Written'
    <2>1. CASE newName' = newName
        BY <2>1, <1>1, Zenon DEF Written
    <2>2. CASE newName' = Empty
        BY <2>2 DEF Written
    <2> QED BY <2>1, <2>2
<1>6. Held'
    <2>1. CASE base' = base /\ committed' = committed
        BY <2>1, <1>1, Zenon DEF Held
    <2>2. CASE base' = None /\ committed' = <<>>
        BY <2>2, Zenon DEF Held
    <2> QED BY <2>1, <2>2, <1>2
<1> QED BY <1>3, <1>4, <1>5, <1>6 DEF Followed

\* A death loses the buffers and the workers; nothing of the base file is in them.
LEMMA CrashFollowed ==
    ASSUME AInv, Crash PROVE Followed'
<1> USE AtomicFileAssumption
<1>1. Scalars /\ Names /\ Chunks /\ Unmade /\ Held
    BY DEF AInv, Ownership, Followed
<1>2. /\ newName' = Template /\ given' = <<>>
      /\ inflight' = [f \in Files |-> <<>>] /\ buffer' = [f \in Files |-> <<>>]
      /\ UNCHANGED <<base, data, committed, late, torn, made>>
    BY DEF Crash, disk
<1>3. Chunks'
    BY <1>1, <1>2, EmptyContents DEF Chunks
<1>4. Unmade'
    BY <1>1, <1>2 DEF Unmade, Blank
<1>5. Written'
    BY <1>2 DEF Written
<1>6. Held'
    <2>1. ~late /\ base # None => base \in Files
        BY <1>1 DEF Names, Scalars, Files
    <2> QED BY <2>1, <1>1, <1>2 DEF Held
<1> QED BY <1>3, <1>4, <1>5, <1>6 DEF Followed

LEMMA StepFollowed == ASSUME AInv, Next PROVE Followed'
<1>1. CASE StartWriteFails
    BY <1>1, SameFollowed DEF StartWriteFails, vars, disk, object, bounds
<1>2. CASE StartWriteNoStream
    BY <1>2, MadeFollowed DEF StartWriteNoStream
<1>3. CASE NapiStartWrite
    BY <1>3, MadeFollowed DEF NapiStartWrite
<1>4. CASE CoreStartWrite
    BY <1>4, MadeFollowed DEF CoreStartWrite
<1>5. CASE DoWrite
    BY <1>5, DoWriteFollowed
<1>6. CASE \E f \in Files : WriteExec(f) \/ Flush(f)
    BY <1>6, WriteExecFollowed, FlushFollowed
<1>7. CASE NapiFinishWrite
    BY <1>7, FinishFollowed DEF NapiFinishWrite, bounds
<1>8. CASE NapiFinishWriteAgain
    <2>1. Chunks /\ UNCHANGED <<data, buffer, inflight, given, torn, made>>
        BY <1>8 DEF NapiFinishWriteAgain, bounds, AInv, Followed
    <2>2. CASE UNCHANGED <<base, newName, late, committed>>
        BY <2>1, <2>2, SameFollowed
    <2>3. CASE RenameDone
        <3>1. stream = None
            BY <1>8 DEF NapiFinishWriteAgain, AInv, Ownership, LiveWhileOpen
        <3>2. None \notin Files
            BY AtomicFileAssumption DEF Files
        <3>3. /\ data' \in [Files -> Contents] /\ buffer' \in [Files -> Contents]
              /\ torn \subseteq torn'
              /\ \A g \in Files : g \notin torn' => data'[g] \o buffer'[g] = data[g] \o buffer[g]
              /\ \A g \in Files : buffer[g] = <<>> => buffer'[g] = <<>> /\ data'[g] = data[g]
              /\ \A g \in Files : g = stream /\ inflight[g] = <<>> => buffer'[g] = <<>>
            BY <2>1, <3>1, <3>2, Zenon DEF Chunks
        <3> QED BY <2>1, <2>3, <3>3, RenameFollowed
    <2> QED BY <1>8, <2>2, <2>3 DEF NapiFinishWriteAgain
<1>9. CASE CoreFinishWrite
    BY <1>9, FinishFollowed DEF CoreFinishWrite, bounds
<1>10. CASE NapiFailWrite
    <2>1. UNCHANGED <<base, inflight, given, committed, late, made>>
        BY <1>10 DEF NapiFailWrite, bounds
    <2>2. CASE CloseSync /\ (RemoveTemp \/ RemoveTempFailed)
        BY <2>1, <2>2, FailFollowed
    <2>3. CASE UNCHANGED <<data, buffer, torn, newName>>
        BY <2>1, <2>3, SameFollowed
    <2> QED BY <1>10, <2>2, <2>3 DEF NapiFailWrite
<1>11. CASE CoreFailWrite
    BY <1>11, FailFollowed DEF CoreFailWrite, bounds
<1>12. CASE NapiDelete
    <2>1. UNCHANGED <<data, buffer, inflight, given, late, torn, made>> /\ newName' = Empty
        BY <1>12 DEF NapiDelete, Cleared, bounds
    <2>2. PICK t \in BOOLEAN, b \in BOOLEAN : Removals(t, b)
        BY <1>12, Zenon DEF NapiDelete
    <2> QED BY <2>1, <2>2, DeleteFollowed
<1>13. CASE CoreDelete
    <2>1. UNCHANGED <<data, buffer, inflight, given, late, torn, made>>
        BY <1>13 DEF CoreDelete, bounds
    <2>2. PICK t \in BOOLEAN, b \in BOOLEAN :
            Removals(t, b) /\ IF Failed(t, b) THEN UNCHANGED <<newName, hasBase>> ELSE Cleared
        BY <1>13, Zenon DEF CoreDelete
    <2>3. newName' \in {newName, Empty}
        BY <2>2 DEF Cleared
    <2> QED BY <2>1, <2>2, <2>3, DeleteFollowed
<1>14. CASE Crash
    BY <1>14, CrashFollowed
<1> QED BY <1>1, <1>2, <1>3, <1>4, <1>5, <1>6, <1>7, <1>8, <1>9, <1>10, <1>11, <1>12, <1>13, <1>14
        DEF Next, Step

-----------------------------------------------------------------------------
LEMMA AInvInductive == Spec => []AInv
<1>1. AInv /\ [Next]_vars => AInv'
    <2> SUFFICES ASSUME AInv, [Next]_vars PROVE AInv'
        OBVIOUS
    <2>1. CASE Next
        BY <2>1, StepOwned, StepFollowed DEF AInv
    <2>2. CASE UNCHANGED vars
        <3>1. Followed'
            BY <2>2, SameFollowed DEF vars, disk, object, bounds
        <3>2. Ownership'
            BY <2>2 DEF vars, disk, object, bounds, AInv, Ownership, Scalars, Names, StreamOfObject,
               LiveWhileOpen, TempOwned, DescriptorsOwned
        <3> QED BY <3>1, <3>2 DEF AInv
    <2> QED BY <2>1, <2>2
<1> QED BY InitOwned, <1>1, PTL DEF Spec

\* AtomicFile of atomicfile_n_exporter.cpp and fs_atomicfile.cpp: for any number of
\* writes, workers, failing renames and removals and deaths of the process, a reader
\* of the base file finds the old content or all of the new, if the stream lost none
\* of it (no error of fflush and fclose keeps the rename off), every temporary file has
\* an owner or was left by a death or a failed removal, and fs_atomicfile.cpp loses
\* no descriptor.
THEOREM AtomicFileIsSafe == Spec => []AtomicFileSafe
<1>1. AInv => AtomicFileSafe
    BY DEF AInv, Ownership, Followed, Held, AtomicFileSafe, Atomic, ReadFully
<1> QED BY AInvInductive, <1>1, PTL

----------------------------------------------------------------------------
----------------------------------------------------------------------------
(* Mappings.  The state an operation is given and the ones it leads to.    *)

MapModes == {"ro", "rw", "private", "bad"}
Ents == [valid : BOOLEAN, a : Nat, cap : Nat, adj : Nat, raw : Nat, lim : Nat, pos : Nat, mode : MapModes, off : Nat]
PlaceShape(k) ==
    k = [from |-> k.from, len |-> k.len, shared |-> k.shared, own |-> k.own] /\ k.from \in Nat /\ k.len \in Nat
MapShape(s) ==
    /\ s = [file |-> s.file, kern |-> s.kern, maps |-> s.maps, f |-> s.f, e |-> s.e, n |-> s.n, c |-> s.c, o |-> s.o]
    /\ s.file \in Seq(Nat) /\ s.maps \in Seq(Ents)
    /\ s.kern = [a \in 1 .. Places |-> s.kern[a]] /\ \A a \in 1 .. Places : PlaceShape(s.kern[a])
    /\ \A i \in 1 .. Len(s.maps) : s.maps[i].valid => s.maps[i].a \in 1 .. Places

InOrder(m) == m.pos <= m.lim /\ m.lim <= m.cap
SameMapping(m, w) ==
    /\ w.valid = m.valid /\ w.a = m.a /\ w.cap = m.cap /\ w.adj = m.adj /\ w.raw = m.raw /\ w.off = m.off
    /\ w.mode = m.mode
    /\ InOrder(m) => InOrder(w)

\* What maps and unmaps nothing: bytes change, and positions and limits move.
Touches(s, x) ==
    /\ MapShape(x) /\ Len(x.file) = Len(s.file) /\ Len(x.maps) = Len(s.maps)
    /\ \A a \in 1 .. Places :
          x.kern[a].len = s.kern[a].len /\ (s.kern[a].len > 0 => x.kern[a].from = s.kern[a].from)
    /\ \A i \in 1 .. Len(s.maps) : SameMapping(s.maps[i], x.maps[i])

\* The file may grow, and nothing else changes.
Grows(s, x) == MapShape(x) /\ Len(s.file) <= Len(x.file) /\ x.maps = s.maps /\ x.kern = s.kern

LEMMA MapLens ==
    ASSUME NEW s, MapShape(s)
    PROVE  /\ Len(s.file) \in Nat /\ DOMAIN s.file = 1 .. Len(s.file)
           /\ Len(s.maps) \in Nat /\ DOMAIN s.maps = 1 .. Len(s.maps)
           /\ \A i \in 1 .. Len(s.maps) : s.maps[i] \in Ents
BY LenProperties, ElementOfSeq DEF MapShape

LEMMA TouchesSelf == ASSUME NEW s, MapShape(s) PROVE Touches(s, s)
BY MapLens DEF Touches, SameMapping

LEMMA TouchesAgain ==
    ASSUME NEW s, NEW x, NEW y, MapShape(s), Touches(s, x), Touches(x, y) PROVE Touches(s, y)
<1>1. Len(s.file) \in Nat /\ Len(x.file) \in Nat /\ Len(y.file) \in Nat
    BY MapLens DEF Touches
<1>2. Len(y.file) = Len(s.file) /\ Len(y.maps) = Len(s.maps) /\ MapShape(y)
    BY <1>1 DEF Touches
<1>3. \A i \in 1 .. Len(s.maps) : SameMapping(s.maps[i], y.maps[i])
    BY DEF Touches, SameMapping
<1>4. \A a \in 1 .. Places : y.kern[a].len = s.kern[a].len /\ (s.kern[a].len > 0 => y.kern[a].from = s.kern[a].from)
    BY DEF Touches
<1> QED BY <1>2, <1>3, <1>4 DEF Touches

\* What changes the answer only.
LEMMA OnlyAnswers ==
    ASSUME NEW s, MapShape(s), NEW x, NEW f, NEW e, NEW n, NEW c, NEW o,
           x = [file |-> s.file, kern |-> s.kern, maps |-> s.maps, f |-> f, e |-> e, n |-> n, c |-> c, o |-> o]
    PROVE  Touches(s, x) /\ x.maps = s.maps /\ x.file = s.file /\ x.kern = s.kern /\ x.e = e /\ x.o = o /\ x.n = n
<1>1. x.maps = s.maps /\ x.file = s.file /\ x.kern = s.kern /\ x.e = e /\ x.o = o /\ x.n = n /\ x.f = f /\ x.c = c
    OBVIOUS
<1>2. x = [file |-> x.file, kern |-> x.kern, maps |-> x.maps, f |-> x.f, e |-> x.e, n |-> x.n, c |-> x.c, o |-> x.o]
    BY <1>1
<1>3. MapShape(x)
    BY <1>1, <1>2 DEF MapShape
<1>4. Len(s.file) \in Nat
    BY MapLens
<1> QED BY <1>1, <1>3, <1>4 DEF Touches, SameMapping

LEMMA PlainTouches ==
    ASSUME NEW s, MapShape(s)
    PROVE  /\ Touches(s, M!Plain(s)) /\ M!Plain(s).maps = s.maps /\ M!Plain(s).file = s.file
           /\ M!Plain(s).kern = s.kern
<1>1. M!Plain(s) = [file |-> s.file, kern |-> s.kern, maps |-> s.maps,
                    f |-> s.f, e |-> "OK", n |-> 0, c |-> << >>, o |-> 0]
    BY DEF M!Plain
<1> QED BY <1>1, OnlyAnswers

LEMMA ErrorTouches ==
    ASSUME NEW s, MapShape(s), NEW e, NEW x \in M!Error(s, e)
    PROVE  Touches(s, x) /\ x.e = e /\ x.kern = s.kern
<1>1. x = [file |-> s.file, kern |-> s.kern, maps |-> s.maps, f |-> s.f, e |-> e, n |-> s.n, c |-> s.c, o |-> s.o]
    BY DEF M!Error, MapShape
<1> QED BY <1>1, OnlyAnswers

LEMMA MayTouches ==
    ASSUME NEW s, MapShape(s), NEW e, NEW x \in M!May(s, e)
    PROVE  Touches(s, x) /\ x.e = e /\ x.kern = s.kern /\ x.maps = s.maps /\ x.o = s.o
<1>1. x = [file |-> s.file, kern |-> s.kern, maps |-> s.maps, f |-> {}, e |-> e, n |-> s.n, c |-> s.c, o |-> s.o]
    BY DEF M!May, MapShape
<1> QED BY <1>1, OnlyAnswers

LEMMA ValueTouches ==
    ASSUME NEW s, MapShape(s), NEW n, NEW x \in M!Value(s, n) PROVE Touches(s, x) /\ x.maps = s.maps /\ x.n = n
<1>1. x = [file |-> s.file, kern |-> s.kern, maps |-> s.maps, f |-> s.f, e |-> s.e, n |-> n, c |-> s.c, o |-> s.o]
    BY DEF M!Value, MapShape
<1> QED BY <1>1, OnlyAnswers

\* One entity changes.
LEMMA EntityMoves ==
    ASSUME NEW s, MapShape(s), NEW i \in 1 .. Len(s.maps), NEW w \in Ents, SameMapping(s.maps[i], w),
           NEW x, x = [s EXCEPT !.maps[i] = w]
    PROVE  Touches(s, x)
<1>1. x = [file |-> s.file, kern |-> s.kern, maps |-> [s.maps EXCEPT ![i] = w],
           f |-> s.f, e |-> s.e, n |-> s.n, c |-> s.c, o |-> s.o]
    BY DEF MapShape
<1>2. [s.maps EXCEPT ![i] = w] \in Seq(Ents) /\ Len([s.maps EXCEPT ![i] = w]) = Len(s.maps)
      /\ \A j \in 1 .. Len(s.maps) : [s.maps EXCEPT ![i] = w][j] = IF j = i THEN w ELSE s.maps[j]
    BY MapLens, ExceptSeq DEF MapShape
<1>3. x.file = s.file /\ x.kern = s.kern /\ x.maps = [s.maps EXCEPT ![i] = w] /\ MapShape(x)
    <2>1. w.valid => w.a \in 1 .. Places
        BY DEF MapShape, SameMapping
    <2>2. x.file = s.file /\ x.kern = s.kern /\ x.maps = [s.maps EXCEPT ![i] = w]
          /\ x = [file |-> x.file, kern |-> x.kern, maps |-> x.maps,
                  f |-> x.f, e |-> x.e, n |-> x.n, c |-> x.c, o |-> x.o]
        BY <1>1
    <2>3. \A j \in 1 .. Len(x.maps) : x.maps[j].valid => x.maps[j].a \in 1 .. Places
        BY <1>2, <2>1, <2>2 DEF MapShape
    <2> QED BY <1>2, <2>2, <2>3 DEF MapShape
<1>4. \A j \in 1 .. Len(s.maps) : SameMapping(s.maps[j], x.maps[j])
    BY <1>2, <1>3 DEF SameMapping
<1> QED BY <1>2, <1>3, <1>4, MapLens DEF Touches

\* The least of a set, and the number of its elements.
LEMMA MapMin ==
    ASSUME NEW S \in SUBSET Nat, S # {}
    PROVE  M!Min(S) \in S /\ \A y \in S : M!Min(S) <= y
BY LeastNat DEF M!Min

LEMMA SameCardinality == \A S : M!Cardinality(S) = Cardinality(S)
BY DEF M!Cardinality, Cardinality

LEMMA MinTwo ==
    ASSUME NEW a \in Nat, NEW b \in Nat PROVE M!Min({a, b}) \in Nat /\ M!Min({a, b}) <= a /\ M!Min({a, b}) <= b
<1>1. {a, b} \in SUBSET Nat /\ {a, b} # {}
    OBVIOUS
<1> QED BY <1>1, MapMin

LEMMA MinThree ==
    ASSUME NEW a \in Nat, NEW b \in Nat, NEW c \in Nat
    PROVE  M!Min({a, b, c}) \in Nat /\ M!Min({a, b, c}) <= a /\ M!Min({a, b, c}) <= b /\ M!Min({a, b, c}) <= c
<1>1. {a, b, c} \in SUBSET Nat /\ {a, b, c} # {}
    OBVIOUS
<1> QED BY <1>1, MapMin

LEMMA LeftIs ==
    ASSUME NEW m \in Ents, NEW at \in Nat
    PROVE  M!Left(m, at) \in Nat /\ (at <= m.lim => at + M!Left(m, at) = m.lim)
BY DEF M!Left, Ents

LEMMA FtruncateTouches ==
    ASSUME NEW s, MapShape(s), NEW len \in Nat, Len(s.file) <= len, NEW x \in M!SysFtruncate(s, len)
    PROVE  Grows(s, x) /\ (x.e = "EIO" \/ (x.e = s.e /\ Len(x.file) = len))
<1>1. CASE x \in M!May(s, "EIO")
    BY <1>1, MayTouches, MapLens DEF Touches, Grows
<1>2. CASE x \notin M!May(s, "EIO")
    <2> DEFINE bytes == [i \in 1 .. len |-> IF i <= Len(s.file) THEN s.file[i] ELSE 0]
    <2>1. x = [s EXCEPT !.file = bytes]
        BY <1>2 DEF M!SysFtruncate
    <2>2. bytes \in Seq(Nat) /\ Len(bytes) = len
        <3>1. \A i \in 1 .. len : bytes[i] \in Nat
            BY MapLens, ElementOfSeq DEF MapShape
        <3>2. bytes \in [1 .. len -> Nat]
            BY <3>1
        <3> HIDE DEF bytes
        <3> QED BY <3>2, IsASeq, LenProperties
    <2> HIDE DEF bytes
    <2>3. x = [file |-> bytes, kern |-> s.kern, maps |-> s.maps,
               f |-> s.f, e |-> s.e, n |-> s.n, c |-> s.c, o |-> s.o]
        BY <2>1 DEF MapShape
    <2>4. x.file = bytes /\ x.kern = s.kern /\ x.maps = s.maps /\ x.e = s.e
          /\ x = [file |-> x.file, kern |-> x.kern, maps |-> x.maps,
                  f |-> x.f, e |-> x.e, n |-> x.n, c |-> x.c, o |-> x.o]
        BY <2>3
    <2>5. MapShape(x)
        BY <2>2, <2>4 DEF MapShape
    <2> QED BY <2>2, <2>4, <2>5, MapLens DEF Grows
<1> QED BY <1>1, <1>2

LEMMA LoadTouches ==
    ASSUME NEW s, MapShape(s), NEW a, NEW at, NEW n, NEW x \in M!Load(s, a, at, n)
    PROVE  Touches(s, x) /\ x.maps = s.maps /\ (x.e = "FAULT" \/ x.n = n)
<1>1. CASE ~M!InFile(s, a, at, n)
    <2>1. x \in M!Error(s, "FAULT")
        BY <1>1 DEF M!Load
    <2>2. x = [file |-> s.file, kern |-> s.kern, maps |-> s.maps,
               f |-> s.f, e |-> "FAULT", n |-> s.n, c |-> s.c, o |-> s.o]
        BY <2>1 DEF M!Error, MapShape
    <2> QED BY <2>2, OnlyAnswers
<1>2. CASE M!InFile(s, a, at, n)
    <2>1. PICK c : x = [s EXCEPT !.c = c, !.n = n]
        BY <1>2 DEF M!Load
    <2>2. x = [file |-> s.file, kern |-> s.kern, maps |-> s.maps, f |-> s.f, e |-> s.e, n |-> n, c |-> c, o |-> s.o]
        BY <2>1 DEF MapShape
    <2> QED BY <2>2, OnlyAnswers
<1> QED BY <1>1, <1>2

LEMMA StoreTouches ==
    ASSUME NEW s, MapShape(s), NEW a \in 1 .. Places, NEW at \in Nat, NEW d \in Seq(Nat),
           NEW x \in M!Store(s, a, at, d)
    PROVE  Touches(s, x) /\ x.maps = s.maps /\ (x.e = "FAULT" \/ x.n = Len(d))
<1> DEFINE from == s.kern[a].from + at
           here == (from + 1) .. (from + Len(d))
<1>1. from \in Nat /\ Len(d) \in Nat /\ DOMAIN d = 1 .. Len(d) /\ PlaceShape(s.kern[a])
    BY LenProperties DEF MapShape, PlaceShape
<1>2. CASE ~M!InFile(s, a, at, Len(d))
    <2>1. x \in M!Error(s, "FAULT")
        BY <1>2 DEF M!Store
    <2>2. x = [file |-> s.file, kern |-> s.kern, maps |-> s.maps,
               f |-> s.f, e |-> "FAULT", n |-> s.n, c |-> s.c, o |-> s.o]
        BY <2>1 DEF M!Error, MapShape
    <2> QED BY <2>2, OnlyAnswers
<1>3. CASE M!InFile(s, a, at, Len(d)) /\ s.kern[a].shared
    <2> DEFINE bytes == [i \in DOMAIN s.file |-> IF i \in here THEN d[i - from] ELSE s.file[i]]
    <2>1. x = [s EXCEPT !.file = bytes, !.n = Len(d)]
        BY <1>3 DEF M!Store, MapShape
    <2>2. bytes \in Seq(Nat) /\ Len(bytes) = Len(s.file)
        <3>1. DOMAIN s.file = 1 .. Len(s.file) /\ Len(s.file) \in Nat
            BY MapLens
        <3>2. ASSUME NEW i \in 1 .. Len(s.file) PROVE (IF i \in here THEN d[i - from] ELSE s.file[i]) \in Nat
            <4>1. CASE i \in here
                <5>1. PICK f \in Nat, n \in Nat : f = from /\ n = Len(d)
                    BY <1>1
                <5>2. i \in (f + 1) .. (f + n)
                    BY <4>1, <5>1
                <5>3. i - f \in 1 .. n
                    BY <3>1, <5>2
                <5>4. PICK j \in 1 .. Len(d) : j = i - from
                    BY <5>1, <5>3
                <5>5. d[j] \in Nat
                    BY <5>4, ElementOfSeq
                <5> QED BY <4>1, <5>4, <5>5
            <4>2. CASE i \notin here
                BY <4>2, ElementOfSeq DEF MapShape
            <4> QED BY <4>1, <4>2
        <3>3. bytes \in [1 .. Len(s.file) -> Nat]
            BY <3>1, <3>2
        <3>4. PICK n \in Nat : n = Len(s.file)
            BY <3>1
        <3> HIDE DEF bytes
        <3>5. bytes \in [1 .. n -> Nat]
            BY <3>3, <3>4
        <3>6. bytes \in Seq(Nat) /\ DOMAIN bytes = 1 .. n
            BY <3>5, IsASeq
        <3>7. DOMAIN bytes = 1 .. Len(bytes) /\ Len(bytes) \in Nat
            BY <3>6, LenProperties
        <3> QED BY <3>4, <3>6, <3>7
    <2> HIDE DEF bytes
    <2>3. x = [file |-> bytes, kern |-> s.kern, maps |-> s.maps,
               f |-> s.f, e |-> s.e, n |-> Len(d), c |-> s.c, o |-> s.o]
        BY <2>1 DEF MapShape
    <2>4. x.file = bytes /\ x.kern = s.kern /\ x.maps = s.maps /\ x.n = Len(d)
          /\ x = [file |-> x.file, kern |-> x.kern, maps |-> x.maps,
                  f |-> x.f, e |-> x.e, n |-> x.n, c |-> x.c, o |-> x.o]
        BY <2>3
    <2>5. MapShape(x)
        BY <2>2, <2>4 DEF MapShape
    <2> QED BY <2>2, <2>4, <2>5, MapLens DEF Touches, SameMapping
<1>4. CASE M!InFile(s, a, at, Len(d)) /\ ~s.kern[a].shared
    <2>1. PICK own : x = [s EXCEPT !.kern[a].own = own, !.n = Len(d)]
        BY <1>4 DEF M!Store
    <2> DEFINE k == [s.kern[a] EXCEPT !.own = own]
    <2>2. k = [from |-> s.kern[a].from, len |-> s.kern[a].len, shared |-> s.kern[a].shared, own |-> own]
        BY <1>1 DEF PlaceShape
    <2>3. k.from = s.kern[a].from /\ k.len = s.kern[a].len /\ PlaceShape(k)
        BY <1>1, <2>2 DEF PlaceShape
    <2>4. x = [s EXCEPT !.kern = [s.kern EXCEPT ![a] = k], !.n = Len(d)]
        BY <2>1
    <2> HIDE DEF k
    <2>5. x = [file |-> s.file, kern |-> [s.kern EXCEPT ![a] = k], maps |-> s.maps,
               f |-> s.f, e |-> s.e, n |-> Len(d), c |-> s.c, o |-> s.o]
        BY <2>4 DEF MapShape
    <2>6. x.file = s.file /\ x.kern = [s.kern EXCEPT ![a] = k] /\ x.maps = s.maps /\ x.n = Len(d)
          /\ x = [file |-> x.file, kern |-> x.kern, maps |-> x.maps,
                  f |-> x.f, e |-> x.e, n |-> x.n, c |-> x.c, o |-> x.o]
        BY <2>5
    <2>7. DOMAIN s.kern = 1 .. Places
        BY DEF MapShape
    <2>8. \A b \in 1 .. Places : x.kern[b] = IF b = a THEN k ELSE s.kern[b]
        BY <2>6, <2>7
    <2>9. x.kern = [b \in 1 .. Places |-> x.kern[b]]
        BY <2>6, <2>7
    <2>10. MapShape(x)
        BY <2>3, <2>6, <2>8, <2>9 DEF MapShape
    <2>11. \A b \in 1 .. Places : x.kern[b].len = s.kern[b].len /\ x.kern[b].from = s.kern[b].from
        BY <2>3, <2>8
    <2> QED BY <2>6, <2>10, <2>11, MapLens, SMTT(40) DEF Touches, SameMapping
<1> QED BY <1>2, <1>3, <1>4

\* What the core does to a mapping it has.
LEMMA CoreSetPositionTouches ==
    ASSUME NEW s, MapShape(s), NEW o \in 1 .. Len(s.maps), NEW p \in Nat, NEW x \in M!CoreSetPosition(s, o, p)
    PROVE  Touches(s, x)
<1>1. CASE s.maps[o].valid /\ p <= s.maps[o].lim
    <2>1. x = [s EXCEPT !.maps[o].pos = p]
        BY <1>1 DEF M!CoreSetPosition, M!CheckValid, M!Given
    <2> DEFINE w == [s.maps[o] EXCEPT !.pos = p]
    <2>2. w \in Ents /\ SameMapping(s.maps[o], w)
        BY <1>1, MapLens DEF Ents, SameMapping, InOrder
    <2>3. x = [s EXCEPT !.maps[o] = w]
        BY <2>1
    <2> QED BY <2>2, <2>3, EntityMoves
<1>2. CASE ~ (s.maps[o].valid /\ p <= s.maps[o].lim)
    <2>1. \E e : x \in M!Error(s, e)
        BY <1>2 DEF M!CoreSetPosition, M!CheckValid, M!Given
    <2> QED BY <2>1, ErrorTouches
<1> QED BY <1>1, <1>2

\* An entity whose limit and position are others.
LEMMA MovedEntity ==
    ASSUME NEW m \in Ents, NEW l \in Nat, NEW p \in Nat, InOrder(m) => p <= l /\ l <= m.cap,
           NEW w, w = [[m EXCEPT !.lim = l] EXCEPT !.pos = p]
    PROVE  w \in Ents /\ SameMapping(m, w)
<1>1. m = [valid |-> m.valid, a |-> m.a, cap |-> m.cap, adj |-> m.adj, raw |-> m.raw,
           lim |-> m.lim, pos |-> m.pos, mode |-> m.mode, off |-> m.off]
    BY DEF Ents
<1>2. w = [valid |-> m.valid, a |-> m.a, cap |-> m.cap, adj |-> m.adj, raw |-> m.raw,
           lim |-> l, pos |-> p, mode |-> m.mode, off |-> m.off]
    BY <1>1
<1>3. w \in Ents
    BY <1>2 DEF Ents
<1> QED BY <1>2, <1>3 DEF SameMapping, InOrder

LEMMA CoreSetLimitTouches ==
    ASSUME NEW s, MapShape(s), NEW o \in 1 .. Len(s.maps), NEW l \in Nat, NEW x \in M!CoreSetLimit(s, o, l)
    PROVE  Touches(s, x)
<1>1. CASE s.maps[o].valid /\ l <= s.maps[o].cap
    <2>1. PICK m \in Ents : m = s.maps[o]
        BY MapLens
    <2>2. m.pos \in Nat
        BY DEF Ents
    <2>3. PICK p \in Nat : p = M!Min({m.pos, l}) /\ p <= l
        BY <2>2, MinTwo
    <2>4. x = [s EXCEPT !.maps[o].lim = l, !.maps[o].pos = M!Min({s.maps[o].pos, l})]
        BY <1>1 DEF M!CoreSetLimit, M!CheckValid, M!Given
    <2>5. x = [s EXCEPT !.maps[o].lim = l, !.maps[o].pos = p]
        BY <2>1, <2>3, <2>4
    <2> DEFINE w == [[m EXCEPT !.lim = l] EXCEPT !.pos = p]
    <2>6. x = [s EXCEPT !.maps[o] = w]
        BY <2>1, <2>5, MapLens DEF MapShape
    <2>7. w \in Ents /\ SameMapping(s.maps[o], w)
        BY <1>1, <2>1, <2>3, MovedEntity
    <2> HIDE DEF w
    <2> QED BY <2>6, <2>7, EntityMoves
<1>2. CASE ~ (s.maps[o].valid /\ l <= s.maps[o].cap)
    <2>1. \E e : x \in M!Error(s, e)
        BY <1>2 DEF M!CoreSetLimit, M!CheckValid, M!Given
    <2> QED BY <2>1, ErrorTouches
<1> QED BY <1>1, <1>2

LEMMA CoreFlipTouches ==
    ASSUME NEW s, MapShape(s), NEW o \in 1 .. Len(s.maps), NEW x \in M!CoreFlip(s, o)
    PROVE  Touches(s, x)
<1>1. CASE s.maps[o].valid
    <2>1. PICK m \in Ents : m = s.maps[o]
        BY MapLens
    <2>2. x = [s EXCEPT !.maps[o].lim = s.maps[o].pos, !.maps[o].pos = 0]
        BY <1>1 DEF M!CoreFlip, M!CheckValid
    <2> DEFINE w == [[m EXCEPT !.lim = m.pos] EXCEPT !.pos = 0]
    <2>3. x = [s EXCEPT !.maps[o] = w]
        BY <2>1, <2>2, MapLens DEF MapShape
    <2>4. w \in Ents /\ SameMapping(s.maps[o], w)
        <3>1. PICK p \in Nat : p = m.pos
            BY DEF Ents
        <3>2. InOrder(m) => 0 <= p /\ p <= m.cap
            BY <3>1 DEF Ents, InOrder
        <3> QED BY <2>1, <3>1, <3>2, MovedEntity
    <2> HIDE DEF w
    <2> QED BY <2>3, <2>4, EntityMoves
<1>2. CASE ~s.maps[o].valid
    <2>1. x \in M!Error(s, "FREE")
        BY <1>2 DEF M!CoreFlip, M!CheckValid
    <2> QED BY <2>1, ErrorTouches
<1> QED BY <1>1, <1>2

\* Moves the position over n bytes that are left.
LEMMA AdvanceTouches ==
    ASSUME NEW s, MapShape(s), NEW o \in 1 .. Len(s.maps), NEW x, Touches(s, x), x.maps = s.maps,
           NEW k \in Nat, x.n = k, k <= M!Left(s.maps[o], s.maps[o].pos),
           NEW y, y = [x EXCEPT !.maps[o].pos = @ + x.n]
    PROVE  Touches(s, y)
<1>1. PICK m \in Ents : m = s.maps[o]
    BY MapLens
<1> DEFINE w == [m EXCEPT !.pos = m.pos + k]
<1>2. w \in Ents /\ SameMapping(x.maps[o], w)
    <2>1. PICK p \in Nat, l \in Nat, cap \in Nat : p = m.pos /\ l = m.lim /\ cap = m.cap
        BY DEF Ents
    <2>2. InOrder(m) => p + k <= l /\ l <= cap
        BY <1>1, <2>1 DEF InOrder, M!Left
    <2>3. w = [[m EXCEPT !.lim = l] EXCEPT !.pos = p + k]
        BY <2>1 DEF Ents
    <2>4. p + k \in Nat
        OBVIOUS
    <2> QED BY <1>1, <2>1, <2>2, <2>3, <2>4, MovedEntity
<1>3. MapShape(x) /\ o \in 1 .. Len(x.maps)
    BY DEF Touches
<1>4. y = [x EXCEPT !.maps[o] = w]
    BY <1>1
<1> HIDE DEF w
<1>5. Touches(x, y)
    BY <1>2, <1>3, <1>4, EntityMoves
<1> QED BY <1>5, TouchesAgain

LEMMA CoreReadFromTouches ==
    ASSUME NEW s, MapShape(s), NEW o \in 1 .. Len(s.maps), NEW at, NEW buf, NEW len,
           NEW x \in M!CoreReadFrom(s, o, at, buf, len)
    PROVE  Touches(s, x) /\ x.maps = s.maps /\ (x.e = "OK" => x.n = M!Min({len, M!Left(s.maps[o], at), buf}))
<1>1. CASE s.maps[o].valid /\ at <= s.maps[o].cap
    <2>1. x \in M!Load(s, s.maps[o].a, s.maps[o].adj + at, M!Min({len, M!Left(s.maps[o], at), buf}))
        BY <1>1 DEF M!CoreReadFrom, M!CheckValid, M!Given
    <2> QED BY <2>1, LoadTouches
<1>2. CASE ~ (s.maps[o].valid /\ at <= s.maps[o].cap)
    <2>1. x \in M!Error(s, "FREE") \/ x \in M!Error(s, "EINVAL")
        BY <1>2 DEF M!CoreReadFrom, M!CheckValid, M!Given
    <2>2. PICK e \in {"FREE", "EINVAL"} : x = [file |-> s.file, kern |-> s.kern, maps |-> s.maps,
                                               f |-> s.f, e |-> e, n |-> s.n, c |-> s.c, o |-> s.o]
        BY <2>1 DEF M!Error, MapShape
    <2> QED BY <2>2, OnlyAnswers
<1> QED BY <1>1, <1>2

LEMMA CoreReadTouches ==
    ASSUME NEW s, MapShape(s), NEW o \in 1 .. Len(s.maps), NEW buf \in Nat, NEW len \in Nat,
           NEW x \in M!CoreRead(s, o, buf, len)
    PROVE  Touches(s, x)
<1> DEFINE S == M!CoreReadFrom(s, o, s.maps[o].pos, buf, len)
<1>1. x \in M!CheckValid(s, o, M!Next2(S, LAMBDA z : {[z EXCEPT !.maps[o].pos = @ + z.n]}))
    BY DEF M!CoreRead
<1>2. x \in M!Error(s, "FREE") \/ \E z \in S : x = z \/ (z.e = "OK" /\ x = [z EXCEPT !.maps[o].pos = @ + z.n])
    BY <1>1 DEF M!CheckValid, M!Next2
<1>3. CASE x \in M!Error(s, "FREE")
    BY <1>3, ErrorTouches
<1>4. ASSUME NEW z \in S, x = z PROVE Touches(s, x)
    BY <1>4, CoreReadFromTouches
<1>5. ASSUME NEW z \in S, z.e = "OK", x = [z EXCEPT !.maps[o].pos = @ + z.n] PROVE Touches(s, x)
    <2>1. s.maps[o] \in Ents /\ s.maps[o].pos \in Nat
        BY MapLens DEF Ents
    <2>2. PICK l \in Nat : l = M!Left(s.maps[o], s.maps[o].pos)
        BY <2>1, LeftIs
    <2>3. Touches(s, z) /\ z.maps = s.maps /\ z.n = M!Min({len, l, buf})
        BY <1>5, <2>2, CoreReadFromTouches
    <2>4. PICK k \in Nat : k = M!Min({len, l, buf}) /\ k <= l
        BY MinThree
    <2> QED BY <1>5, <2>2, <2>3, <2>4, AdvanceTouches
<1> QED BY <1>2, <1>3, <1>4, <1>5

LEMMA CoreWriteToTouches ==
    ASSUME NEW s, MapShape(s), NEW o \in 1 .. Len(s.maps), NEW at \in Nat, NEW d \in Seq(Nat), NEW len \in Nat,
           NEW x \in M!CoreWriteTo(s, o, at, d, len)
    PROVE  Touches(s, x) /\ x.maps = s.maps /\ (x.e = "OK" => x.n \in Nat /\ x.n <= M!Left(s.maps[o], at))
<1>1. CASE s.maps[o].valid /\ at <= s.maps[o].cap /\ ~M!IsReadOnly(s.maps[o])
    <2>1. PICK m \in Ents : m = s.maps[o]
        BY MapLens
    <2>2. m.adj + at \in Nat /\ m.a \in 1 .. Places
        <3>1. m.adj \in Nat
            BY DEF Ents
        <3>2. m.a \in 1 .. Places
            BY <1>1, <2>1 DEF MapShape
        <3> QED BY <3>1, <3>2
    <2>3. PICK l \in Nat : l = M!Left(m, at)
        BY LeftIs
    <2>4. Len(d) \in Nat
        BY LenProperties
    <2>5. PICK k \in Nat : k = M!Min({len, l, Len(d)}) /\ k <= l /\ k <= Len(d)
        BY <2>3, <2>4, MinThree
    <2>6. x \in M!Store(s, m.a, m.adj + at, SubSeq(d, 1, k))
        BY <1>1, <2>1, <2>3, <2>5 DEF M!CoreWriteTo, M!CheckValid, M!Given
    <2>7. PICK q \in Seq(Nat) : q = SubSeq(d, 1, k) /\ Len(q) = k
        <3>1. \A i \in 1 .. k : d[i] \in Nat
            BY <2>4, <2>5, ElementOfSeq
        <3>2. SubSeq(d, 1, k) \in Seq(Nat) /\ Len(SubSeq(d, 1, k)) = IF 1 <= k THEN k - 1 + 1 ELSE 0
            BY <3>1, SubSeqProperties
        <3>3. (IF 1 <= k THEN k - 1 + 1 ELSE 0) = k
            OBVIOUS
        <3> QED BY <3>2, <3>3
    <2>8. Touches(s, x) /\ x.maps = s.maps /\ (x.e = "FAULT" \/ x.n = k)
        <3>1. PICK p \in Nat, a \in 1 .. Places : p = m.adj + at /\ a = m.a
            BY <2>2
        <3>2. x \in M!Store(s, a, p, q)
            BY <2>6, <2>7, <3>1
        <3>3. q \in Seq(Nat) /\ Len(q) = k
            BY <2>7
        <3>4. Touches(s, x) /\ x.maps = s.maps /\ (x.e = "FAULT" \/ x.n = Len(q))
            BY <3>2, <3>3, StoreTouches, Zenon
        <3> QED BY <3>3, <3>4
    <2> QED BY <2>1, <2>3, <2>5, <2>8
<1>2. CASE ~ (s.maps[o].valid /\ at <= s.maps[o].cap /\ ~M!IsReadOnly(s.maps[o]))
    <2>1. x \in M!Error(s, "FREE") \/ x \in M!Error(s, "EINVAL") \/ x \in M!Error(s, "RO")
        BY <1>2 DEF M!CoreWriteTo, M!CheckValid, M!Given
    <2>2. PICK e \in {"FREE", "EINVAL", "RO"} : x = [file |-> s.file, kern |-> s.kern, maps |-> s.maps,
                                                     f |-> s.f, e |-> e, n |-> s.n, c |-> s.c, o |-> s.o]
        BY <2>1 DEF M!Error, MapShape
    <2> QED BY <2>2, OnlyAnswers
<1> QED BY <1>1, <1>2

LEMMA CoreWriteTouches ==
    ASSUME NEW s, MapShape(s), NEW o \in 1 .. Len(s.maps), NEW d \in Seq(Nat), NEW len \in Nat,
           NEW x \in M!CoreWrite(s, o, d, len)
    PROVE  Touches(s, x)
<1> DEFINE S == M!CoreWriteTo(s, o, s.maps[o].pos, d, len)
<1>1. x \in M!CheckValid(s, o, M!Next2(S, LAMBDA z : {[z EXCEPT !.maps[o].pos = @ + z.n]}))
    BY DEF M!CoreWrite
<1>2. x \in M!Error(s, "FREE") \/ \E z \in S : x = z \/ (z.e = "OK" /\ x = [z EXCEPT !.maps[o].pos = @ + z.n])
    BY <1>1 DEF M!CheckValid, M!Next2
<1>3. s.maps[o] \in Ents /\ s.maps[o].pos \in Nat
    BY MapLens DEF Ents
<1>4. CASE x \in M!Error(s, "FREE")
    BY <1>4, ErrorTouches
<1>5. ASSUME NEW z \in S, x = z PROVE Touches(s, x)
    BY <1>3, <1>5, CoreWriteToTouches
<1>6. ASSUME NEW z \in S, z.e = "OK", x = [z EXCEPT !.maps[o].pos = @ + z.n] PROVE Touches(s, x)
    <2>1. PICK k \in Nat : Touches(s, z) /\ z.maps = s.maps /\ z.n = k /\ k <= M!Left(s.maps[o], s.maps[o].pos)
        BY <1>3, <1>6, CoreWriteToTouches
    <2> QED BY <1>6, <2>1, AdvanceTouches
<1> QED BY <1>2, <1>4, <1>5, <1>6

LEMMA CoreMsyncTouches ==
    ASSUME NEW s, MapShape(s), NEW o, NEW off, NEW len, NEW x \in M!CoreMsync(s, o, off, len)
    PROVE  Touches(s, x)
<1>1. \A y \in {s} \cup M!May(s, "EIO") : Touches(s, y)
    BY TouchesSelf, MayTouches
<1>2. x \in {s} \cup M!May(s, "EIO") \/ x \in M!Error(s, "FREE") \/ x \in M!Error(s, "EINVAL")
    BY DEF M!CoreMsync, M!CheckValid, M!Given
<1> QED BY <1>1, <1>2, ErrorTouches

\* The arguments of a call.
CallArgs(c) ==
    /\ c.pos \in Nat \cup {M!None, M!Below} /\ c.len \in Nat \cup {M!None, M!Below} /\ c.d \in Seq(Nat)

LEMMA NapiReadTouches ==
    ASSUME M!MapConstants, NEW s, MapShape(s), NEW c, CallArgs(c), c.o \in 1 .. Len(s.maps), NEW x \in M!Read(s, c)
    PROVE  Touches(s, x)
<1>1. PICK o \in 1 .. Len(s.maps) : o = c.o
    OBVIOUS
<1>2. MapBuf \in Nat
    BY DEF M!MapConstants
<1>3. PICK asked \in Nat : asked = M!ParseLengthArg(c, MapBuf)
    BY <1>2 DEF M!ParseLengthArg, CallArgs, M!None, M!Below
<1>4. PICK len \in Nat : len = M!Min({asked, MapBuf})
    BY <1>2, MinTwo
<1> DEFINE S == IF c.pos = M!None THEN M!CoreRead(s, o, MapBuf, len) ELSE M!CoreReadFrom(s, o, c.pos, MapBuf, len)
<1>5. x \in M!Error(s, "FREE") \/ x \in M!Error(s, "EINVAL") \/ x \in M!Error(s, "OOB")
      \/ \E z \in S : x = [z EXCEPT !.n = len]
    BY <1>1, <1>3, <1>4 DEF M!Read, M!Mapping, M!Given, M!ValidateLength
<1>6. \A z \in S : Touches(s, z)
    BY <1>2, CoreReadTouches, CoreReadFromTouches
<1> HIDE DEF S
<1>7. ASSUME NEW z \in S, x = [z EXCEPT !.n = len] PROVE Touches(s, x)
    <2>1. Touches(s, z) /\ MapShape(z)
        BY <1>6 DEF Touches
    <2>2. x \in M!Value(z, len)
        BY <1>7 DEF M!Value
    <2> QED BY <2>1, <2>2, ValueTouches, TouchesAgain
<1> QED BY <1>5, <1>7, ErrorTouches

LEMMA NapiWriteTouches ==
    ASSUME NEW s, MapShape(s), NEW c, CallArgs(c), c.o \in 1 .. Len(s.maps), NEW x \in M!Write(s, c)
    PROVE  Touches(s, x)
<1>1. PICK o \in 1 .. Len(s.maps), d \in Seq(Nat) : o = c.o /\ d = c.d
    BY DEF CallArgs
<1>2. Len(d) \in Nat
    BY LenProperties
<1>3. PICK asked \in Nat : asked = M!ParseLengthArg(c, Len(d))
    BY <1>2 DEF M!ParseLengthArg, CallArgs, M!None, M!Below
<1>4. PICK len \in Nat : len = M!Min({asked, Len(d)})
    BY <1>2, MinTwo
<1> DEFINE S == IF c.pos = M!None THEN M!CoreWrite(s, o, d, len) ELSE M!CoreWriteTo(s, o, c.pos, d, len)
<1>5. x \in M!Error(s, "FREE") \/ x \in M!Error(s, "EINVAL") \/ x \in M!Error(s, "OOB") \/ x \in M!Error(s, "RO")
      \/ (M!ParsePositionArg(s.maps[o], c) /\ \E z \in S : x = [z EXCEPT !.n = len])
    BY <1>1, <1>3, <1>4 DEF M!Write, M!Mapping, M!Given, M!ValidateLength
<1>6. M!ParsePositionArg(s.maps[o], c) => \A z \in S : Touches(s, z)
    BY <1>2, CoreWriteTouches, CoreWriteToTouches DEF M!ParsePositionArg, CallArgs, M!None, M!Below
<1> HIDE DEF S
<1>7. ASSUME NEW z \in S, Touches(s, z), x = [z EXCEPT !.n = len] PROVE Touches(s, x)
    <2>1. MapShape(z)
        BY <1>7 DEF Touches
    <2>2. x \in M!Value(z, len)
        BY <1>7 DEF M!Value
    <2> QED BY <1>7, <2>1, <2>2, ValueTouches, TouchesAgain
<1> QED BY <1>5, <1>6, <1>7, ErrorTouches

\* The calls of either binding that map and unmap nothing.
Touching ==
    {"setPosition", "position", "capacity", "setLimit", "limit", "flip", "remaining", "read", "write", "msync"}

LEMMA GettersTouch ==
    ASSUME NEW s, MapShape(s), NEW o, NEW x,
           x \in M!CoreGetPosition(s, o) \/ x \in M!CoreCapacity(s, o) \/ x \in M!CoreGetLimit(s, o)
           \/ x \in M!CoreRemaining(s, o)
    PROVE  Touches(s, x)
<1>1. x \in M!Error(s, "FREE") \/ \E n : x \in M!Value(s, n)
    BY DEF M!CoreGetPosition, M!CoreCapacity, M!CoreGetLimit, M!CoreRemaining, M!CheckValid
<1> QED BY <1>1, ErrorTouches, ValueTouches

LEMMA NapiTouches ==
    ASSUME M!MapConstants, NEW s, MapShape(s), NEW c, CallArgs(c), c.o \in 1 .. Len(s.maps), c.op \in Touching,
           NEW x \in M!NapiMap(c, s)
    PROVE  Touches(s, x)
<1>1. PICK o \in 1 .. Len(s.maps) : o = c.o
    OBVIOUS
<1>2. CASE c.op = "setPosition"
    <2>1. x \in M!SetPosition(s, c)
        BY <1>2 DEF M!NapiMap
    <2>2. x \in M!Error(s, "FREE") \/ x \in M!Error(s, "EINVAL")
          \/ (c.pos \in Nat /\ x \in M!CoreSetPosition(s, o, c.pos))
        BY <1>1, <2>1 DEF M!SetPosition, M!Mapping, M!Given, CallArgs, M!None, M!Below
    <2> QED BY <2>2, ErrorTouches, CoreSetPositionTouches
<1>3. CASE c.op = "setLimit"
    <2>1. x \in M!SetLimit(s, c)
        BY <1>3 DEF M!NapiMap
    <2>2. x \in M!Error(s, "FREE") \/ x \in M!Error(s, "EINVAL")
          \/ (c.pos \in Nat /\ x \in M!CoreSetLimit(s, o, c.pos))
        BY <1>1, <2>1 DEF M!SetLimit, M!Mapping, M!Given, CallArgs, M!None, M!Below
    <2> QED BY <2>2, ErrorTouches, CoreSetLimitTouches
<1>4. CASE c.op \in {"position", "capacity", "limit", "remaining"}
    <2>1. x \in M!GetPosition(s, c) \/ x \in M!Capacity(s, c) \/ x \in M!GetLimit(s, c) \/ x \in M!Remaining(s, c)
        BY <1>4 DEF M!NapiMap
    <2>2. x \in M!Error(s, "FREE") \/ x \in M!CoreGetPosition(s, o) \/ x \in M!CoreCapacity(s, o)
          \/ x \in M!CoreGetLimit(s, o)
          \/ x \in M!CoreRemaining(s, o)
        BY <1>1, <2>1 DEF M!GetPosition, M!Capacity, M!GetLimit, M!Remaining, M!Mapping
    <2> QED BY <2>2, ErrorTouches, GettersTouch
<1>5. CASE c.op = "flip"
    <2>1. x \in M!Flip(s, c)
        BY <1>5 DEF M!NapiMap
    <2>2. x \in M!Error(s, "FREE") \/ x \in M!CoreFlip(s, o)
        BY <1>1, <2>1 DEF M!Flip, M!Mapping
    <2> QED BY <2>2, ErrorTouches, CoreFlipTouches
<1>6. CASE c.op = "read"
    <2>1. x \in M!Read(s, c)
        BY <1>6 DEF M!NapiMap
    <2> QED BY <2>1, NapiReadTouches
<1>7. CASE c.op = "write"
    <2>1. x \in M!Write(s, c)
        BY <1>7 DEF M!NapiMap
    <2> QED BY <2>1, NapiWriteTouches
<1>8. CASE c.op = "msync"
    <2>1. x \in M!MsyncSync(s, c)
        BY <1>8 DEF M!NapiMap
    <2>2. x \in M!Error(s, "FREE") \/ x \in M!Error(s, "EINVAL")
          \/ x \in M!CoreMsync(s, o, M!MsyncFrom(c), M!MsyncLen(s, c))
        BY <1>1, <2>1 DEF M!MsyncSync, M!Mapping, M!Given
    <2> QED BY <2>2, ErrorTouches, CoreMsyncTouches
<1> QED BY <1>2, <1>3, <1>4, <1>5, <1>6, <1>7, <1>8 DEF Touching

LEMMA AniTouches ==
    ASSUME M!MapConstants, NEW s, MapShape(s), NEW c, CallArgs(c), c.o \in 1 .. Len(s.maps), c.op \in Touching,
           NEW x \in M!AniMap(c, s)
    PROVE  Touches(s, x)
<1>1. PICK o \in 1 .. Len(s.maps), d \in Seq(Nat) : o = c.o /\ d = c.d
    BY DEF CallArgs
<1>2. CASE c.op = "setPosition"
    <2>1. x \in M!AniSetPosition(s, c)
        BY <1>2 DEF M!AniMap
    <2>2. x \in M!Error(s, "FREE") \/ x \in M!Error(s, "EINVAL")
          \/ (c.pos \in Nat /\ x \in M!CoreSetPosition(s, o, c.pos))
        BY <1>1, <2>1 DEF M!AniSetPosition, M!Unwrap, M!Given, CallArgs, M!None, M!Below
    <2> QED BY <2>2, ErrorTouches, CoreSetPositionTouches
<1>3. CASE c.op = "setLimit"
    <2>1. x \in M!AniSetLimit(s, c)
        BY <1>3 DEF M!AniMap
    <2>2. x \in M!Error(s, "FREE") \/ x \in M!Error(s, "EINVAL")
          \/ (c.pos \in Nat /\ x \in M!CoreSetLimit(s, o, c.pos))
        BY <1>1, <2>1 DEF M!AniSetLimit, M!Unwrap, M!Given, CallArgs, M!None, M!Below
    <2> QED BY <2>2, ErrorTouches, CoreSetLimitTouches
<1>4. CASE c.op \in {"position", "capacity", "limit", "remaining"}
    <2>1. x \in M!AniGetPosition(s, c) \/ x \in M!AniCapacity(s, c) \/ x \in M!AniGetLimit(s, c)
          \/ x \in M!AniRemaining(s, c)
        BY <1>4 DEF M!AniMap
    <2>2. x \in M!Error(s, "FREE") \/ x \in M!CoreGetPosition(s, o) \/ x \in M!CoreCapacity(s, o)
          \/ x \in M!CoreGetLimit(s, o)
          \/ x \in M!CoreRemaining(s, o)
        BY <1>1, <2>1 DEF M!AniGetPosition, M!AniCapacity, M!AniGetLimit, M!AniRemaining, M!Unwrap
    <2> QED BY <2>2, ErrorTouches, GettersTouch
<1>5. CASE c.op = "flip"
    <2>1. x \in M!AniFlip(s, c)
        BY <1>5 DEF M!AniMap
    <2>2. x \in M!Error(s, "FREE") \/ x \in M!CoreFlip(s, o)
        BY <1>1, <2>1 DEF M!AniFlip, M!Unwrap
    <2> QED BY <2>2, ErrorTouches, CoreFlipTouches
<1>6. CASE c.op = "read"
    <2>1. x \in M!AniRead(s, c) \/ x \in M!AniReadFrom(s, c)
        BY <1>6 DEF M!AniMap
    <2>2. MapBuf \in Nat
        BY DEF M!MapConstants
    <2>3. x \in M!Error(s, "FREE") \/ x \in M!Error(s, "EINVAL") \/ x \in M!Error(s, "OOB")
          \/ (M!AniLength(c, MapBuf) # M!Below
              /\ (x \in M!CoreRead(s, o, MapBuf, M!Min({M!AniLength(c, MapBuf), MapBuf}))
                  \/ x \in M!CoreReadFrom(s, o, c.pos, MapBuf, M!Min({M!AniLength(c, MapBuf), MapBuf}))))
        BY <1>1, <2>1 DEF M!AniRead, M!AniReadFrom, M!Unwrap, M!Given, M!AniValidateLength
    <2>4. ASSUME M!AniLength(c, MapBuf) # M!Below PROVE M!Min({M!AniLength(c, MapBuf), MapBuf}) \in Nat
        <3>1. PICK l \in Nat : l = M!AniLength(c, MapBuf)
            BY <2>2, <2>4 DEF M!AniLength, CallArgs, M!None, M!Below
        <3> QED BY <2>2, <3>1, MinTwo
    <2> QED BY <2>2, <2>3, <2>4, ErrorTouches, CoreReadTouches, CoreReadFromTouches
<1>7. CASE c.op = "write"
    <2>1. x \in M!AniWrite(s, c) \/ x \in M!AniWriteTo(s, c)
        BY <1>7 DEF M!AniMap
    <2>2. Len(d) \in Nat
        BY LenProperties
    <2>3. x \in M!Error(s, "FREE") \/ x \in M!Error(s, "EINVAL") \/ x \in M!Error(s, "OOB") \/ x \in M!Error(s, "RO")
          \/ (M!AniLength(c, Len(d)) # M!Below
              /\ (x \in M!CoreWrite(s, o, d, M!Min({M!AniLength(c, Len(d)), Len(d)}))
                  \/ (c.pos >= 0 /\ x \in M!CoreWriteTo(s, o, c.pos, d, M!Min({M!AniLength(c, Len(d)), Len(d)})))))
        BY <1>1, <2>1 DEF M!AniWrite, M!AniWriteTo, M!Unwrap, M!Given, M!AniValidateLength
    <2>4. ASSUME M!AniLength(c, Len(d)) # M!Below PROVE M!Min({M!AniLength(c, Len(d)), Len(d)}) \in Nat
        <3>1. PICK l \in Nat : l = M!AniLength(c, Len(d))
            BY <2>2, <2>4 DEF M!AniLength, CallArgs, M!None, M!Below
        <3> QED BY <2>2, <3>1, MinTwo
    <2>5. c.pos >= 0 => c.pos \in Nat
        BY DEF CallArgs, M!None, M!Below
    <2> QED BY <2>3, <2>4, <2>5, ErrorTouches, CoreWriteTouches, CoreWriteToTouches
<1>8. CASE c.op = "msync"
    <2>1. x \in M!AniMsyncSync(s, c) \/ x \in M!AniMsyncSyncWith(s, c)
        BY <1>8 DEF M!AniMap
    <2>2. x \in M!Error(s, "FREE") \/ x \in M!Error(s, "EINVAL") \/ x \in M!CoreMsync(s, o, 0, s.maps[c.o].cap)
          \/ x \in M!CoreMsync(s, o, c.pos, c.len)
        BY <1>1, <2>1 DEF M!AniMsyncSync, M!AniMsyncSyncWith, M!Unwrap, M!Given
    <2> QED BY <2>2, ErrorTouches, CoreMsyncTouches
<1> QED BY <1>2, <1>3, <1>4, <1>5, <1>6, <1>7, <1>8 DEF Touching

----------------------------------------------------------------------------
(* Entities and the memory.  D: the mappings whose pages are gone already. *)
Holds(s, D, i) == s.maps[i].valid /\ i \notin D
Backed(s, m) ==
    /\ InOrder(m) /\ 0 < m.raw /\ s.kern[m.a].len = m.raw /\ s.kern[m.a].from + m.adj = m.off /\ m.adj < Page
    /\ m.off + m.cap <= Len(s.file)
Sound(s, D) ==
    /\ \A i \in 1 .. Len(s.maps) : Holds(s, D, i) => Backed(s, s.maps[i])
    /\ \A i, j \in 1 .. Len(s.maps) : Holds(s, D, i) /\ Holds(s, D, j) /\ s.maps[i].a = s.maps[j].a => i = j
    /\ \A a \in 1 .. Places : s.kern[a].len > 0 => \E i \in 1 .. Len(s.maps) : Holds(s, D, i) /\ s.maps[i].a = a

LEMMA SoundTouched ==
    ASSUME NEW s, MapShape(s), NEW D, Sound(s, D), NEW x, Touches(s, x) PROVE Sound(x, D)
<1>1. \A i \in 1 .. Len(s.maps) : (Holds(x, D, i) <=> Holds(s, D, i)) /\ x.maps[i].a = s.maps[i].a
    BY DEF Touches, SameMapping, Holds
<1>2. ASSUME NEW i \in 1 .. Len(s.maps), Holds(s, D, i) PROVE Backed(x, x.maps[i])
    <2>1. PICK m \in Ents, w \in Ents : m = s.maps[i] /\ w = x.maps[i]
        BY MapLens DEF Touches
    <2>2. Backed(s, m) /\ m.a \in 1 .. Places /\ SameMapping(m, w)
        BY <1>2, <2>1 DEF Sound, Holds, MapShape, Touches
    <2>3. InOrder(w) /\ w.a = m.a /\ w.cap = m.cap /\ w.adj = m.adj /\ w.raw = m.raw /\ w.off = m.off
        BY <2>2 DEF SameMapping, Backed
    <2>4. x.kern[m.a].len = s.kern[m.a].len /\ x.kern[m.a].from = s.kern[m.a].from /\ Len(x.file) = Len(s.file)
        BY <2>2 DEF Touches, Backed
    <2> QED BY <2>1, <2>2, <2>3, <2>4 DEF Backed
<1>3. Len(x.maps) = Len(s.maps) /\ \A a \in 1 .. Places : x.kern[a].len = s.kern[a].len
    BY DEF Touches
<1> QED BY <1>1, <1>2, <1>3 DEF Sound

LEMMA SoundGrown ==
    ASSUME NEW s, MapShape(s), NEW D, Sound(s, D), NEW x, Grows(s, x) PROVE Sound(x, D)
<1>1. x.maps = s.maps /\ x.kern = s.kern /\ Len(s.file) <= Len(x.file) /\ MapShape(x)
    BY DEF Grows
<1>2. ASSUME NEW i \in 1 .. Len(s.maps), Holds(s, D, i) PROVE Backed(x, x.maps[i])
    <2>1. PICK m \in Ents : m = s.maps[i]
        BY MapLens
    <2>2. Backed(s, m)
        BY <1>2, <2>1 DEF Sound
    <2>3. PICK n \in Nat, k \in Nat, l \in Nat : n = Len(s.file) /\ k = Len(x.file) /\ l = m.off + m.cap
        BY <1>1, MapLens DEF Ents
    <2>4. m.off + m.cap <= Len(x.file)
        BY <1>1, <2>2, <2>3 DEF Backed
    <2> QED BY <1>1, <2>1, <2>2, <2>4 DEF Backed
<1> QED BY <1>1, <1>2 DEF Sound, Holds

\* The pages of a mapping go.
LEMMA MunmapPages ==
    ASSUME NEW s, MapShape(s), NEW a \in 1 .. Places, NEW x \in M!SysMunmap(s, a)
    PROVE  /\ MapShape(x) /\ x.file = s.file /\ x.maps = s.maps /\ x.e = s.e /\ x.o = s.o
           /\ \A b \in 1 .. Places : x.kern[b] = IF b = a THEN M!Unmapped ELSE s.kern[b]
<1>1. x = [s EXCEPT !.kern = [s.kern EXCEPT ![a] = M!Unmapped]]
    BY DEF M!SysMunmap
<1>2. x = [file |-> s.file, kern |-> [s.kern EXCEPT ![a] = M!Unmapped], maps |-> s.maps,
           f |-> s.f, e |-> s.e, n |-> s.n, c |-> s.c, o |-> s.o]
    BY <1>1 DEF MapShape
<1>3. x.file = s.file /\ x.kern = [s.kern EXCEPT ![a] = M!Unmapped] /\ x.maps = s.maps /\ x.e = s.e /\ x.o = s.o
      /\ x = [file |-> x.file, kern |-> x.kern, maps |-> x.maps,
              f |-> x.f, e |-> x.e, n |-> x.n, c |-> x.c, o |-> x.o]
    BY <1>2
<1>4. DOMAIN s.kern = 1 .. Places
    BY DEF MapShape
<1>5. \A b \in 1 .. Places : x.kern[b] = IF b = a THEN M!Unmapped ELSE s.kern[b]
    BY <1>3, <1>4
<1>6. x.kern = [b \in 1 .. Places |-> x.kern[b]]
    BY <1>3, <1>4
<1>7. PlaceShape(M!Unmapped)
    BY DEF PlaceShape, M!Unmapped
<1> QED BY <1>3, <1>5, <1>6, <1>7 DEF MapShape

LEMMA SoundMunmapped ==
    ASSUME NEW s, MapShape(s), NEW D, Sound(s, D), NEW o \in 1 .. Len(s.maps), Holds(s, D, o),
           NEW x \in M!SysMunmap(s, s.maps[o].a)
    PROVE  MapShape(x) /\ x.file = s.file /\ x.maps = s.maps /\ x.e = s.e /\ Sound(x, D \cup {o})
<1>1. PICK a \in 1 .. Places : a = s.maps[o].a
    BY DEF MapShape, Holds
<1>2. /\ MapShape(x) /\ x.file = s.file /\ x.maps = s.maps /\ x.e = s.e
      /\ \A b \in 1 .. Places : x.kern[b] = IF b = a THEN M!Unmapped ELSE s.kern[b]
    BY <1>1, MunmapPages
<1>3. \A i \in 1 .. Len(s.maps) : Holds(x, D \cup {o}, i) <=> Holds(s, D, i) /\ i # o
    BY <1>2 DEF Holds
<1>4. \A i \in 1 .. Len(s.maps) : Holds(s, D, i) /\ i # o => s.maps[i].a # a /\ s.maps[i].a \in 1 .. Places
    BY <1>1 DEF Sound, Holds, MapShape
<1>5. \A i \in 1 .. Len(s.maps) : Holds(x, D \cup {o}, i) => Backed(x, x.maps[i])
    BY <1>2, <1>3, <1>4 DEF Sound, Backed
<1>6. ASSUME NEW b \in 1 .. Places, x.kern[b].len > 0
      PROVE  \E i \in 1 .. Len(s.maps) : Holds(x, D \cup {o}, i) /\ x.maps[i].a = b
    <2>1. b # a /\ s.kern[b].len > 0
        BY <1>2, <1>6 DEF M!Unmapped
    <2> QED BY <1>1, <1>2, <1>3, <2>1 DEF Sound
<1> QED BY <1>2, <1>3, <1>5, <1>6 DEF Sound

\* D is E without one of its elements.
WithoutOne(D, E, o) == o \in E /\ D = E \ {o}

\* The entity of a mapping whose pages are gone is cleared.
LEMMA SoundCleared ==
    ASSUME NEW s, MapShape(s), NEW E, Sound(s, E), NEW o \in 1 .. Len(s.maps), NEW D, WithoutOne(D, E, o),
           NEW x, x = M!Cleared(s, o)
    PROVE  /\ MapShape(x) /\ x.file = s.file /\ Len(x.maps) = Len(s.maps) /\ x.e = s.e /\ Sound(x, D)
           /\ \A i \in 1 .. Len(s.maps) : i # o => x.maps[i] = s.maps[i]
<1>1. PICK m \in Ents : m = s.maps[o]
    BY MapLens
<1> DEFINE w == [valid |-> FALSE, a |-> 0, cap |-> 0, adj |-> 0, raw |-> 0,
                 lim |-> 0, pos |-> 0, mode |-> m.mode, off |-> m.off]
<1>3. w \in Ents /\ ~w.valid
    BY DEF Ents
<1>5. x = [s EXCEPT !.maps = [s.maps EXCEPT ![o] = w]]
    BY <1>1 DEF M!Cleared
<1> HIDE DEF w
<1>6. [s.maps EXCEPT ![o] = w] \in Seq(Ents) /\ Len([s.maps EXCEPT ![o] = w]) = Len(s.maps)
      /\ \A j \in 1 .. Len(s.maps) : [s.maps EXCEPT ![o] = w][j] = IF j = o THEN w ELSE s.maps[j]
    BY <1>3, MapLens, ExceptSeq DEF MapShape
<1>7. x = [file |-> s.file, kern |-> s.kern, maps |-> [s.maps EXCEPT ![o] = w],
           f |-> s.f, e |-> s.e, n |-> s.n, c |-> s.c, o |-> s.o]
    BY <1>5 DEF MapShape
<1>8. x.file = s.file /\ x.kern = s.kern /\ x.maps = [s.maps EXCEPT ![o] = w] /\ x.e = s.e
      /\ x = [file |-> x.file, kern |-> x.kern, maps |-> x.maps,
              f |-> x.f, e |-> x.e, n |-> x.n, c |-> x.c, o |-> x.o]
    BY <1>7
<1>9. \A j \in 1 .. Len(s.maps) : x.maps[j] = IF j = o THEN w ELSE s.maps[j]
    BY <1>6, <1>8
<1>10. Len(x.maps) = Len(s.maps) /\ x.maps \in Seq(Ents)
    BY <1>6, <1>8
<1>11. MapShape(x)
    BY <1>3, <1>8, <1>9, <1>10 DEF MapShape
<1>12. \A i \in 1 .. Len(s.maps) : Holds(x, D, i) <=> Holds(s, E, i)
    BY <1>3, <1>9 DEF Holds, WithoutOne
<1>13. \A i \in 1 .. Len(s.maps) : Holds(s, E, i) => i # o /\ x.maps[i] = s.maps[i]
    BY <1>9 DEF Holds, WithoutOne
<1>14. Sound(x, D)
    <2>1. \A i \in 1 .. Len(s.maps) : Holds(s, E, i) => Backed(x, x.maps[i])
        BY <1>8, <1>13 DEF Sound, Backed
    <2>2. \A i, j \in 1 .. Len(s.maps) :
             Holds(s, E, i) /\ Holds(s, E, j) /\ x.maps[i].a = x.maps[j].a => i = j
        BY <1>13 DEF Sound
    <2>3. \A a \in 1 .. Places : x.kern[a].len > 0 =>
             \E i \in 1 .. Len(s.maps) : Holds(s, E, i) /\ x.maps[i].a = a
        <3> TAKE a \in 1 .. Places
        <3> HAVE x.kern[a].len > 0
        <3>1. PICK i \in 1 .. Len(s.maps) : Holds(s, E, i) /\ s.maps[i].a = a
            <4>1. s.kern[a].len > 0
                BY <1>8
            <4> QED BY <4>1 DEF Sound
        <3> QED BY <1>13, <3>1
    <2> QED BY <1>10, <1>12, <2>1, <2>2, <2>3 DEF Sound
<1> QED BY <1>8, <1>9, <1>10, <1>11, <1>14

\* The page an offset is on begins less than a page before it.
LEMMA AlignIs ==
    ASSUME M!MapConstants, NEW off \in Nat
    PROVE  M!AlignToPage(off) \in Nat /\ M!AlignToPage(off) <= off /\ off - M!AlignToPage(off) < Page
<1>1. PICK p \in Nat \ {0} : p = Page
    BY DEF M!MapConstants
<1>2. off \div p \in Nat
    OBVIOUS
<1>3. (off \div p) * p <= off
    OBVIOUS
<1>4. off < (off \div p) * p + p
    OBVIOUS
<1>5. PICK q \in Nat : q = (off \div p) * p
    BY <1>2
<1> QED BY <1>1, <1>3, <1>4, <1>5 DEF M!AlignToPage

\* What can be mapped.
Mappable(c) == c.off \in Nat /\ c.size \in Nat \ {0} /\ c.mode \in MapModes

\* One mapping more, the last.
Adds(s, x) ==
    /\ MapShape(x) /\ x.file = s.file /\ Len(x.maps) = Len(s.maps) + 1 /\ x.o = Len(x.maps) /\ x.maps[x.o].valid
    /\ \A i \in 1 .. Len(s.maps) : x.maps[i] = s.maps[i]

LEMMA MmapPlace ==
    ASSUME NEW s, MapShape(s), NEW from \in Nat, NEW len \in Nat, NEW shared,
           NEW x \in M!SysMmap(s, from, len, shared)
    PROVE  \/ x.e # "OK" /\ Touches(s, x)
           \/ /\ MapShape(x) /\ x.file = s.file /\ x.maps = s.maps /\ x.e = s.e
              /\ x.o \in 1 .. Places /\ s.kern[x.o].len = 0
              /\ x.kern[x.o].from = from /\ x.kern[x.o].len = len
              /\ \A b \in 1 .. Places : b # x.o => x.kern[b] = s.kern[b]
<1>1. CASE M!FreePlaces(s) = {}
    <2>1. x \in M!Error(s, "ENOMEM")
        BY <1>1 DEF M!SysMmap
    <2>2. "ENOMEM" # "OK"
        OBVIOUS
    <2> QED BY <2>1, <2>2, ErrorTouches
<1>2. CASE M!FreePlaces(s) # {} /\ x \in M!May(s, "EACCES")
    <2>1. "EACCES" # "OK"
        OBVIOUS
    <2> QED BY <1>2, <2>1, MayTouches
<1>3. CASE M!FreePlaces(s) # {} /\ x \notin M!May(s, "EACCES")
    <2>1. M!FreePlaces(s) \in SUBSET Nat
        BY DEF M!FreePlaces
    <2>2. PICK a \in M!FreePlaces(s) : a = M!Min(M!FreePlaces(s))
        BY <1>3, <2>1, MapMin
    <2>3. a \in 1 .. Places /\ s.kern[a].len = 0
        BY DEF M!FreePlaces
    <2> DEFINE k == [from |-> from, len |-> len, shared |-> shared, own |-> << >>]
    <2>4. x = [s EXCEPT !.kern = [s.kern EXCEPT ![a] = k], !.o = a]
        BY <1>3, <2>2 DEF M!SysMmap
    <2>5. PlaceShape(k) /\ k.from = from /\ k.len = len
        BY DEF PlaceShape
    <2> HIDE DEF k
    <2>6. x = [file |-> s.file, kern |-> [s.kern EXCEPT ![a] = k], maps |-> s.maps,
               f |-> s.f, e |-> s.e, n |-> s.n, c |-> s.c, o |-> a]
        BY <2>4 DEF MapShape
    <2>7. x.file = s.file /\ x.kern = [s.kern EXCEPT ![a] = k] /\ x.maps = s.maps /\ x.e = s.e /\ x.o = a
          /\ x = [file |-> x.file, kern |-> x.kern, maps |-> x.maps,
                  f |-> x.f, e |-> x.e, n |-> x.n, c |-> x.c, o |-> x.o]
        BY <2>6
    <2>8. DOMAIN s.kern = 1 .. Places
        BY DEF MapShape
    <2>9. \A b \in 1 .. Places : x.kern[b] = IF b = a THEN k ELSE s.kern[b]
        BY <2>7, <2>8
    <2>10. x.kern = [b \in 1 .. Places |-> x.kern[b]]
        BY <2>7, <2>8
    <2>11. MapShape(x)
        BY <2>5, <2>7, <2>9, <2>10 DEF MapShape
    <2>12. x.kern[a] = k /\ \A b \in 1 .. Places : b # a => x.kern[b] = s.kern[b]
        BY <2>3, <2>9
    <2> QED BY <2>3, <2>5, <2>7, <2>11, <2>12
<1> QED BY <1>1, <1>2, <1>3

LEMMA EntityIs ==
    ASSUME M!MapConstants, NEW c, Mappable(c), NEW a \in Nat
    PROVE  /\ M!Entity(a, c) \in Ents /\ M!Entity(a, c).valid /\ M!Entity(a, c).a = a /\ InOrder(M!Entity(a, c))
           /\ M!Entity(a, c).cap = c.size /\ M!Entity(a, c).off = c.off /\ 0 < M!Entity(a, c).raw
           /\ M!Entity(a, c).raw = c.size + c.off - M!AlignToPage(c.off)
           /\ M!AlignToPage(c.off) + M!Entity(a, c).adj = c.off /\ M!Entity(a, c).adj < Page
           /\ M!AlignToPage(c.off) \in Nat /\ c.size + c.off - M!AlignToPage(c.off) \in Nat
<1>1. PICK off \in Nat, size \in Nat \ {0} : off = c.off /\ size = c.size
    BY DEF Mappable
<1>2. PICK al \in Nat : al = M!AlignToPage(off) /\ al <= off /\ off - al < Page
    BY AlignIs
<1>3. off - al \in Nat /\ size + off - al \in Nat /\ 0 < size + off - al /\ al + (off - al) = off /\ size \in Nat
    BY <1>2
<1>4. PICK adj \in Nat, raw \in Nat : adj = off - al /\ raw = size + off - al
    BY <1>3
<1>5. M!Entity(a, c) = [valid |-> TRUE, a |-> a, cap |-> size, adj |-> adj, raw |-> raw,
                        lim |-> size, pos |-> 0, mode |-> c.mode, off |-> off]
    BY <1>1, <1>2, <1>4 DEF M!Entity
<1>6. c.mode \in MapModes
    BY DEF Mappable
<1>7. M!Entity(a, c) \in Ents
    BY <1>3, <1>5, <1>6 DEF Ents
<1>8. InOrder(M!Entity(a, c))
    BY <1>3, <1>5 DEF InOrder
<1> QED BY <1>1, <1>2, <1>3, <1>4, <1>5, <1>7, <1>8

LEMMA MapPagesAdd ==
    ASSUME M!MapConstants, NEW s, MapShape(s), NEW c, Mappable(c), M!Required(c) <= Len(s.file), s.e = "OK",
           NEW x \in M!MapPages(s, c)
    PROVE  \/ x.e # "OK" /\ Touches(s, x)
           \/ /\ x.e = "OK" /\ Adds(s, x)
              /\ \A D \in SUBSET (1 .. Len(s.maps)) : Sound(s, D) => Sound(x, D)
<1>1. PICK al \in Nat, raw \in Nat : al = M!AlignToPage(c.off) /\ raw = c.size + c.off - M!AlignToPage(c.off)
    <2>1. 0 \in Nat
        OBVIOUS
    <2> QED BY <2>1, EntityIs
<1>2. PICK y \in M!SysMmap(s, al, raw, M!GetMmapProtFlags(c.mode)) :
         x \in IF y.e = "OK" THEN M!Constructor(y, c) ELSE {y}
    BY <1>1 DEF M!MapPages, M!Next2
<1>3. CASE y.e # "OK"
    <2>1. x = y
        BY <1>2, <1>3
    <2>2. Touches(s, y) \/ y.e = s.e
        BY MmapPlace
    <2> QED BY <1>3, <2>1, <2>2
<1>4. CASE y.e = "OK"
    <2>1. /\ MapShape(y) /\ y.file = s.file /\ y.maps = s.maps /\ y.e = s.e
          /\ y.o \in 1 .. Places /\ s.kern[y.o].len = 0
          /\ y.kern[y.o].from = al /\ y.kern[y.o].len = raw
          /\ \A b \in 1 .. Places : b # y.o => y.kern[b] = s.kern[b]
        BY <1>2, <1>4, MmapPlace
    <2>2. PICK a \in 1 .. Places : a = y.o
        BY <2>1
    <2>3. PICK m \in Ents : /\ m = M!Entity(a, c) /\ m.valid /\ m.a = a /\ InOrder(m) /\ m.cap = c.size
          /\ m.off = c.off /\ 0 < m.raw
                            /\ m.raw = raw /\ al + m.adj = c.off /\ m.adj < Page
        <3>1. a \in Nat
            BY <2>2
        <3> QED BY <1>1, <3>1, EntityIs
    <2>4. CASE x \in UNION {M!SysMunmap(z, y.o) : z \in M!May(y, "ENOMEM")}
        <3>1. PICK z \in M!May(y, "ENOMEM") : x \in M!SysMunmap(z, a)
            BY <2>2, <2>4
        <3>2. Touches(y, z) /\ z.e = "ENOMEM" /\ z.kern = y.kern /\ z.maps = y.maps
            BY <2>1, MayTouches
        <3>3. MapShape(z)
            BY <3>2 DEF Touches
        <3>4. /\ MapShape(x) /\ x.file = z.file /\ x.maps = z.maps /\ x.e = z.e
              /\ \A b \in 1 .. Places : x.kern[b] = IF b = a THEN M!Unmapped ELSE z.kern[b]
            BY <3>1, <3>3, MunmapPages
        <3>5. Len(x.file) = Len(s.file) /\ x.maps = s.maps
            BY <2>1, <3>2, <3>4 DEF Touches
        <3>6. \A b \in 1 .. Places : x.kern[b].len = s.kern[b].len
              /\ (s.kern[b].len > 0 => x.kern[b].from = s.kern[b].from)
            BY <2>1, <2>2, <3>2, <3>4 DEF M!Unmapped
        <3>7. Touches(s, x)
            BY <3>4, <3>5, <3>6, MapLens DEF Touches, SameMapping
        <3>8. x.e # "OK"
            BY <3>2, <3>4
        <3> QED BY <3>7, <3>8
    <2>5. CASE x \notin UNION {M!SysMunmap(z, y.o) : z \in M!May(y, "ENOMEM")}
        <3>1. x = [y EXCEPT !.maps = Append(s.maps, m), !.o = Len(s.maps) + 1]
            BY <1>2, <1>4, <2>1, <2>2, <2>3, <2>5 DEF M!Constructor
        <3>2. x = [file |-> y.file, kern |-> y.kern, maps |-> Append(s.maps, m),
                   f |-> y.f, e |-> y.e, n |-> y.n, c |-> y.c, o |-> Len(s.maps) + 1]
            BY <2>1, <3>1 DEF MapShape
        <3>3. /\ x.file = s.file /\ x.kern = y.kern /\ x.maps = Append(s.maps, m) /\ x.e = "OK"
              /\ x.o = Len(s.maps) + 1
              /\ x = [file |-> x.file, kern |-> x.kern, maps |-> x.maps,
                      f |-> x.f, e |-> x.e, n |-> x.n, c |-> x.c, o |-> x.o]
            BY <1>4, <2>1, <3>2
        <3>4. PICK n \in Nat : n = Len(s.maps)
            BY MapLens
        <3>5. /\ x.maps \in Seq(Ents) /\ Len(x.maps) = n + 1 /\ x.maps[n + 1] = m
              /\ \A i \in 1 .. n : x.maps[i] = s.maps[i]
            <4>1. s.maps \in Seq(Ents)
                BY DEF MapShape
            <4> QED BY <3>3, <3>4, <4>1, AppendProperties
        <3>6. \A i \in 1 .. (n + 1) : i = n + 1 \/ i \in 1 .. n
            OBVIOUS
        <3>7. MapShape(x)
            <4>1. \A i \in 1 .. (n + 1) : x.maps[i].valid => x.maps[i].a \in 1 .. Places
                <5>1. \A i \in 1 .. n : s.maps[i].valid => s.maps[i].a \in 1 .. Places
                    BY <3>4 DEF MapShape
                <5> QED BY <2>3, <3>5, <3>6, <5>1
            <4> QED BY <2>1, <3>3, <3>5, <4>1 DEF MapShape
        <3>8. Adds(s, x)
            BY <2>3, <3>3, <3>4, <3>5, <3>7 DEF Adds
        <3>9. ASSUME NEW D \in SUBSET (1 .. Len(s.maps)), Sound(s, D) PROVE Sound(x, D)
            <4>1. \A i \in 1 .. n : (Holds(x, D, i) <=> Holds(s, D, i))
                  /\ (Holds(s, D, i) => s.maps[i].a \in 1 .. Places /\ s.maps[i].a # a)
                <5>1. \A i \in 1 .. n : Holds(s, D, i) => s.maps[i].a # a
                    <6> SUFFICES ASSUME NEW i \in 1 .. n, Holds(s, D, i), s.maps[i].a = a PROVE FALSE
                        OBVIOUS
                    <6>1. Backed(s, s.maps[i]) /\ s.kern[a].len = 0
                        BY <2>1, <2>2, <3>4, <3>9 DEF Sound
                    <6> QED BY <6>1 DEF Backed
                <5> QED BY <3>4, <3>5, <5>1 DEF Holds, MapShape
            <4>2. Holds(x, D, n + 1)
                BY <2>3, <3>4, <3>5, <3>9 DEF Holds
            <4>3. Backed(x, m)
                BY <2>1, <2>2, <2>3, <3>3 DEF Backed, M!Required
            <4>4. \A i \in 1 .. n : Holds(s, D, i) => Backed(x, x.maps[i])
                <5> TAKE i \in 1 .. n
                <5> HAVE Holds(s, D, i)
                <5>1. PICK w : w = s.maps[i] /\ x.maps[i] = w /\ w.a \in 1 .. Places /\ w.a # a /\ Backed(s, w)
                    BY <3>4, <3>5, <3>9, <4>1 DEF Sound
                <5>2. x.kern[w.a] = s.kern[w.a] /\ x.file = s.file
                    BY <2>1, <2>2, <3>3, <5>1
                <5>3. Backed(x, w)
                    BY <5>1, <5>2 DEF Backed
                <5> QED BY <5>1, <5>3
            <4>5. \A i \in 1 .. (n + 1) : Holds(x, D, i) => Backed(x, x.maps[i])
                BY <3>5, <3>6, <4>1, <4>3, <4>4
            <4>6. \A i, j \in 1 .. (n + 1) : Holds(x, D, i) /\ Holds(x, D, j) /\ x.maps[i].a = x.maps[j].a => i = j
                <5> TAKE i, j \in 1 .. (n + 1)
                <5> HAVE Holds(x, D, i) /\ Holds(x, D, j) /\ x.maps[i].a = x.maps[j].a
                <5>1. CASE i \in 1 .. n /\ j \in 1 .. n
                    BY <3>4, <3>5, <3>9, <4>1, <5>1 DEF Sound
                <5>2. CASE i = n + 1 /\ j \in 1 .. n
                    BY <2>3, <3>5, <4>1, <5>2
                <5>3. CASE i \in 1 .. n /\ j = n + 1
                    BY <2>3, <3>5, <4>1, <5>3
                <5> QED BY <3>6, <5>1, <5>2, <5>3
            <4>7. ASSUME NEW b \in 1 .. Places, x.kern[b].len > 0
                  PROVE  \E i \in 1 .. (n + 1) : Holds(x, D, i) /\ x.maps[i].a = b
                <5>1. CASE b = a
                    BY <2>3, <3>5, <4>2, <5>1
                <5>2. CASE b # a
                    <6>1. s.kern[b].len > 0
                        BY <2>1, <2>2, <3>3, <4>7, <5>2
                    <6>2. PICK i \in 1 .. n : Holds(s, D, i) /\ s.maps[i].a = b
                        BY <3>4, <3>9, <6>1 DEF Sound
                    <6> QED BY <3>5, <4>1, <6>2
                <5> QED BY <5>1, <5>2
            <4> QED BY <3>5, <4>5, <4>6, <4>7 DEF Sound
        <3> QED BY <3>3, <3>8, <3>9
    <2> QED BY <2>4, <2>5
<1> QED BY <1>3, <1>4

LEMMA StatSizeIs ==
    ASSUME NEW s, MapShape(s), NEW c, c.off \in Int, c.size \in Int, c.mode \in MapModes, NEW x \in M!StatSize(s, c)
    PROVE  (x.e # "OK" /\ Touches(s, x)) \/ (x = s /\ Mappable(c))
<1>1. CASE M!ValidateMmapParams(c) = "OK"
    <2>1. Mappable(c)
        BY <1>1 DEF M!ValidateMmapParams, Mappable
    <2>2. x = s \/ x \in M!May(s, "EIO")
        BY <1>1 DEF M!StatSize, M!ValidateFile
    <2>3. "EIO" # "OK"
        OBVIOUS
    <2> QED BY <2>1, <2>2, <2>3, MayTouches
<1>2. CASE M!ValidateMmapParams(c) # "OK"
    <2>1. x \in M!Error(s, M!ValidateMmapParams(c))
        BY <1>2 DEF M!StatSize
    <2> QED BY <1>2, <2>1, ErrorTouches
<1> QED BY <1>1, <1>2

LEMMA ExpandGrows ==
    ASSUME NEW s, MapShape(s), NEW c, Mappable(c), NEW x \in M!ExpandFileIfNeeded(s, c, Len(s.file))
    PROVE  Grows(s, x) /\ (x.e = "EIO" \/ (x.e = s.e /\ M!Required(c) <= Len(x.file)))
<1>1. PICK r \in Nat, n \in Nat : r = M!Required(c) /\ n = Len(s.file)
    <2>1. M!Required(c) \in Nat
        BY DEF M!Required, Mappable
    <2> QED BY <2>1, MapLens
<1>2. CASE r <= n
    BY <1>1, <1>2, MapLens DEF M!ExpandFileIfNeeded, Grows
<1>3. CASE ~ (r <= n)
    <2>1. x \in M!SysFtruncate(s, r)
        BY <1>1, <1>3 DEF M!ExpandFileIfNeeded
    <2>2. Len(s.file) <= r
        BY <1>1, <1>3
    <2>3. Grows(s, x) /\ (x.e = "EIO" \/ (x.e = s.e /\ Len(x.file) = r))
        BY <2>1, <2>2, FtruncateTouches
    <2> QED BY <1>1, <2>3
<1> QED BY <1>2, <1>3

\* The last mapping goes when there is no object for it.
Drops(s, x) ==
    /\ MapShape(x) /\ Len(x.file) = Len(s.file) /\ Len(x.maps) = Len(s.maps) - 1
    /\ \A i \in 1 .. Len(x.maps) : x.maps[i] = s.maps[i]

LEMMA WrappedIs ==
    ASSUME NEW s, MapShape(s), Len(s.maps) > 0, s.o = Len(s.maps), s.maps[s.o].valid,
           NEW D \in SUBSET (1 .. (Len(s.maps) - 1)), Sound(s, D), NEW e, NEW x \in M!Wrapped(s, e)
    PROVE  x = s \/ (Drops(s, x) /\ Sound(x, D))
<1> SUFFICES ASSUME x # s PROVE Drops(s, x) /\ Sound(x, D)
    OBVIOUS
<1>1. PICK z \in M!May(s, e) : x \in M!Deleted(z, s.o)
    BY DEF M!Wrapped
<1>2. Touches(s, z) /\ z.kern = s.kern /\ z.maps = s.maps /\ MapShape(z)
    BY MayTouches DEF Touches
<1>3. PICK o \in Nat : o = Len(s.maps) /\ o > 0
    BY MapLens
<1>4. Sound(z, D) /\ Holds(z, D, o) /\ o \in 1 .. Len(z.maps)
    <2>1. Sound(z, D)
        BY <1>2, SoundTouched
    <2>2. o \notin D
        BY <1>3
    <2> QED BY <1>2, <1>3, <2>1, <2>2 DEF Holds
<1>5. PICK y \in M!SysMunmap(z, z.maps[o].a) : x = [y EXCEPT !.maps = M!Front(y.maps), !.o = 0]
    BY <1>1, <1>3 DEF M!Deleted
<1>6. MapShape(y) /\ y.file = z.file /\ y.maps = z.maps /\ Sound(y, D \cup {o})
    <2>1. MapShape(z) /\ Sound(z, D) /\ Holds(z, D, o) /\ o \in 1 .. Len(z.maps) /\ y \in M!SysMunmap(z, z.maps[o].a)
        BY <1>2, <1>4, <1>5
    <2> QED BY <2>1, SoundMunmapped, Zenon
<1>7. PICK q \in Seq(Ents) : q = M!Front(y.maps) /\ Len(q) = o - 1 /\ \A i \in 1 .. (o - 1) : q[i] = s.maps[i]
    <2>1. M!Front(y.maps) = SubSeq(s.maps, 1, o - 1)
        BY <1>2, <1>3, <1>6 DEF M!Front
    <2>2. \A i \in 1 .. (o - 1) : s.maps[i] \in Ents
        BY <1>3, MapLens
    <2>0. o - 1 \in Nat
        BY <1>3
    <2>3. PICK k \in Nat : k = o - 1
        BY <2>0
    <2>4. /\ SubSeq(s.maps, 1, k) \in Seq(Ents)
          /\ Len(SubSeq(s.maps, 1, k)) = IF 1 <= k THEN k - 1 + 1 ELSE 0
          /\ \A i \in 1 .. (k - 1 + 1) : SubSeq(s.maps, 1, k)[i] = s.maps[1 + i - 1]
        BY <2>2, <2>3, SubSeqProperties
    <2>5. (IF 1 <= k THEN k - 1 + 1 ELSE 0) = k /\ k - 1 + 1 = k /\ \A i \in 1 .. k : 1 + i - 1 = i
        OBVIOUS
    <2>6. PICK p : p = SubSeq(s.maps, 1, k)
        OBVIOUS
    <2>7. p \in Seq(Ents) /\ Len(p) = k /\ \A i \in 1 .. k : p[i] = s.maps[i]
        BY <2>4, <2>5, <2>6
    <2> QED BY <2>1, <2>3, <2>6, <2>7
<1>8. x = [file |-> y.file, kern |-> y.kern, maps |-> q, f |-> y.f, e |-> y.e, n |-> y.n, c |-> y.c, o |-> 0]
    BY <1>5, <1>6, <1>7 DEF MapShape
<1>9. x.file = y.file /\ x.kern = y.kern /\ x.maps = q
      /\ x = [file |-> x.file, kern |-> x.kern, maps |-> x.maps,
              f |-> x.f, e |-> x.e, n |-> x.n, c |-> x.c, o |-> x.o]
    BY <1>8
<1>10. \A i \in 1 .. (o - 1) : i \in 1 .. Len(y.maps) /\ i # o /\ x.maps[i] = y.maps[i]
    BY <1>2, <1>3, <1>6, <1>7, <1>9
<1>11. MapShape(x)
    <2>1. \A i \in 1 .. Len(x.maps) : x.maps[i].valid => x.maps[i].a \in 1 .. Places
        <3>1. Len(x.maps) = o - 1
            BY <1>7, <1>9
        <3>2. \A i \in 1 .. (o - 1) : y.maps[i].valid => y.maps[i].a \in 1 .. Places
            BY <1>6, <1>10 DEF MapShape
        <3> QED BY <1>10, <3>1, <3>2
    <2> QED BY <1>6, <1>7, <1>9, <2>1 DEF MapShape
<1>12. Drops(s, x)
    BY <1>2, <1>3, <1>6, <1>7, <1>9, <1>11 DEF Drops, Touches
<1>13. Len(x.maps) = o - 1
    BY <1>7, <1>9
<1>14. \A i \in 1 .. (o - 1) : Holds(x, D, i) <=> Holds(y, D \cup {o}, i)
    BY <1>10 DEF Holds
<1>15. \A i \in 1 .. (o - 1) : Holds(x, D, i) => Backed(x, x.maps[i])
    <2> TAKE i \in 1 .. (o - 1)
    <2> HAVE Holds(x, D, i)
    <2>1. Backed(y, y.maps[i])
        BY <1>6, <1>10, <1>14 DEF Sound
    <2> QED BY <1>9, <1>10, <2>1 DEF Backed
<1>16. \A i, j \in 1 .. (o - 1) : Holds(x, D, i) /\ Holds(x, D, j) /\ x.maps[i].a = x.maps[j].a => i = j
    <2> TAKE i, j \in 1 .. (o - 1)
    <2> HAVE Holds(x, D, i) /\ Holds(x, D, j) /\ x.maps[i].a = x.maps[j].a
    <2>1. Holds(y, D \cup {o}, i) /\ Holds(y, D \cup {o}, j) /\ y.maps[i].a = y.maps[j].a
        BY <1>10, <1>14
    <2>2. i \in 1 .. Len(y.maps) /\ j \in 1 .. Len(y.maps)
        BY <1>10
    <2> QED BY <1>6, <2>1, <2>2 DEF Sound
<1>17. ASSUME NEW b \in 1 .. Places, x.kern[b].len > 0
       PROVE  \E i \in 1 .. (o - 1) : Holds(x, D, i) /\ x.maps[i].a = b
    <2>1. y.kern[b].len > 0
        BY <1>9, <1>17
    <2>2. PICK i \in 1 .. Len(y.maps) : Holds(y, D \cup {o}, i) /\ y.maps[i].a = b
        BY <1>6, <2>1 DEF Sound
    <2>3. i # o /\ Len(y.maps) = o
        BY <1>2, <1>3, <1>6, <2>2 DEF Holds
    <2>4. i \in 1 .. (o - 1)
        BY <1>3, <2>3
    <2> QED BY <1>10, <1>14, <2>2, <2>4
<1>18. Sound(x, D)
    BY <1>13, <1>15, <1>16, <1>17 DEF Sound
<1> QED BY <1>12, <1>18

LEMMA DoMmapIs ==
    ASSUME M!MapConstants, NEW s, MapShape(s), s.e = "OK", NEW c, c.off \in Int, c.size \in Int, c.mode \in MapModes,
           NEW D \in SUBSET (1 .. Len(s.maps)), Sound(s, D), NEW x \in M!DoMmap(s, c)
    PROVE  /\ MapShape(x) /\ Sound(x, D)
           /\ \/ x.e # "OK" /\ Len(x.maps) = Len(s.maps)
              \/ x.e = "OK" /\ Len(x.maps) = Len(s.maps) + 1 /\ x.o = Len(x.maps) /\ x.maps[x.o].valid
<1>1. PICK y \in M!StatSize(s, c) :
         x \in IF y.e = "OK" THEN M!Next2(M!ExpandFileIfNeeded(y, c, Len(y.file)), LAMBDA r : M!MapPages(r, c)) ELSE {y}
    BY DEF M!DoMmap, M!Next2
<1>2. CASE y.e # "OK"
    <2>1. x = y /\ Touches(s, x)
        BY <1>1, <1>2, StatSizeIs
    <2>2. MapShape(x) /\ Len(x.maps) = Len(s.maps)
        BY <2>1 DEF Touches
    <2> QED BY <1>2, <2>1, <2>2, SoundTouched
<1>3. CASE y.e = "OK"
    <2>1. y = s /\ Mappable(c)
        BY <1>1, <1>3, StatSizeIs
    <2>2. PICK r \in M!ExpandFileIfNeeded(s, c, Len(s.file)) : x \in IF r.e = "OK" THEN M!MapPages(r, c) ELSE {r}
        BY <1>1, <1>3, <2>1 DEF M!Next2
    <2>3. Grows(s, r) /\ (r.e = "EIO" \/ (r.e = s.e /\ M!Required(c) <= Len(r.file)))
        BY <2>1, <2>2, ExpandGrows
    <2>4. MapShape(r) /\ Sound(r, D) /\ Len(r.maps) = Len(s.maps)
        BY <2>3, SoundGrown DEF Grows
    <2>5. CASE r.e # "OK"
        BY <2>2, <2>4, <2>5
    <2>6. CASE r.e = "OK"
        <3>1. x \in M!MapPages(r, c) /\ M!Required(c) <= Len(r.file)
            BY <2>2, <2>3, <2>6
        <3>2. \/ x.e # "OK" /\ Touches(r, x)
              \/ x.e = "OK" /\ Adds(r, x) /\ Sound(x, D)
            BY <2>1, <2>4, <2>6, <3>1, MapPagesAdd
        <3>3. CASE x.e # "OK" /\ Touches(r, x)
            BY <2>4, <3>3, SoundTouched DEF Touches
        <3>4. CASE x.e = "OK" /\ Adds(r, x) /\ Sound(x, D)
            BY <2>4, <3>4 DEF Adds
        <3> QED BY <3>2, <3>3, <3>4
    <2> QED BY <2>5, <2>6
<1> QED BY <1>2, <1>3

LEMMA MmapIs ==
    ASSUME M!MapConstants, NEW s, MapShape(s), s.e = "OK", NEW c, c.off \in Int, c.size \in Int, c.mode \in MapModes,
           NEW D \in SUBSET (1 .. Len(s.maps)), Sound(s, D), NEW x, x \in M!NapiMap(c, s)
           \/ x \in M!AniMap(c, s), c.op = "mmap"
    PROVE  MapShape(x) /\ Sound(x, D) /\ Len(s.maps) <= Len(x.maps)
<1>1. x \in M!MmapSync(s, c) \/ x \in M!AniMmapSync(s, c)
    BY DEF M!NapiMap, M!AniMap
<1>2. x \in M!Error(s, "EINVAL") \/ \E y \in M!DoMmap(s, c) : x \in IF y.e = "OK" THEN M!Wrapped(y, "UNKNOWN")
      ELSE {y}
    BY <1>1 DEF M!MmapSync, M!AniMmapSync, M!Given, M!Next2, M!InstantiateFileMapping
<1>3. CASE x \in M!Error(s, "EINVAL")
    <2>1. Touches(s, x)
        BY <1>3, ErrorTouches
    <2>2. Len(x.maps) = Len(s.maps) /\ Len(s.maps) \in Nat
        BY <2>1, MapLens DEF Touches
    <2> QED BY <2>1, <2>2, SoundTouched DEF Touches
<1>4. ASSUME NEW y \in M!DoMmap(s, c), x \in IF y.e = "OK" THEN M!Wrapped(y, "UNKNOWN") ELSE {y}
      PROVE  MapShape(x) /\ Sound(x, D) /\ Len(s.maps) <= Len(x.maps)
    <2>1. /\ MapShape(y) /\ Sound(y, D)
          /\ \/ y.e # "OK" /\ Len(y.maps) = Len(s.maps)
             \/ y.e = "OK" /\ Len(y.maps) = Len(s.maps) + 1 /\ y.o = Len(y.maps) /\ y.maps[y.o].valid
        BY DoMmapIs
    <2>2. PICK n \in Nat : n = Len(s.maps)
        BY MapLens
    <2>3. CASE y.e # "OK"
        BY <1>4, <2>1, <2>2, <2>3
    <2>4. CASE y.e = "OK"
        <3>1. Len(y.maps) = n + 1 /\ y.o = Len(y.maps) /\ y.maps[y.o].valid /\ x \in M!Wrapped(y, "UNKNOWN")
            BY <1>4, <2>1, <2>2, <2>4
        <3>2. D \in SUBSET (1 .. (Len(y.maps) - 1)) /\ Len(y.maps) > 0
            BY <2>2, <3>1
        <3>3. x = y \/ (Drops(y, x) /\ Sound(x, D))
            BY <2>1, <3>1, <3>2, WrappedIs
        <3>4. CASE x = y
            BY <2>1, <2>2, <3>1, <3>4
        <3>5. CASE Drops(y, x) /\ Sound(x, D)
            BY <2>2, <3>1, <3>5 DEF Drops
        <3> QED BY <3>3, <3>4, <3>5
    <2> QED BY <2>3, <2>4
<1> QED BY <1>2, <1>3, <1>4

LEMMA UnmapIs ==
    ASSUME NEW s, MapShape(s), s.e = "OK", NEW o \in 1 .. Len(s.maps), NEW D, o \notin D, Sound(s, D),
           NEW x \in M!CoreUnmap(s, o)
    PROVE  /\ MapShape(x) /\ Sound(x, D) /\ Len(x.file) = Len(s.file) /\ Len(x.maps) = Len(s.maps)
           /\ \A i \in 1 .. Len(s.maps) : i # o => x.maps[i] = s.maps[i]
<1>1. PICK y \in M!Pages(s, o) : x \in IF y.e = "OK" THEN {IF s.maps[o].valid THEN M!Cleared(y, o) ELSE y} ELSE {y}
    BY DEF M!CoreUnmap, M!Next2
<1>2. CASE ~s.maps[o].valid
    <2>1. x = s
        BY <1>1, <1>2 DEF M!Pages
    <2> QED BY <2>1
<1>3. CASE s.maps[o].valid /\ y \in M!May(s, "EIO")
    <2>1. Touches(s, y) /\ y.maps = s.maps /\ y.e = "EIO"
        BY <1>3, MayTouches
    <2>2. x = y
        BY <1>1, <2>1
    <2>3. Sound(x, D)
        BY <2>1, <2>2, SoundTouched
    <2> QED BY <2>1, <2>2, <2>3 DEF Touches
<1>4. CASE s.maps[o].valid /\ y \notin M!May(s, "EIO")
    <2>1. y \in M!SysMunmap(s, s.maps[o].a) /\ Holds(s, D, o)
        BY <1>1, <1>4 DEF M!Pages, Holds
    <2>2. MapShape(y) /\ y.file = s.file /\ y.maps = s.maps /\ y.e = s.e /\ Sound(y, D \cup {o})
        BY <2>1, SoundMunmapped
    <2>3. x = M!Cleared(y, o)
        BY <1>1, <1>4, <2>2
    <2>4. /\ MapShape(x) /\ x.file = y.file /\ Len(x.maps) = Len(y.maps) /\ Sound(x, D)
          /\ \A i \in 1 .. Len(y.maps) : i # o => x.maps[i] = y.maps[i]
        <3>1. PICK E : E = D \cup {o}
            OBVIOUS
        <3>2. o \in 1 .. Len(y.maps) /\ MapShape(y) /\ Sound(y, E) /\ WithoutOne(D, E, o)
            BY <2>2, <3>1 DEF WithoutOne
        <3> QED BY <2>3, <3>2, SoundCleared
    <2> QED BY <2>2, <2>4
<1> QED BY <1>2, <1>3, <1>4

----------------------------------------------------------------------------
(* The calls that the workers are at.                                      *)
Made(t) == t.c.op = "mmap" /\ t.stage = "done" /\ t.e = "OK"
ArgsOf(c) == CallArgs(c) /\ c.off \in Int /\ c.size \in Int /\ c.mode \in MapModes
TaskOk(s, t) ==
    /\ t = [c |-> t.c, id |-> t.id, stage |-> t.stage, e |-> t.e, o |-> t.o, len |-> t.len] /\ ArgsOf(t.c)
    /\ \/ t.c.op = "mmap" /\ t.c.o = 0 /\ t.stage \in {"stat", "grow", "map", "done"}
       \/ t.c.op = "msync" /\ t.c.o \in 1 .. Len(s.maps) /\ t.stage \in {"msync", "done"}
       \/ t.c.op = "unmap" /\ t.c.o \in 1 .. Len(s.maps) /\ t.stage \in {"munmap", "clear", "done"}
    /\ t.stage \in {"grow", "map"} => Mappable(t.c)
    /\ t.stage = "grow" => t.len = Len(s.file)
    /\ t.stage = "map" => M!Required(t.c) <= Len(s.file)
    /\ Made(t) => t.o = Len(s.maps) /\ Len(s.maps) > 0 /\ s.maps[t.o].valid
Alone(T) ==
    /\ \A t, u \in T : t.c.op = "mmap" /\ u.c.op = "mmap" => t = u
    /\ \A t, u \in T : t.c.op = "unmap" /\ t.c.o = u.c.o => t = u
    /\ \A t, u \in T : Made(t) => u.c.o # t.o
Tasks(s, T) == Alone(T) /\ \A t \in T : TaskOk(s, t)
Dying(T) == {t.c.o : t \in {u \in T : u.stage = "clear"}}

\* Other positions, limits and bytes.
LEMMA TasksTouched ==
    ASSUME NEW s, NEW x, NEW T, Tasks(s, T), Len(x.file) = Len(s.file), Len(x.maps) = Len(s.maps),
           \A t \in T : Made(t) => x.maps[t.o].valid
    PROVE  Tasks(x, T)
BY DEF Tasks, TaskOk

\* No mmap among them: what matters is that the mappings are still there.
LEMMA TasksLeft ==
    ASSUME NEW s, MapShape(s), NEW x, MapShape(x), NEW T, Tasks(s, T), \A t \in T : t.c.op # "mmap"
           /\ t.c.o <= Len(x.maps)
    PROVE  Tasks(x, T)
<1>1. PICK n \in Nat, m \in Nat : n = Len(s.maps) /\ m = Len(x.maps)
    BY MapLens
<1>2. ASSUME NEW t \in T PROVE TaskOk(x, t)
    <2>1. TaskOk(s, t) /\ t.c.op # "mmap" /\ t.c.o <= m
        BY <1>1 DEF Tasks
    <2>2. t.c.o \in 1 .. n
        BY <1>1, <2>1 DEF TaskOk
    <2>3. t.c.o \in 1 .. m
        BY <2>1, <2>2
    <2>4. ~Made(t) /\ t.stage \notin {"grow", "map"}
        BY <2>1 DEF TaskOk, Made
    <2> QED BY <1>1, <2>1, <2>3, <2>4 DEF TaskOk
<1> QED BY <1>2 DEF Tasks

LEMMA TasksSome == ASSUME NEW s, NEW T, Tasks(s, T), NEW U \in SUBSET T PROVE Tasks(s, U)
BY DEF Tasks, Alone

\* A task goes on.
LEMMA TasksGoOn ==
    ASSUME NEW s, NEW x, NEW T, Tasks(s, T), NEW t \in T, Tasks(x, T \ {t}), NEW w, w.c = t.c, TaskOk(x, w),
           Made(w) => \A u \in T : u.c.o # w.o
    PROVE  Tasks(x, (T \ {t}) \cup {w})
<1>1. Alone(T) /\ Alone(T \ {t})
    BY DEF Tasks
<1>2. \A u \in T \ {t} : (w.c.op = "mmap" => u.c.op # "mmap")
      /\ (w.c.op = "unmap" \/ u.c.op = "unmap" => u.c.o # w.c.o)
      /\ (Made(u) => w.c.o # u.o)
    BY <1>1 DEF Alone
<1>3. Alone((T \ {t}) \cup {w})
    BY <1>1, <1>2 DEF Alone
<1> QED BY <1>3 DEF Tasks

\* The mappings whose pages are gone are those of one unmap each.
LEMMA DyingIs ==
    ASSUME NEW s, NEW T, Tasks(s, T), NEW t \in T
    PROVE  /\ Dying(T) \in SUBSET (1 .. Len(s.maps))
           /\ t.c.op = "unmap" => t.c.o \notin Dying(T \ {t})
           /\ t.stage = "clear" => t.c.o \notin Dying(T \ {t}) /\ Dying(T) = Dying(T \ {t}) \cup {t.c.o}
<1>1. \A u \in T : u.stage = "clear" => u.c.op = "unmap" /\ u.c.o \in 1 .. Len(s.maps)
    BY DEF Tasks, TaskOk
<1>2. Dying(T) \in SUBSET (1 .. Len(s.maps))
    BY <1>1 DEF Dying
<1>3. t.c.op = "unmap" => t.c.o \notin Dying(T \ {t})
    BY <1>1 DEF Tasks, Alone, Dying
<1>4. t.stage = "clear" => Dying(T) = Dying(T \ {t}) \cup {t.c.o}
    BY DEF Dying
<1> QED BY <1>1, <1>2, <1>3, <1>4

LEMMA DyingSame ==
    ASSUME NEW T, NEW t, t.stage # "clear", NEW w, w.stage # "clear"
    PROVE  Dying((T \ {t}) \cup {w}) = Dying(T) /\ Dying(T \ {t}) = Dying(T)
BY DEF Dying

----------------------------------------------------------------------------
(* The steps.                                                              *)
GoodMaps(s, T) == MapShape(s) /\ s.e = "OK" /\ Sound(s, Dying(T)) /\ Tasks(s, T)

LEMMA PlainGood ==
    ASSUME NEW x, MapShape(x), NEW T, Sound(x, Dying(T)), Tasks(x, T) PROVE GoodMaps(M!Plain(x), T)
<1>1. Touches(x, M!Plain(x)) /\ M!Plain(x).maps = x.maps /\ M!Plain(x).file = x.file
    BY PlainTouches
<1>2. MapShape(M!Plain(x)) /\ M!Plain(x).e = "OK"
    BY <1>1 DEF Touches, M!Plain
<1>3. Sound(M!Plain(x), Dying(T))
    BY <1>1, SoundTouched
<1>4. Tasks(M!Plain(x), T)
    BY <1>1 DEF Tasks, TaskOk
<1> QED BY <1>2, <1>3, <1>4 DEF GoodMaps

LEMMA TouchedTasks == ASSUME NEW s, NEW x, NEW T, Tasks(s, T), Touches(s, x) PROVE Tasks(x, T)
<1>1. \A t \in T : Made(t) => x.maps[t.o].valid
    <2> TAKE t \in T
    <2> HAVE Made(t)
    <2>1. t.o = Len(s.maps) /\ Len(s.maps) > 0 /\ s.maps[t.o].valid /\ Len(x.maps) = Len(s.maps)
        BY DEF Tasks, TaskOk, Touches
    <2>2. PICK n \in Nat : n = Len(s.maps)
        BY <2>1, MapLens DEF Touches
    <2>3. t.o \in 1 .. Len(s.maps)
        BY <2>1, <2>2
    <2> QED BY <2>1, <2>3 DEF Touches, SameMapping
<1> QED BY <1>1, TasksTouched DEF Touches

LEMMA TouchedGood == ASSUME NEW s, NEW T, GoodMaps(s, T), NEW x, Touches(s, x) PROVE GoodMaps(M!Plain(x), T)
<1>1. Sound(x, Dying(T)) /\ Tasks(x, T) /\ MapShape(x)
    BY SoundTouched, TouchedTasks DEF GoodMaps, Touches
<1> QED BY <1>1, PlainGood

CallOps == Touching \cup {"mmap", "unmap"}
CallOk(c) ==
    /\ ArgsOf(c) /\ c.op \in CallOps
    /\ c.op = "mmap" => c.o = 0 /\ \A u \in todo : u.c.op # "mmap"
    /\ c.op # "mmap" => c.o \in 1 .. Len(st.maps) /\ \A u \in todo : Made(u) => u.o # c.o
    /\ \A u \in todo : u.c.o = c.o /\ c.o # 0 => c.op # "unmap" /\ u.c.op # "unmap"

LEMMA CallsAreOk ==
    ASSUME M!MapConstants, plan \in DOMAIN MapTable, MapShape(st), NEW t \in M!Doing.calls, NEW c \in M!CallsOf(t)
    PROVE  CallOk(c)
<1>1. t \in M!MapCalls
    BY DEF M!MapConstants, M!Doing
<1>2. t = [op |-> t.op, o |-> t.o, fd |-> t.fd, mode |-> t.mode, off |-> t.off,
           size |-> t.size, pos |-> t.pos, len |-> t.len, d |-> t.d]
      /\ t.op \in CallOps /\ ArgsOf(t) /\ t.o = 0
    BY <1>1 DEF M!MapCalls, CallOps, Touching, ArgsOf, CallArgs, MapModes
<1>3. M!Free(c)
    BY DEF M!CallsOf
<1>4. CASE t.op = "mmap"
    <2>1. c = t
        BY <1>4 DEF M!CallsOf
    <2> QED BY <1>2, <1>3, <1>4, <2>1 DEF CallOk, M!Free
<1>5. CASE t.op # "mmap"
    <2>1. PICK i \in M!Known : c = [t EXCEPT !.o = i]
        BY <1>5 DEF M!CallsOf
    <2>2. c = [op |-> t.op, o |-> i, fd |-> t.fd, mode |-> t.mode, off |-> t.off,
               size |-> t.size, pos |-> t.pos, len |-> t.len, d |-> t.d]
        BY <1>2, <2>1
    <2>3. i \in 1 .. Len(st.maps) /\ \A u \in todo : Made(u) => u.o # i
        BY MapLens DEF M!Known, Made
    <2>4. ArgsOf(c) /\ c.op = t.op /\ c.o = i
        BY <1>2, <2>2 DEF ArgsOf, CallArgs
    <2> QED BY <1>2, <1>3, <1>5, <2>3, <2>4 DEF CallOk, M!Free
<1> QED BY <1>4, <1>5

\* A call that is over when it returns.
LEMMA SyncGood ==
    ASSUME M!MapConstants, GoodMaps(st, todo), NEW c, CallOk(c), NEW x, x \in M!NapiMap(c, st)
           \/ x \in M!AniMap(c, st)
    PROVE  GoodMaps(M!Plain(x), todo)
<1> DEFINE D == Dying(todo)
<1>1. MapShape(st) /\ st.e = "OK" /\ Sound(st, D) /\ Tasks(st, todo) /\ CallArgs(c)
    BY DEF GoodMaps, CallOk, ArgsOf
<1>2. D \in SUBSET (1 .. Len(st.maps)) /\ \A i \in D : \E u \in todo : u.c.o = i /\ u.c.op = "unmap"
    BY <1>1 DEF Dying, Tasks, TaskOk
<1>3. CASE c.op \in Touching
    <2>1. c.o \in 1 .. Len(st.maps)
        BY <1>3 DEF CallOk, Touching
    <2>2. Touches(st, x)
        BY <1>1, <1>3, <2>1, NapiTouches, AniTouches
    <2> QED BY <2>2, TouchedGood
<1>4. CASE c.op = "mmap"
    <2>1. MapShape(x) /\ Sound(x, D) /\ Len(st.maps) <= Len(x.maps)
        BY <1>1, <1>2, <1>4, MmapIs DEF CallOk, ArgsOf
    <2>2. ASSUME NEW t \in todo PROVE t.c.op # "mmap" /\ t.c.o <= Len(x.maps)
        <3>1. t.c.op # "mmap" /\ TaskOk(st, t)
            BY <1>1, <1>4 DEF CallOk, Tasks
        <3>2. PICK n \in Nat, m \in Nat : n = Len(st.maps) /\ m = Len(x.maps) /\ n <= m
            BY <1>1, <2>1, MapLens
        <3>3. t.c.o \in 1 .. n
            BY <3>1, <3>2 DEF TaskOk
        <3> QED BY <3>1, <3>2, <3>3
    <2>3. Tasks(x, todo)
        BY <1>1, <2>1, <2>2, TasksLeft
    <2> QED BY <2>1, <2>3, PlainGood
<1>5. CASE c.op = "unmap"
    <2>1. x \in M!CoreUnmap(st, c.o) /\ c.o \in 1 .. Len(st.maps)
        BY <1>5 DEF M!NapiMap, M!AniMap, M!UnmapSync, M!AniUnmapSync, CallOk
    <2>2. c.o \notin D
        <3> SUFFICES ASSUME c.o \in D PROVE FALSE
            OBVIOUS
        <3>1. PICK u \in todo : u.c.o = c.o /\ u.c.op = "unmap"
            BY <1>2
        <3>2. c.o # 0
            BY <2>1
        <3> QED BY <1>5, <3>1, <3>2 DEF CallOk
    <2>3. /\ MapShape(x) /\ Sound(x, D) /\ Len(x.file) = Len(st.file) /\ Len(x.maps) = Len(st.maps)
          /\ \A i \in 1 .. Len(st.maps) : i # c.o => x.maps[i] = st.maps[i]
        BY <1>1, <2>1, <2>2, UnmapIs
    <2>4. \A t \in todo : Made(t) => x.maps[t.o].valid
        <3> TAKE t \in todo
        <3> HAVE Made(t)
        <3>1. t.o = Len(st.maps) /\ Len(st.maps) > 0 /\ st.maps[t.o].valid /\ t.o # c.o
            BY <1>1, <1>5 DEF Tasks, TaskOk, CallOk
        <3>2. t.o \in 1 .. Len(st.maps)
            BY <1>1, <3>1, MapLens
        <3> QED BY <2>3, <3>1, <3>2
    <2>5. Tasks(x, todo)
        BY <1>1, <2>3, <2>4, TasksTouched
    <2> QED BY <2>3, <2>5, PlainGood
<1> QED BY <1>3, <1>4, <1>5 DEF CallOk, CallOps

\* A call is left to the workers.
LEMMA PostGood ==
    ASSUME GoodMaps(st, todo), NEW c, CallOk(c), NEW x, c.op \in {"mmap", "msync", "unmap"}, x \in M!Posts(c, st),
           NEW w, w = [c |-> c, id |-> w.id, stage |-> M!FirstStage(c), e |-> "OK", o |-> 0, len |-> w.len]
    PROVE  GoodMaps(M!Plain(x), todo) /\ GoodMaps(M!Plain(x), todo \cup {w})
<1>1. MapShape(st) /\ Sound(st, Dying(todo)) /\ Tasks(st, todo)
    BY DEF GoodMaps
<1>2. Touches(st, x)
    <2>1. x = st \/ x \in M!May(st, "ENOMEM") \/ x \in M!Error(st, "EINVAL") \/ x \in M!Error(st, "FREE")
        BY DEF M!Posts, M!MmapAsync, M!Msync, M!Mapping, M!Given
    <2> QED BY <1>1, <2>1, TouchesSelf, MayTouches, ErrorTouches
<1>3. MapShape(x) /\ Sound(x, Dying(todo)) /\ Tasks(x, todo) /\ Len(x.maps) = Len(st.maps)
    BY <1>1, <1>2, SoundTouched, TouchedTasks DEF Touches
<1>4. w.c = c /\ w.stage = M!FirstStage(c) /\ w.e = "OK" /\ w.o = 0
    OBVIOUS
<1>5. w.stage \in {"stat", "msync", "munmap"} /\ ~Made(w)
    BY <1>4 DEF M!FirstStage, Made
<1>6. Dying(todo \cup {w}) = Dying(todo)
    BY <1>5 DEF Dying
<1>7. TaskOk(x, w)
    <2>1. w = [c |-> w.c, id |-> w.id, stage |-> w.stage, e |-> w.e, o |-> w.o, len |-> w.len] /\ ArgsOf(w.c)
        BY <1>4 DEF CallOk
    <2>2. \/ c.op = "mmap" /\ c.o = 0 /\ w.stage = "stat"
          \/ c.op = "msync" /\ c.o \in 1 .. Len(x.maps) /\ w.stage = "msync"
          \/ c.op = "unmap" /\ c.o \in 1 .. Len(x.maps) /\ w.stage = "munmap"
        BY <1>3, <1>4 DEF CallOk, M!FirstStage
    <2> QED BY <1>4, <1>5, <2>1, <2>2 DEF TaskOk
<1>8. Alone(todo \cup {w})
    <2>1. Alone(todo) /\ \A u \in todo : TaskOk(st, u)
        BY <1>1 DEF Tasks
    <2>2. \A u \in todo : ~ (u.c.op = "mmap" /\ c.op = "mmap")
        BY DEF CallOk
    <2>3. \A u \in todo : u.c.op = "unmap" \/ c.op = "unmap" => u.c.o # c.o
        <3> TAKE u \in todo
        <3>1. CASE c.o # 0
            BY <3>1 DEF CallOk
        <3>2. CASE c.o = 0
            <4>1. c.op = "mmap"
                BY <3>2 DEF CallOk
            <4>2. u.c.op = "unmap" => u.c.o # 0
                BY <2>1 DEF TaskOk
            <4> QED BY <3>2, <4>1, <4>2
        <3> QED BY <3>1, <3>2
    <2>4. \A u \in todo : Made(u) => c.o # u.o
        <3> TAKE u \in todo
        <3> HAVE Made(u)
        <3>1. u.o = Len(st.maps) /\ Len(st.maps) > 0
            BY <2>1 DEF TaskOk
        <3> QED BY <3>1 DEF CallOk
    <2> QED BY <1>4, <1>5, <2>1, <2>2, <2>3, <2>4 DEF Alone
<1>9. Tasks(x, todo \cup {w})
    BY <1>3, <1>7, <1>8 DEF Tasks
<1> QED BY <1>3, <1>6, <1>9, PlainGood

\* What a task becomes.
WorkedOn(t, x, stage, len) ==
    [c |-> t.c, id |-> t.id, stage |-> IF x.e = "OK" THEN stage ELSE "done", e |-> x.e, o |-> x.o, len |-> len]

\* A step that touches only.
LEMMA WorkTouches ==
    ASSUME NEW s, NEW T, GoodMaps(s, T), NEW t \in T, t.stage # "clear", NEW x, Touches(s, x),
           NEW stage, stage # "clear", NEW len,
           TaskOk(x, WorkedOn(t, x, stage, len)), ~Made(WorkedOn(t, x, stage, len))
    PROVE  GoodMaps(M!Plain(x), (T \ {t}) \cup {WorkedOn(t, x, stage, len)})
<1>1. PICK w : w = WorkedOn(t, x, stage, len)
    OBVIOUS
<1>2. w.c = t.c /\ w.stage # "clear"
    BY <1>1 DEF WorkedOn
<1>3. MapShape(s) /\ Sound(s, Dying(T)) /\ Tasks(s, T)
    BY DEF GoodMaps
<1>4. Tasks(x, T) /\ MapShape(x) /\ Sound(x, Dying(T))
    BY <1>3, TouchedTasks, SoundTouched DEF Touches
<1>5. Tasks(x, T \ {t})
    BY <1>4, TasksSome
<1>6. Tasks(x, (T \ {t}) \cup {w})
    BY <1>1, <1>2, <1>3, <1>5, TasksGoOn
<1>7. Dying((T \ {t}) \cup {w}) = Dying(T)
    BY <1>2, DyingSame
<1> QED BY <1>1, <1>4, <1>6, <1>7, PlainGood

\* The other calls when one maps: none of them maps.
LEMMA OthersMapNothing ==
    ASSUME NEW s, MapShape(s), NEW T, Tasks(s, T), NEW t \in T, t.c.op = "mmap",
           NEW x, MapShape(x), Len(s.maps) <= Len(x.maps)
    PROVE  Tasks(x, T \ {t}) /\ \A u \in T : u.c.o <= Len(s.maps)
<1>1. PICK n \in Nat, m \in Nat : n = Len(s.maps) /\ m = Len(x.maps) /\ n <= m
    BY MapLens
<1>2. ASSUME NEW u \in T PROVE u.c.o \in 0 .. n
    BY <1>1 DEF Tasks, TaskOk
<1>3. \A u \in T \ {t} : u.c.op # "mmap"
    BY DEF Tasks, Alone
<1>4. \A u \in T \ {t} : u.c.op # "mmap" /\ u.c.o <= Len(x.maps)
    BY <1>1, <1>2, <1>3
<1>5. Tasks(s, T \ {t})
    BY TasksSome
<1>6. Tasks(x, T \ {t})
    BY <1>4, <1>5, TasksLeft
<1> QED BY <1>1, <1>2, <1>6

LEMMA StatGood ==
    ASSUME NEW s, NEW T, GoodMaps(s, T), NEW t \in T, t.stage = "stat", NEW x \in M!StatSize(s, t.c)
    PROVE  GoodMaps(M!Plain(x), (T \ {t}) \cup {WorkedOn(t, x, "grow", Len(s.file))})
<1>1. MapShape(s) /\ Tasks(s, T) /\ TaskOk(s, t) /\ t.c.op = "mmap"
    BY DEF GoodMaps, Tasks, TaskOk
<1>2. (x.e # "OK" /\ Touches(s, x)) \/ (x = s /\ Mappable(t.c))
    BY <1>1, StatSizeIs DEF TaskOk, ArgsOf
<1>3. Touches(s, x)
    BY <1>1, <1>2, TouchesSelf
<1>4. PICK w : w = WorkedOn(t, x, "grow", Len(s.file))
    OBVIOUS
<1>5. w = [c |-> w.c, id |-> w.id, stage |-> w.stage, e |-> w.e, o |-> w.o, len |-> w.len] /\ w.c = t.c /\ w.e = x.e
      /\ w.len = Len(s.file) /\ w.stage = IF x.e = "OK" THEN "grow" ELSE "done"
    BY <1>4 DEF WorkedOn
<1>6. ~Made(w) /\ TaskOk(x, w)
    BY <1>1, <1>2, <1>3, <1>5 DEF TaskOk, Made, Touches
<1> QED BY <1>3, <1>4, <1>6, WorkTouches

LEMMA GrowGood ==
    ASSUME NEW s, NEW T, GoodMaps(s, T), NEW t \in T, t.stage = "grow", NEW x \in M!ExpandFileIfNeeded(s, t.c, t.len)
    PROVE  GoodMaps(M!Plain(x), (T \ {t}) \cup {WorkedOn(t, x, "map", 0)})
<1>1. MapShape(s) /\ s.e = "OK" /\ Tasks(s, T) /\ TaskOk(s, t) /\ t.c.op = "mmap" /\ Sound(s, Dying(T))
    BY DEF GoodMaps, Tasks, TaskOk
<1>2. t.len = Len(s.file) /\ Mappable(t.c)
    BY <1>1 DEF TaskOk
<1>3. Grows(s, x) /\ (x.e = "EIO" \/ (x.e = s.e /\ M!Required(t.c) <= Len(x.file)))
    BY <1>1, <1>2, ExpandGrows
<1>4. MapShape(x) /\ Sound(x, Dying(T)) /\ Len(x.maps) = Len(s.maps)
    BY <1>1, <1>3, SoundGrown DEF Grows
<1>5. Len(s.maps) <= Len(x.maps)
    BY <1>1, <1>4, MapLens
<1>6. Tasks(x, T \ {t})
    BY <1>1, <1>4, <1>5, OthersMapNothing
<1>7. PICK w : w = WorkedOn(t, x, "map", 0)
    OBVIOUS
<1>8. w = [c |-> w.c, id |-> w.id, stage |-> w.stage, e |-> w.e, o |-> w.o, len |-> w.len] /\ w.c = t.c /\ w.e = x.e
      /\ w.stage = IF x.e = "OK" THEN "map" ELSE "done"
    BY <1>7 DEF WorkedOn
<1>9. ~Made(w) /\ TaskOk(x, w)
    BY <1>1, <1>2, <1>3, <1>8 DEF TaskOk, Made
<1>10. Tasks(x, (T \ {t}) \cup {w})
    BY <1>1, <1>6, <1>8, <1>9, TasksGoOn
<1>11. w.stage # "clear"
    BY <1>8
<1>12. Dying((T \ {t}) \cup {w}) = Dying(T)
    BY <1>11, DyingSame
<1> QED BY <1>4, <1>7, <1>10, <1>12, PlainGood

LEMMA MapGood ==
    ASSUME M!MapConstants, NEW s, NEW T, GoodMaps(s, T), NEW t \in T, t.stage = "map", NEW x \in M!MapPages(s, t.c)
    PROVE  GoodMaps(M!Plain(x), (T \ {t}) \cup {WorkedOn(t, x, "done", 0)})
<1>1. MapShape(s) /\ s.e = "OK" /\ Tasks(s, T) /\ TaskOk(s, t) /\ t.c.op = "mmap" /\ Sound(s, Dying(T))
    BY DEF GoodMaps, Tasks, TaskOk
<1>2. M!Required(t.c) <= Len(s.file) /\ Mappable(t.c)
    BY <1>1 DEF TaskOk
<1>3. Dying(T) \in SUBSET (1 .. Len(s.maps))
    BY <1>1, DyingIs
<1>4. \/ x.e # "OK" /\ Touches(s, x)
      \/ x.e = "OK" /\ Adds(s, x) /\ Sound(x, Dying(T))
    BY <1>1, <1>2, <1>3, MapPagesAdd
<1>5. PICK w : w = WorkedOn(t, x, "done", 0)
    OBVIOUS
<1>6. w = [c |-> w.c, id |-> w.id, stage |-> w.stage, e |-> w.e, o |-> w.o, len |-> w.len] /\ w.c = t.c /\ w.e = x.e
      /\ w.stage = "done" /\ w.o = x.o
    BY <1>5 DEF WorkedOn
<1>7. CASE x.e # "OK" /\ Touches(s, x)
    <2>1. ~Made(w) /\ TaskOk(x, w)
        BY <1>1, <1>6, <1>7 DEF TaskOk, Made
    <2> QED BY <1>5, <1>7, <2>1, WorkTouches
<1>8. CASE x.e = "OK" /\ Adds(s, x) /\ Sound(x, Dying(T))
    <2>1. PICK n \in Nat : n = Len(s.maps)
        BY <1>1, MapLens
    <2>2. MapShape(x) /\ Len(x.maps) = n + 1 /\ x.o = n + 1 /\ x.maps[x.o].valid
        BY <1>8, <2>1 DEF Adds
    <2>3. Tasks(x, T \ {t}) /\ \A u \in T : u.c.o <= n
        <3>1. Len(s.maps) <= Len(x.maps)
            BY <2>1, <2>2
        <3> QED BY <1>1, <2>1, <2>2, <3>1, OthersMapNothing
    <2>4. \A u \in T : u.c.o # w.o
        <3> TAKE u \in T
        <3>1. PICK o \in 0 .. n : o = u.c.o
            BY <1>1, <2>1 DEF Tasks, TaskOk
        <3> QED BY <1>6, <2>2, <3>1
    <2>5. TaskOk(x, w)
        BY <1>1, <1>6, <2>1, <2>2 DEF TaskOk, Made
    <2>6. Tasks(x, (T \ {t}) \cup {w})
        BY <1>1, <1>6, <2>3, <2>4, <2>5, TasksGoOn
    <2>7. Dying((T \ {t}) \cup {w}) = Dying(T)
        BY <1>6, DyingSame, ZenonT(40)
    <2> QED BY <1>5, <1>8, <2>2, <2>6, <2>7, PlainGood
<1> QED BY <1>4, <1>7, <1>8

LEMMA MsyncGood ==
    ASSUME NEW s, NEW T, GoodMaps(s, T), NEW t \in T, t.stage = "msync", NEW off, NEW len,
           NEW x \in M!CoreMsync(s, t.c.o, off, len)
    PROVE  GoodMaps(M!Plain(x), (T \ {t}) \cup {WorkedOn(t, x, "done", 0)})
<1>1. MapShape(s) /\ Tasks(s, T) /\ TaskOk(s, t) /\ t.c.op = "msync"
    BY DEF GoodMaps, Tasks, TaskOk
<1>2. Touches(s, x)
    BY <1>1, CoreMsyncTouches
<1>3. PICK w : w = WorkedOn(t, x, "done", 0)
    OBVIOUS
<1>4. w = [c |-> w.c, id |-> w.id, stage |-> w.stage, e |-> w.e, o |-> w.o, len |-> w.len] /\ w.c = t.c
      /\ w.stage = "done"
    BY <1>3 DEF WorkedOn
<1>5. ~Made(w) /\ TaskOk(x, w)
    BY <1>1, <1>2, <1>4 DEF TaskOk, Made, Touches
<1> QED BY <1>2, <1>3, <1>5, WorkTouches

LEMMA PagesGood ==
    ASSUME NEW s, NEW T, GoodMaps(s, T), NEW t \in T, t.stage = "munmap", NEW x \in M!Pages(s, t.c.o),
           NEW stage, stage = IF s.maps[t.c.o].valid THEN "clear" ELSE "done"
    PROVE  GoodMaps(M!Plain(x), (T \ {t}) \cup {WorkedOn(t, x, stage, 0)})
<1>1. MapShape(s) /\ s.e = "OK" /\ Tasks(s, T) /\ TaskOk(s, t) /\ t.c.op = "unmap" /\ Sound(s, Dying(T))
    BY DEF GoodMaps, Tasks, TaskOk
<1>2. PICK o \in 1 .. Len(s.maps) : o = t.c.o
    BY <1>1 DEF TaskOk
<1>3. PICK w : w = WorkedOn(t, x, stage, 0)
    OBVIOUS
<1>4. w = [c |-> w.c, id |-> w.id, stage |-> w.stage, e |-> w.e, o |-> w.o, len |-> w.len] /\ w.c = t.c /\ w.e = x.e
      /\ w.stage = IF x.e = "OK" THEN stage ELSE "done"
    BY <1>3 DEF WorkedOn
<1>5. ~Made(w)
    BY <1>1, <1>4 DEF Made
<1>6. CASE ~s.maps[o].valid \/ x \in M!May(s, "EIO")
    <2>1. (x = s /\ stage = "done") \/ x \in M!May(s, "EIO")
        BY <1>2, <1>6 DEF M!Pages
    <2>2. Touches(s, x) /\ w.stage = "done"
        BY <1>1, <1>4, <2>1, TouchesSelf, MayTouches
    <2>3. TaskOk(x, w)
        BY <1>1, <1>4, <1>5, <2>2 DEF TaskOk, Touches
    <2>4. w = WorkedOn(t, x, "done", 0)
        BY <1>3, <1>4, <2>2 DEF WorkedOn
    <2> QED BY <1>3, <1>5, <2>2, <2>3, <2>4, WorkTouches
<1>7. CASE s.maps[o].valid /\ x \notin M!May(s, "EIO")
    <2>1. o \notin Dying(T)
        <3>1. o \notin Dying(T \ {t})
            BY <1>1, <1>2, DyingIs
        <3>2. Dying(T \ {t}) = Dying(T)
            BY DEF Dying
        <3> QED BY <3>1, <3>2
    <2>2. x \in M!SysMunmap(s, s.maps[o].a) /\ Holds(s, Dying(T), o)
        BY <1>2, <1>7, <2>1 DEF M!Pages, Holds
    <2>3. MapShape(x) /\ x.file = s.file /\ x.maps = s.maps /\ x.e = s.e /\ Sound(x, Dying(T) \cup {o})
        BY <1>1, <2>2, SoundMunmapped
    <2>4. w.stage = "clear"
        BY <1>1, <1>2, <1>4, <1>7, <2>3
    <2>5. TaskOk(x, w)
        BY <1>1, <1>4, <1>5, <2>3, <2>4 DEF TaskOk
    <2>6. Tasks(x, T)
        BY <1>1, <2>3 DEF Tasks, TaskOk
    <2>7. Tasks(x, T \ {t})
        BY <2>6, TasksSome
    <2>8. Tasks(x, (T \ {t}) \cup {w})
        BY <1>1, <1>4, <1>5, <2>5, <2>7, TasksGoOn
    <2>9. Dying((T \ {t}) \cup {w}) = Dying(T) \cup {o}
        BY <1>2, <1>4, <2>4 DEF Dying
    <2> QED BY <1>3, <2>3, <2>8, <2>9, PlainGood
<1> QED BY <1>6, <1>7

LEMMA ClearGood ==
    ASSUME NEW s, NEW T, GoodMaps(s, T), NEW t \in T, t.stage = "clear", NEW x, x = M!Cleared(s, t.c.o)
    PROVE  GoodMaps(M!Plain(x), (T \ {t}) \cup {WorkedOn(t, x, "done", 0)})
<1>1. MapShape(s) /\ s.e = "OK" /\ Tasks(s, T) /\ TaskOk(s, t) /\ t.c.op = "unmap" /\ Sound(s, Dying(T))
    BY DEF GoodMaps, Tasks, TaskOk
<1>2. PICK o \in 1 .. Len(s.maps) : o = t.c.o
    BY <1>1 DEF TaskOk
<1>3. PICK w : w = WorkedOn(t, x, "done", 0)
    OBVIOUS
<1>4. w = [c |-> w.c, id |-> w.id, stage |-> w.stage, e |-> w.e, o |-> w.o, len |-> w.len] /\ w.c = t.c
      /\ w.stage = "done"
    BY <1>3 DEF WorkedOn
<1>5. ~Made(w)
    BY <1>1, <1>4 DEF Made
<1>6. PICK E, D : E = Dying(T) /\ D = Dying(T \ {t})
    OBVIOUS
<1>7. WithoutOne(D, E, o)
    <2>1. o \notin D /\ E = D \cup {o}
        BY <1>1, <1>2, <1>6, DyingIs, ZenonT(40)
    <2> QED BY <2>1 DEF WithoutOne
<1>8. /\ MapShape(x) /\ x.file = s.file /\ Len(x.maps) = Len(s.maps) /\ Sound(x, D)
      /\ \A i \in 1 .. Len(s.maps) : i # o => x.maps[i] = s.maps[i]
    <2>1. MapShape(s) /\ Sound(s, E) /\ x = M!Cleared(s, o)
        BY <1>1, <1>2, <1>6
    <2> QED BY <1>7, <2>1, SoundCleared
<1>9. \A u \in T \ {t} : Made(u) => x.maps[u.o].valid
    <2> TAKE u \in T \ {t}
    <2> HAVE Made(u)
    <2>1. u.o = Len(s.maps) /\ Len(s.maps) > 0 /\ s.maps[u.o].valid /\ u.o # o
        BY <1>1, <1>2 DEF Tasks, TaskOk, Alone
    <2>2. u.o \in 1 .. Len(s.maps)
        BY <1>1, <2>1, MapLens
    <2> QED BY <1>8, <2>1, <2>2
<1>10. Tasks(s, T \ {t})
    BY <1>1, TasksSome
<1>11. Tasks(x, T \ {t})
    BY <1>8, <1>9, <1>10, TasksTouched
<1>12. TaskOk(x, w)
    BY <1>1, <1>4, <1>5, <1>8 DEF TaskOk
<1>13. Tasks(x, (T \ {t}) \cup {w})
    BY <1>1, <1>4, <1>5, <1>11, <1>12, TasksGoOn
<1>14. Dying((T \ {t}) \cup {w}) = D
    BY <1>4, <1>6 DEF Dying
<1> QED BY <1>3, <1>8, <1>13, <1>14, PlainGood

\* The JavaScript thread hears of it.
LEMMA ResolvedGood ==
    ASSUME NEW s, NEW T, GoodMaps(s, T), NEW t \in T, t.stage = "done", NEW x,
           x \in IF t.c.op = "mmap" /\ t.e = "OK" THEN M!InstantiateFileMapping([s EXCEPT !.o = t.o])
           ELSE {[s EXCEPT !.e = t.e]}
    PROVE  GoodMaps(M!Plain(x), T \ {t})
<1>1. MapShape(s) /\ Tasks(s, T) /\ TaskOk(s, t) /\ Sound(s, Dying(T))
    BY DEF GoodMaps, Tasks
<1>2. Dying(T \ {t}) = Dying(T) /\ Dying(T) \in SUBSET (1 .. Len(s.maps))
    <2>1. Dying(T) \in SUBSET (1 .. Len(s.maps))
        BY <1>1, DyingIs
    <2>2. Dying(T \ {t}) = Dying(T)
        BY DEF Dying
    <2> QED BY <2>1, <2>2
<1>3. Tasks(s, T \ {t})
    BY <1>1, TasksSome
<1>4. CASE ~Made(t)
    <2>1. x \in M!Error(s, t.e)
        BY <1>4 DEF Made, M!Error
    <2>2. Touches(s, x)
        BY <1>1, <2>1, ErrorTouches
    <2>3. GoodMaps(s, T \ {t})
        BY <1>1, <1>2, <1>3 DEF GoodMaps
    <2> QED BY <2>2, <2>3, TouchedGood
<1>5. CASE Made(t)
    <2>1. PICK y : y = [s EXCEPT !.o = t.o]
        OBVIOUS
    <2>2. y = [file |-> s.file, kern |-> s.kern, maps |-> s.maps,
               f |-> s.f, e |-> s.e, n |-> s.n, c |-> s.c, o |-> t.o]
        BY <1>1, <2>1 DEF MapShape
    <2>3. Touches(s, y) /\ y.maps = s.maps /\ y.o = t.o
        BY <1>1, <2>2, OnlyAnswers
    <2>4. MapShape(y) /\ Sound(y, Dying(T)) /\ Tasks(y, T \ {t})
        BY <1>1, <1>3, <2>3, SoundTouched, TouchedTasks DEF Touches
    <2>5. t.o = Len(s.maps) /\ Len(s.maps) > 0 /\ s.maps[t.o].valid /\ \A u \in T : u.c.o # t.o
        BY <1>1, <1>5 DEF TaskOk, Tasks, Alone
    <2>6. PICK n \in Nat : n = Len(s.maps) /\ n > 0
        BY <1>1, <2>5, MapLens
    <2>7. Dying(T) \in SUBSET (1 .. (n - 1))
        <3>1. \A i \in Dying(T) : i \in 1 .. n /\ i # n
            BY <1>2, <2>5, <2>6 DEF Dying
        <3> QED BY <3>1
    <2>8. x \in M!Wrapped(y, "UNKNOWN")
        BY <1>5, <2>1 DEF Made, M!InstantiateFileMapping
    <2>9. x = y \/ (Drops(y, x) /\ Sound(x, Dying(T)))
        BY <2>3, <2>4, <2>5, <2>6, <2>7, <2>8, WrappedIs
    <2>10. CASE x = y
        BY <1>2, <2>4, <2>10, PlainGood
    <2>11. CASE Drops(y, x) /\ Sound(x, Dying(T))
        <3>1. MapShape(x) /\ Len(x.maps) = n - 1
            BY <2>3, <2>6, <2>11 DEF Drops
        <3>2. ASSUME NEW u \in T \ {t} PROVE u.c.op # "mmap" /\ u.c.o <= Len(x.maps)
            <4>1. u.c.op # "mmap" /\ TaskOk(s, u)
                BY <1>1, <1>5 DEF Tasks, Alone, Made
            <4>2. u.c.o \in 1 .. n /\ u.c.o # n
                BY <2>5, <2>6, <4>1 DEF TaskOk
            <4> QED BY <3>1, <4>1, <4>2
        <3>3. Tasks(x, T \ {t})
            BY <1>1, <1>3, <3>1, <3>2, TasksLeft
        <3> QED BY <1>2, <2>11, <3>1, <3>3, PlainGood
    <2> QED BY <2>9, <2>10, <2>11
<1> QED BY <1>4, <1>5

----------------------------------------------------------------------------
\* The invariant.
MapsInv == plan \in DOMAIN MapTable /\ GoodMaps(st, todo)

LEMMA MapsStart == ASSUME M!MapConstants, M!Init PROVE MapsInv
<1>1. PICK p \in DOMAIN MapTable : M!InitWith(p)
    BY DEF M!Init
<1>2. plan = p /\ todo = {}
    BY <1>1 DEF M!InitWith
<1>3. PICK bytes \in MapTable[p].files :
         st = [file |-> bytes, kern |-> [a \in 1 .. Places |-> M!Unmapped], maps |-> << >>,
               f |-> MapTable[p].failing,
               e |-> "OK", n |-> 0, c |-> << >>, o |-> 0]
    BY <1>1, <1>2 DEF M!InitWith, M!Doing
<1>4. bytes \in Seq(Nat)
    BY DEF M!MapConstants
<1>5. PICK k : k = [a \in 1 .. Places |-> M!Unmapped]
    OBVIOUS
<1>6. /\ st.file = bytes /\ st.kern = k /\ st.maps = << >> /\ st.e = "OK"
      /\ st = [file |-> st.file, kern |-> st.kern, maps |-> st.maps,
               f |-> st.f, e |-> st.e, n |-> st.n, c |-> st.c, o |-> st.o]
    BY <1>3, <1>5
<1>7. k = [a \in 1 .. Places |-> k[a]] /\ \A a \in 1 .. Places : k[a] = M!Unmapped
    BY <1>5
<1>8. PlaceShape(M!Unmapped) /\ ~ (M!Unmapped.len > 0)
    BY DEF PlaceShape, M!Unmapped
<1>9. << >> \in Seq(Ents) /\ Len(<< >>) = 0 /\ 1 .. 0 = {}
    BY EmptySeq
<1>10. MapShape(st)
    BY <1>4, <1>6, <1>7, <1>8, <1>9 DEF MapShape
<1>11. Sound(st, Dying(todo))
    BY <1>6, <1>7, <1>8, <1>9 DEF Sound
<1>12. Tasks(st, todo)
    BY <1>2 DEF Tasks, Alone
<1> QED BY <1>2, <1>6, <1>10, <1>11, <1>12 DEF MapsInv, GoodMaps

\* What a worker does is good when each of its outcomes is.
LEMMA WorkStep ==
    ASSUME MapsInv, NEW t \in todo, NEW outcomes, NEW stage, NEW len, M!Worked(t, outcomes, stage, len),
           \A x \in outcomes : GoodMaps(M!Plain(x), (todo \ {t}) \cup {WorkedOn(t, x, stage, len)})
    PROVE  MapsInv'
<1>2. PICK x \in outcomes : st' = M!Plain(x) /\ todo' = (todo \ {t}) \cup {WorkedOn(t, x, stage, len)}
    BY DEF M!Worked, WorkedOn
<1>4. GoodMaps(st', todo')
    BY <1>2
<1>5. plan' = plan
    BY DEF M!Worked
<1> QED BY <1>4, <1>5 DEF MapsInv

LEMMA MapsStep == ASSUME M!MapConstants, MapsInv, [M!Next]_(M!mapVars) PROVE MapsInv'
<1>1. plan \in DOMAIN MapTable /\ GoodMaps(st, todo) /\ MapShape(st)
    BY DEF MapsInv, GoodMaps
<1>2. CASE UNCHANGED M!mapVars
    BY <1>2 DEF MapsInv, M!mapVars
<1>3. ASSUME NEW t \in M!Doing.calls, NEW c \in M!CallsOf(t), M!NapiCalls(c) \/ M!AniCalls(c) PROVE MapsInv'
    <2>1. CallOk(c)
        BY <1>1, CallsAreOk
    <2>2. PICK x : (x \in M!NapiMap(c, st) \/ x \in M!AniMap(c, st)) /\ st' = M!Plain(x)
        BY <1>3 DEF M!NapiCalls, M!AniCalls
    <2>3. todo' = todo /\ plan' = plan
        BY <1>3 DEF M!NapiCalls, M!AniCalls, M!Calling
    <2>4. GoodMaps(M!Plain(x), todo)
        BY <1>1, <2>1, <2>2, SyncGood
    <2>5. GoodMaps(st', todo')
        BY <2>2, <2>3, <2>4
    <2> QED BY <1>1, <2>3, <2>5 DEF MapsInv
<1>4. ASSUME NEW t \in M!Doing.calls, NEW c \in M!CallsOf(t), M!NapiPosts(c) PROVE MapsInv'
    <2>1. CallOk(c)
        BY <1>1, CallsAreOk
    <2> DEFINE len == IF c.op = "msync" THEN M!MsyncLen(st, c) ELSE 0
    <2>2. PICK x \in M!Posts(c, st) :
             /\ st' = M!Plain(x)
             /\ todo' = IF x.e # "OK" THEN todo
                        ELSE todo \cup {[c |-> c, id |-> used, stage |-> M!FirstStage(c), e |-> "OK", o |-> 0, len |-> len]}
        BY <1>4 DEF M!NapiPosts
    <2>3. c.op \in {"mmap", "msync", "unmap"} /\ plan' = plan
        BY <1>4 DEF M!NapiPosts, M!Calling
    <2> HIDE DEF len
    <2>4. PICK w : w = [c |-> c, id |-> used, stage |-> M!FirstStage(c), e |-> "OK", o |-> 0, len |-> len]
        OBVIOUS
    <2>5. w = [c |-> c, id |-> w.id, stage |-> M!FirstStage(c), e |-> "OK", o |-> 0, len |-> w.len]
        BY <2>4
    <2>6. GoodMaps(M!Plain(x), todo) /\ GoodMaps(M!Plain(x), todo \cup {w})
        BY <1>1, <2>1, <2>3, <2>5, PostGood
    <2>7. GoodMaps(st', todo')
        BY <2>2, <2>4, <2>6
    <2> QED BY <1>1, <2>3, <2>7 DEF MapsInv
<1>5. ASSUME NEW t \in todo, M!MmapStat(t) PROVE MapsInv'
    <2>1. \A x \in M!StatSize(st, t.c) : GoodMaps(M!Plain(x), (todo \ {t}) \cup {WorkedOn(t, x, "grow", Len(st.file))})
        BY <1>1, <1>5, StatGood DEF M!MmapStat
    <2> QED BY <1>5, <2>1, WorkStep DEF M!MmapStat
<1>6. ASSUME NEW t \in todo, M!MmapGrow(t) PROVE MapsInv'
    <2>1. \A x \in M!ExpandFileIfNeeded(st, t.c, t.len) : GoodMaps(M!Plain(x), (todo \ {t}) \cup {WorkedOn(t, x, "map", 0)})
        BY <1>1, <1>6, GrowGood DEF M!MmapGrow
    <2> QED BY <1>6, <2>1, WorkStep DEF M!MmapGrow
<1>7. ASSUME NEW t \in todo, M!MmapMap(t) PROVE MapsInv'
    <2>1. \A x \in M!MapPages(st, t.c) : GoodMaps(M!Plain(x), (todo \ {t}) \cup {WorkedOn(t, x, "done", 0)})
        BY <1>1, <1>7, MapGood DEF M!MmapMap
    <2> QED BY <1>7, <2>1, WorkStep DEF M!MmapMap
<1>8. ASSUME NEW t \in todo, M!MsyncWork(t) PROVE MapsInv'
    <2>1. \A x \in M!CoreMsync(st, t.c.o, M!MsyncFrom(t.c), t.len) :
             GoodMaps(M!Plain(x), (todo \ {t}) \cup {WorkedOn(t, x, "done", 0)})
        BY <1>1, <1>8, MsyncGood DEF M!MsyncWork
    <2> QED BY <1>8, <2>1, WorkStep DEF M!MsyncWork
<1>9. ASSUME NEW t \in todo, M!UnmapPages(t) PROVE MapsInv'
    <2>1. PICK stage : stage = IF st.maps[t.c.o].valid THEN "clear" ELSE "done"
        OBVIOUS
    <2>2. \A x \in M!Pages(st, t.c.o) : GoodMaps(M!Plain(x), (todo \ {t}) \cup {WorkedOn(t, x, stage, 0)})
        BY <1>1, <1>9, <2>1, PagesGood DEF M!UnmapPages
    <2>3. M!Worked(t, M!Pages(st, t.c.o), stage, 0)
        BY <1>9, <2>1 DEF M!UnmapPages
    <2> QED BY <2>2, <2>3, WorkStep
<1>10. ASSUME NEW t \in todo, M!UnmapClear(t) PROVE MapsInv'
    <2>1. \A x \in {M!Cleared(st, t.c.o)} : GoodMaps(M!Plain(x), (todo \ {t}) \cup {WorkedOn(t, x, "done", 0)})
        BY <1>1, <1>10, ClearGood DEF M!UnmapClear
    <2> QED BY <1>10, <2>1, WorkStep DEF M!UnmapClear
<1>11. ASSUME NEW t \in todo, M!Resolved(t) PROVE MapsInv'
    <2>1. PICK x : x \in (IF t.c.op = "mmap" /\ t.e = "OK" THEN M!InstantiateFileMapping([st EXCEPT !.o = t.o])
                          ELSE {[st EXCEPT !.e = t.e]}) /\ st' = M!Plain(x)
        BY <1>11 DEF M!Resolved
    <2>2. t.stage = "done" /\ todo' = todo \ {t} /\ plan' = plan
        BY <1>11 DEF M!Resolved
    <2>3. GoodMaps(M!Plain(x), todo \ {t})
        BY <1>1, <2>1, <2>2, ResolvedGood
    <2>4. GoodMaps(st', todo')
        BY <2>1, <2>2, <2>3
    <2> QED BY <1>1, <2>2, <2>4 DEF MapsInv
<1> QED BY <1>2, <1>3, <1>4, <1>5, <1>6, <1>7, <1>8, <1>9, <1>10, <1>11 DEF M!Next

LEMMA MapsInvSafe == ASSUME M!MapConstants, MapsInv PROVE M!MappingsSafe
<1>1. MapShape(st) /\ Sound(st, Dying(todo)) /\ Tasks(st, todo)
    BY DEF MapsInv, GoodMaps
<1>2. \A o : M!Unmapping(o) <=> o \in Dying(todo)
    BY DEF M!Unmapping, Dying
<1>3. DOMAIN st.maps = 1 .. Len(st.maps)
    BY <1>1, MapLens
<1>4. M!MappingBacked
    <2> SUFFICES ASSUME NEW o \in DOMAIN st.maps, st.maps[o].valid, ~M!Unmapping(o)
                 PROVE  /\ 0 <= st.maps[o].pos /\ st.maps[o].pos <= st.maps[o].lim /\ st.maps[o].lim <= st.maps[o].cap
                        /\ st.kern[st.maps[o].a].len = st.maps[o].raw
                        /\ st.kern[st.maps[o].a].from + st.maps[o].adj = st.maps[o].off
                        /\ st.maps[o].adj < Page /\ st.maps[o].off + st.maps[o].cap <= Len(st.file)
        BY DEF M!MappingBacked
    <2>1. Backed(st, st.maps[o]) /\ st.maps[o] \in Ents
        BY <1>1, <1>2, <1>3, MapLens DEF Sound, Holds
    <2>2. 0 <= st.maps[o].pos
        BY <2>1 DEF Ents
    <2> QED BY <2>1, <2>2 DEF Backed, InOrder
<1>5. M!PlacesOwned
    <2> SUFFICES ASSUME NEW a \in 1 .. Places, NEW S,
                        S = {o \in DOMAIN st.maps : st.maps[o].valid /\ st.maps[o].a = a /\ ~M!Unmapping(o)}
                 PROVE  Cardinality(S) = IF st.kern[a].len > 0 THEN 1 ELSE 0
        BY SameCardinality DEF M!PlacesOwned
    <2>1. \A o \in S : o \in 1 .. Len(st.maps) /\ Holds(st, Dying(todo), o) /\ st.maps[o].a = a
        BY <1>2, <1>3 DEF Holds
    <2>2. CASE st.kern[a].len > 0
        <3>1. PICK i \in 1 .. Len(st.maps) : Holds(st, Dying(todo), i) /\ st.maps[i].a = a
            BY <1>1, <2>2 DEF Sound
        <3>2. i \in S
            BY <1>2, <1>3, <3>1 DEF Holds
        <3>3. S = {i}
            BY <1>1, <2>1, <3>1, <3>2 DEF Sound
        <3>4. Cardinality(S) = 1
            BY <3>3, FS_Singleton
        <3> QED BY <2>2, <3>4
    <2>3. CASE ~ (st.kern[a].len > 0)
        <3>1. S = {}
            <4> SUFFICES ASSUME NEW o \in S PROVE FALSE
                OBVIOUS
            <4>1. Backed(st, st.maps[o]) /\ st.maps[o].a = a
                BY <1>1, <2>1 DEF Sound
            <4> QED BY <2>3, <4>1 DEF Backed
        <3>2. Cardinality(S) = 0
            BY <3>1, FS_EmptySet
        <3> QED BY <2>3, <3>2
    <2> QED BY <2>2, <2>3
<1> QED BY <1>4, <1>5 DEF M!MappingsSafe

\* The entities of fs.mmap and the memory of the process agree, in both
\* directions, whatever is called in whatever order and wherever the workers of
\* mmap, msync and unmap are: a valid entity has its pages, at its offset and
\* inside the file, its position within its limit and its limit within its
\* capacity, and a mapped place has one entity, so that none is left mapped by a
\* failure and none is unmapped for another (mmap_core.cpp, fs_filemapping.cpp and
\* the two bindings).
THEOREM MappingsAreSafe == ScenesSpec => []MappingsSafe
<1> USE MapsAssumption
<1>1. ScenesInit => MapsInv
    <2>1. M!InitWith("two") => M!Init
        BY DEF M!Init
    <2> QED BY <2>1, MapsStart DEF ScenesInit
<1>2. MapsInv /\ [ScenesNext]_<<scene, atomicVars, handleVars, mapVars>> => MapsInv'
    <2>1. [ScenesNext]_<<scene, atomicVars, handleVars, mapVars>> => [M!Next]_(M!mapVars)
        BY DEF ScenesNext, mapVars, M!mapVars
    <2> QED BY <2>1, MapsStep
<1>3. MapsInv => MappingsSafe
    BY MapsInvSafe DEF MappingsSafe
<1> QED BY <1>1, <1>2, <1>3, PTL DEF ScenesSpec
=============================================================================

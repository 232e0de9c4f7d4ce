--------------------------- MODULE ArchiveStreamRead ---------------------------
(***************************************************************************)
(* The streaming decompressor (oh_archive_reader.c).  One thread submits a *)
(* compressed stream piece by piece, another may cancel.  A code of the    *)
(* stream is the number of bytes it expands to; the codes are in order, so *)
(* the bytes are counted and not named.                                    *)
(***************************************************************************)
EXTENDS Naturals, Sequences, SequencesExt, FiniteSetsExt

CONSTANTS
    BlockSize,      \* outBlockSize
    MaxCodes,       \* bound: the codes of a stream
    MaxExpansion,   \* bound: what a code expands to
    MaxStarts       \* bound: the number of Starts

VARIABLES
    todo,           \* codes of the user's stream not submitted yet
    availIn,        \* codes submitted that inflate has not taken
    held,           \* bytes of codes it has taken that it has not put out
    outLen,         \* bytes in outBuf
    streamEnd,      \* inflate has returned Z_STREAM_END
    cancel,         \* decompressCancel
    original,       \* what the whole stream expands to
    delivered,      \* totalOutSize: bytes the user's callback has got
    late,           \* callbacks since Cancel returned, counted up to 2
    starts,
    pc, ret, failed \* the user's thread, its last return value, a call failed

vars == <<todo, availIn, held, outLen, streamEnd, cancel, original, delivered, late,
          starts, pc, ret, failed>>

Bytes(codes) == FoldSeq(LAMBDA a, b : a + b, 0, codes)

Init ==
    /\ todo = <<>> /\ availIn = <<>> /\ held = 0 /\ outLen = 0 /\ streamEnd = FALSE
    /\ cancel = FALSE /\ original = 0 /\ delivered = 0 /\ late = 0 /\ starts = 0
    /\ pc = "idle" /\ ret = "none" /\ failed = FALSE

Return(r) == pc' = "idle" /\ ret' = r /\ failed' = (failed \/ r \notin {"ok", "ended"})

\* Start begins another stream; inflateReset2 drops what zlib holds.
Start(codes) ==
    /\ pc = "idle" /\ starts < MaxStarts /\ starts' = starts + 1
    /\ todo' = codes /\ original' = Bytes(codes)
    /\ availIn' = <<>> /\ held' = 0 /\ outLen' = 0 /\ streamEnd' = FALSE
    /\ cancel' = FALSE /\ delivered' = 0 /\ late' = 0
    /\ ret' = "ok" /\ failed' = FALSE /\ pc' = pc

Update(n) ==
    /\ pc = "idle" /\ ret = "ok" /\ n <= Len(todo)
    /\ availIn' = SubSeq(todo, 1, n) /\ todo' = SubSeq(todo, n + 1, Len(todo))
    /\ pc' = "check"
    /\ UNCHANGED <<held, outLen, streamEnd, cancel, original, delivered, late, starts,
                   ret, failed>>

UpdateCheck ==
    /\ pc = "check"
    /\ \/ cancel /\ Return("cancel")
       \/ ~cancel /\ pc' = "inflate" /\ UNCHANGED <<ret, failed>>
    /\ UNCHANGED <<todo, availIn, held, outLen, streamEnd, cancel, original, delivered,
                   late, starts>>

\* inflate takes codes as long as there is room for what they expand to.  It has
\* to take a code to find out that there is none, so it may hold the rest of one,
\* and the last code may be one of these.
Inflate ==
    /\ pc = "inflate"
    /\ \E n \in 0 .. Len(availIn) :
        LET decoded(k) == held + Bytes(SubSeq(availIn, 1, k)) IN
        /\ n > 0 => decoded(n - 1) <= BlockSize
        /\ decoded(n) >= BlockSize \/ n = Len(availIn)
        /\ outLen' = Min({decoded(n), BlockSize})
        /\ held' = decoded(n) - outLen'
        /\ availIn' = SubSeq(availIn, n + 1, Len(availIn))
    /\ streamEnd' = (todo = <<>> /\ availIn' = <<>> /\ held' = 0)
    /\ pc' = "handle"
    /\ UNCHANGED <<todo, cancel, original, delivered, late, starts, ret, failed>>

LoopDoneAtOnce == TRUE
LoopDoneAtStreamEnd == streamEnd
\* while (avail_in > 0 && avail_out == 0), left early at the end of the stream.
LoopDone == streamEnd \/ availIn = <<>> \/ outLen < BlockSize

\* StreamReadHandle, and the loop's condition.
StreamReadHandle ==
    /\ pc = "handle"
    /\ late' = IF cancel /\ late < 2 THEN late + 1 ELSE late
    /\ \/ /\ delivered' = delivered + outLen
          /\ IF LoopDone THEN Return("ok")
             ELSE pc' = "check" /\ UNCHANGED <<ret, failed>>
       \/ Return("output error") /\ UNCHANGED delivered
    /\ UNCHANGED <<todo, availIn, held, outLen, streamEnd, cancel, original, starts>>

End ==
    /\ pc = "idle" /\ starts > 0 /\ ret # "ended"
    /\ Return("ended")
    /\ UNCHANGED <<todo, availIn, held, outLen, streamEnd, cancel, original, delivered,
                   late, starts>>

Cancel ==
    /\ starts > 0 /\ cancel' = TRUE
    /\ UNCHANGED <<todo, availIn, held, outLen, streamEnd, original, delivered, late,
                   starts, pc, ret, failed>>

Next ==
    \/ \E codes \in SeqOf(1 .. MaxExpansion, MaxCodes) \ {<<>>} : Start(codes)
    \/ \E n \in 1 .. MaxCodes : Update(n)
    \/ UpdateCheck \/ Inflate \/ StreamReadHandle
    \/ End \/ Cancel

\* The thread inside an Update goes on and the callback returns.
Fairness == WF_vars(UpdateCheck \/ Inflate \/ StreamReadHandle)

Spec == Init /\ [][Next]_vars /\ Fairness

-----------------------------------------------------------------------------
\* An Update that succeeds has taken all of its input, which the next Update would
\* otherwise overwrite, and every byte of what it took was handed to the callback
\* or is still held by inflate, to come with the next Update.
NothingSkipped ==
    pc = "idle" /\ ret = "ok" /\ starts > 0
        => availIn = <<>> /\ delivered + held + Bytes(todo) = original

\* Update returns, whatever the stream expands to and however small the block is.
UpdateReturns == pc # "idle" ~> pc = "idle"

\* Once Cancel has returned the callback is called at most once more before the
\* next Start, by the Update that had already looked at the flag.
QuietAfterCancel == late <= 1
=============================================================================

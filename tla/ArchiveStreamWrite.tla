-------------------------- MODULE ArchiveStreamWrite --------------------------
(***************************************************************************)
(* The streaming compressor (oh_archive_streamwrite.c): one thread starts, *)
(* feeds and ends a context, another may cancel it at any time.  zlib is   *)
(* modelled by what it does to the order of the data: it takes input, keeps*)
(* some of it and puts it out later, so one token of input stands for the  *)
(* compressed bytes it becomes.                                            *)
(***************************************************************************)
EXTENDS Naturals, Sequences, SequencesExt

CONSTANTS
    BufSize,        \* blockSize: how much the output buffer holds
    MaxChunk,       \* bound: the tokens given to one Update
    MaxInput,       \* bound: the tokens given between Start and End
    MaxStarts       \* bound: the number of Starts

VARIABLES
    state,          \* ctx->state
    result,         \* ctx->result
    availIn,        \* zstream: input not taken yet (Start leaves it as it is)
    inside,         \* zstream: input taken and not put out yet
    buf,            \* ctx->buf up to next_out
    finished,       \* deflate has returned Z_STREAM_END
    dead,           \* deflateEnd was called: nothing works on the stream any more
    delivered,      \* what the user's callback has got since Start
    given,          \* what the user has handed over since Start
    left,           \* what of it an Update before Start has left to this session
    starts,         \* how often the context was started
    pc,             \* where the user's thread is
    ret,            \* what its last call returned
    failed,         \* a call of the session has failed
    cpc,            \* where the cancelling thread is
    cancelled,      \* Cancel has returned since Start: "no", "yes", or "stale"
                    \* for one that was begun before Start returned
    late            \* callbacks since then, counted up to 3

vars == <<state, result, availIn, inside, buf, finished, dead, delivered, given, left, starts,
          pc, ret, failed, cpc, cancelled, late>>

Init ==
    /\ state = "created" /\ result = "ok"
    /\ availIn = <<>> /\ inside = <<>> /\ buf = <<>> /\ finished = FALSE /\ dead = FALSE
    /\ delivered = <<>> /\ given = <<>> /\ left = <<>> /\ starts = 0
    /\ pc = "idle" /\ ret = "none" /\ failed = FALSE
    /\ cpc = "idle" /\ cancelled = "no" /\ late = 0

Return(r) == pc' = "idle" /\ ret' = r /\ failed' = (failed \/ r # "ok")

-----------------------------------------------------------------------------
(* The user's thread                                                       *)

\* deflateReset drops what zlib holds; input and output pointers stay.  It
\* refuses a stream that was ended.
Reset == IF dead THEN UNCHANGED <<inside, finished>> ELSE inside' = <<>> /\ finished' = FALSE

\* Start of a context that is running cancels it first, in the same thread.
Start ==
    /\ pc = "idle" /\ starts < MaxStarts /\ starts' = starts + 1
    /\ pc' = IF state = "started" THEN "start cancel" ELSE "start reset"
    /\ UNCHANGED <<state, result, availIn, inside, buf, finished, dead, delivered, given, left,
                   ret, failed, cpc, cancelled, late>>

\* Another Cancel may have been faster, and this one then does nothing.
StartCancels ==
    /\ pc = "start cancel"
    /\ \/ state = "started" /\ result' = "cancel" /\ Reset /\ pc' = "start canceled"
       \/ state # "started" /\ pc' = "start reset" /\ UNCHANGED <<result, inside, finished>>
    /\ UNCHANGED <<state, availIn, buf, dead, delivered, given, left, starts, ret, failed,
                   cpc, cancelled, late>>
StartCanceled ==
    /\ pc = "start canceled" /\ state' = "canceled" /\ pc' = "start reset"
    /\ UNCHANGED <<result, availIn, inside, buf, finished, dead, delivered, given, left, starts,
                   ret, failed, cpc, cancelled, late>>

StartResets ==
    /\ pc = "start reset" /\ Reset
    /\ \/ dead /\ Return("deflate error") /\ UNCHANGED buf
       \/ ~dead /\ buf' = <<>> /\ pc' = "start state" /\ UNCHANGED <<ret, failed>>
    /\ UNCHANGED <<state, result, availIn, dead, delivered, given, left, starts, cpc, cancelled, late>>

\* The state says that the context is started before the result is OK again: a
\* Cancel that comes in between has its result overwritten.
StartState ==
    /\ pc = "start state" /\ state' = "started" /\ pc' = "start result"
    /\ UNCHANGED <<result, availIn, inside, buf, finished, dead, delivered, given, left, starts,
                   ret, failed, cpc, cancelled, late>>
StartResult ==
    /\ pc = "start result" /\ result' = "ok"
    /\ delivered' = <<>> /\ given' = <<>> /\ left' = availIn
    /\ pc' = "idle" /\ ret' = "ok" /\ failed' = FALSE /\ late' = 0
    /\ cancelled' = IF cpc = "idle" THEN "no" ELSE "stale"
    /\ UNCHANGED <<state, availIn, inside, buf, finished, dead, starts, cpc>>

Update ==
    /\ pc = "idle" /\ starts > 0
    /\ \/ result # "ok" /\ Return(result)
       \/ result = "ok" /\ pc' = "push" /\ UNCHANGED <<ret, failed>>
    /\ UNCHANGED <<state, result, availIn, inside, buf, finished, dead, delivered, given, left,
                   starts, cpc, cancelled, late>>

PushDataSequential(n) ==
    /\ pc = "push" /\ Len(given) + n <= MaxInput
    /\ \/ state # "started" /\ Return("param") /\ UNCHANGED <<availIn, given, left>>
       \/ /\ state = "started"
          /\ LET data == [i \in 1 .. n |-> Len(given) + i]
             IN  availIn' = data /\ given' = given \o data /\ left' = <<>>
          /\ pc' = "update" /\ UNCHANGED <<ret, failed>>
    /\ UNCHANGED <<state, result, inside, buf, finished, dead, delivered, starts, cpc, cancelled, late>>

End ==
    /\ pc = "idle" /\ starts > 0
    /\ \/ /\ state \notin {"started", "canceled"}
          /\ Return("param")
       \/ /\ state \in {"started", "canceled"}
          /\ pc' = "finish" /\ UNCHANGED <<ret, failed>>
    /\ UNCHANGED <<state, result, availIn, inside, buf, finished, dead, delivered, given, left,
                   starts, cpc, cancelled, late>>

\* The loop of FlushInternalData, one round: look at the result, hand a full
\* buffer to the callback, call deflate.  A Cancel may come between any two.
FlushCheck ==
    /\ pc \in {"update", "finish"}
    /\ \/ result # "ok" /\ Return(result)
       \/ /\ result = "ok" /\ UNCHANGED <<ret, failed>>
          /\ pc' = IF pc = "update" THEN "update round" ELSE "finish round"
    /\ UNCHANGED <<state, result, availIn, inside, buf, finished, dead, delivered, given, left,
                   starts, cpc, cancelled, late>>

InRound == pc \in {"update round", "finish round"}

\* The user's callback is called.
Called == late' = IF cancelled = "yes" /\ late < 3 THEN late + 1 ELSE late

FlushBuffer ==
    /\ InRound /\ Len(buf) = BufSize
    /\ \/ /\ delivered' = delivered \o buf /\ buf' = <<>>
          /\ UNCHANGED <<pc, ret, failed>>
       \/ Return("output error") /\ UNCHANGED <<delivered, buf>>
    /\ UNCHANGED <<state, result, availIn, inside, finished, dead, given, left, starts, cpc, cancelled>>
    /\ Called

\* zlib.  deflate takes input and puts out what it has made of it until it has no
\* more of the one or room for the other, and with Z_FINISH until all is out (if
\* it can tell that with a full buffer, or in the next round).
Deflate(finish) ==
    \E k \in 0 .. Len(availIn), n \in 0 .. (BufSize - Len(buf)) :
        LET all == inside \o SubSeq(availIn, 1, k) IN
        /\ n <= Len(all)
        /\ k = Len(availIn) \/ n = BufSize - Len(buf)
        /\ buf' = buf \o SubSeq(all, 1, n)
        /\ inside' = SubSeq(all, n + 1, Len(all))
        /\ availIn' = SubSeq(availIn, k + 1, Len(availIn))
        /\ finished' \in BOOLEAN
        /\ finished' => finish /\ k = Len(availIn) /\ n = Len(all)
        /\ finish => finished' \/ n = BufSize - Len(buf)

LoopDoneAlways(finish) == TRUE
LoopDoneAtStreamEnd(finish) == finished'
\* The loop ends when the input is taken, and for End at the end of the stream.
LoopDone(finish) == finished' \/ (~finish /\ availIn' = <<>>)

FlushInternalData ==
    /\ InRound /\ Len(buf) < BufSize /\ ~dead
    /\ LET finish == pc = "finish round" IN
       /\ Deflate(finish)
       /\ IF LoopDone(finish) /\ ~finish THEN Return("ok")
          ELSE /\ pc' = CASE LoopDone(finish) -> "remainder"
                          [] finish -> "finish" [] OTHER -> "update"
               /\ UNCHANGED <<ret, failed>>
    /\ UNCHANGED <<state, result, dead, delivered, given, left, starts, cpc, cancelled, late>>

\* deflate fails: no input and nothing to do (an empty Update after another), a
\* stream that was ended, or one that the other thread is resetting.  The stream
\* is ended, which the context does not remember.
DeflateFails ==
    /\ InRound /\ Len(buf) < BufSize
    /\ dead' = TRUE /\ Return("data error")
    /\ UNCHANGED <<state, result, availIn, inside, buf, finished, delivered, given, left, starts,
                   cpc, cancelled, late>>

\* The rest of End: what is in the buffer goes to the callback.
EndRemainder ==
    /\ pc = "remainder"
    /\ \/ /\ delivered' = delivered \o buf
          /\ state' = "ended" /\ Return("ok")
       \/ Return("output error") /\ UNCHANGED <<delivered, state>>
    /\ UNCHANGED <<result, availIn, inside, buf, finished, dead, given, left, starts, cpc, cancelled>>
    /\ Called

-----------------------------------------------------------------------------
(* Cancel, in another thread                                               *)

CancelBegin ==
    /\ cpc = "idle" /\ state = "started" /\ cpc' = "result"
    /\ UNCHANGED <<state, result, availIn, inside, buf, finished, dead, delivered, given, left,
                   starts, pc, ret, failed, cancelled, late>>

CancelResultNot ==
    /\ cpc = "result" /\ cpc' = "reset"
    /\ UNCHANGED <<state, result, availIn, inside, buf, finished, dead, delivered, given, left,
                   starts, pc, ret, failed, cancelled, late>>

CancelResult ==
    /\ cpc = "result" /\ result' = "cancel" /\ cpc' = "reset"
    /\ UNCHANGED <<state, availIn, inside, buf, finished, dead, delivered, given, left, starts,
                   pc, ret, failed, cancelled, late>>

\* deflateReset of a stream that the other thread may be compressing with.
CancelReset ==
    /\ cpc = "reset"
    /\ Reset /\ cpc' = "state"
    /\ UNCHANGED <<state, result, availIn, buf, dead, delivered, given, left, starts, pc, ret,
                   failed, cancelled, late>>

CancelReturns ==
    /\ cpc = "state"
    /\ state' = "canceled" /\ cpc' = "idle"
    /\ cancelled' = IF cancelled = "stale" THEN "stale" ELSE "yes"
    /\ UNCHANGED <<result, availIn, inside, buf, finished, dead, delivered, given, left, starts,
                   pc, ret, failed, late>>

-----------------------------------------------------------------------------
Next ==
    \/ Start \/ StartCancels \/ StartCanceled \/ StartResets \/ StartState \/ StartResult
    \/ Update \/ (\E n \in 0 .. MaxChunk : PushDataSequential(n)) \/ End
    \/ FlushCheck \/ FlushBuffer \/ FlushInternalData \/ DeflateFails \/ EndRemainder
    \/ CancelBegin \/ CancelResult \/ CancelReset \/ CancelReturns

\* The thread that is inside a call goes on, the callback returns, and so does a
\* Cancel that was begun.
Going ==
    \/ StartCancels \/ StartCanceled \/ StartResets \/ StartState \/ StartResult
    \/ (\E n \in 0 .. MaxChunk : PushDataSequential(n))
    \/ FlushCheck \/ FlushBuffer \/ FlushInternalData \/ DeflateFails \/ EndRemainder
Fairness == /\ WF_vars(Going)
            /\ WF_vars(CancelResult \/ CancelReset \/ CancelReturns)

Spec == Init /\ [][Next]_vars /\ Fairness

-----------------------------------------------------------------------------
\* When End succeeds, in a session in which no call failed and that no Cancel has
\* touched (not one begun before Start returned either, which still resets the
\* stream), the callback has got everything that was handed over, in order and
\* once, however zlib held it back and however full the buffer was in between.
\* Of a session without an Update it has got what an earlier Update that did not
\* end well had left in the stream, since Start does not clear it.
EndDeliversAll ==
    pc = "idle" /\ state = "ended" /\ ret = "ok" /\ ~failed /\ cpc = "idle" /\ cancelled = "no"
        => delivered = left \o given

\* Once a Cancel that was begun after Start returned has returned, the user's
\* callback is called at most twice more until the next Start, by the call that
\* had just looked at the result: a caller that cancels may count on the
\* compressor going quiet, not on it being quiet already.
QuietAfterCancel == late <= 2

\* Start, Update and End return, cancelled or not: Update's loop too, which goes on
\* as long as deflate has not taken the input.
CallsReturn == pc # "idle" ~> pc = "idle"
=============================================================================

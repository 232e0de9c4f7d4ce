----------------------------- MODULE MCSessions -----------------------------
(* The sessions of the native libraries, each with threads that meet in    *)
(* it: the compressing and the decompressing stream, HyperAio and the      *)
(* asynchronous calls of the dynamic bindings.  A history is one of one of *)
(* them; the others stay as they begin, with no call under way.            *)
EXTENDS HyperAio

CONSTANTS BufSize, MaxChunk, MaxInput, BlockSize, MaxCodes, MaxExpansion, MaxStarts, AsyncCalls

ASSUME SessionsConstants ==
    /\ {BufSize, BlockSize} \subseteq Nat \ {0}
    /\ {MaxChunk, MaxInput, MaxCodes, MaxExpansion, MaxStarts} \subseteq Nat

VARIABLES
    library,    \* whose history this is
    state, result, wAvailIn, inside, buf, finished, dead, wDelivered, given, left, wStarts, wPc, wRet, wFailed,
    cpc, cancelled, wLate,
    todo, rAvailIn, held, outLen, streamEnd, cancel, original, rDelivered, rLate, rStarts, rPc, rRet, rFailed,
    aLibrary, fallible, form, at, this, aHeld, context, work, events, said, aAnswers

wVars == <<state, result, wAvailIn, inside, buf, finished, dead, wDelivered, given, left, wStarts, wPc, wRet, wFailed,
           cpc, cancelled, wLate>>
rVars == <<todo, rAvailIn, held, outLen, streamEnd, cancel, original, rDelivered, rLate, rStarts, rPc, rRet,
           rFailed>>
aVars == <<aLibrary, fallible, form, at, this, aHeld, context, work, events, said, aAnswers>>

Write == INSTANCE ArchiveStreamWrite WITH
    availIn <- wAvailIn, delivered <- wDelivered, starts <- wStarts, pc <- wPc, ret <- wRet,
    failed <- wFailed, late <- wLate
Read == INSTANCE ArchiveStreamRead WITH
    availIn <- rAvailIn, delivered <- rDelivered, starts <- rStarts, pc <- rPc, ret <- rRet,
    failed <- rFailed, late <- rLate
Async == INSTANCE NAsyncWork WITH
    Calls <- AsyncCalls, library <- aLibrary, held <- aHeld, answers <- aAnswers

SessionsInit ==
    /\ library \in {"hyperaio", "write", "read", "async"}
    /\ Init /\ Write!Init /\ Read!Init /\ Async!Init
    /\ library # "hyperaio" => ~faulty
    /\ library # "async" => ~fallible /\ aLibrary = "libn"
SessionsNext ==
    /\ \/ library = "hyperaio" /\ Next /\ UNCHANGED <<wVars, rVars, aVars>>
       \/ library = "write" /\ Write!Next /\ UNCHANGED <<vars, rVars, aVars>>
       \/ library = "read" /\ Read!Next /\ UNCHANGED <<vars, wVars, aVars>>
       \/ library = "async" /\ Async!Next /\ UNCHANGED <<vars, wVars, rVars>>
    /\ UNCHANGED library
SessionsSpec ==
    /\ SessionsInit /\ [][SessionsNext]_<<library, vars, wVars, rVars, aVars>>
    /\ Fairness /\ Write!Fairness /\ Read!Fairness /\ Async!Fairness

(* Whoever asked is answered, once: requests of HyperAio and asynchronous  *)
(* calls; what they left with the worker has an owner until then.          *)
RequestsSettled == RequestsAccounted /\ Async!ContextsOwned /\ Async!AnsweredIfAccepted
(* Both streams deliver what they were given, in order and once, however   *)
(* the bytes fall on the buffers: the writer by the end of the session,    *)
(* the reader what an Update took.                                         *)
StreamsComplete == Write!EndDeliversAll /\ Read!NothingSkipped
(* Once a Cancel has returned, a stream calls the user back only from the  *)
(* call that was under way, and then once or twice at most.                *)
QuietAfterCancel == Write!QuietAfterCancel /\ Read!QuietAfterCancel
(* Every call of the libraries returns, cancelled, destroyed or not, every *)
(* request HyperAio accepted is answered if nothing fails, and so is every *)
(* asynchronous call.                                                      *)
CallsReturn ==
    RequestsAnswered /\ DestroyReturns /\ Write!CallsReturn /\ Read!UpdateReturns /\ Async!CallsAnswered
=============================================================================

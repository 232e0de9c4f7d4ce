------------------------------- MODULE HyperAio -------------------------------
(***************************************************************************)
(* HyperAio (hyperaio.cpp): a thread hands batches of requests to an       *)
(* io_uring, a harvest thread calls the user back for every completion.    *)
(* The two share only the count of completions to come, pendingCqeCount_.  *)
(* Nothing in the class guards the submission queue, so one thread starts  *)
(* requests, initialises and destroys.                                     *)
(***************************************************************************)
EXTENDS Naturals, Sequences, SequencesExt

CONSTANTS
    QueueSize,      \* URING_QUEUE_SIZE
    BatchSize,      \* BATCH_SIZE
    Retries,        \* RETRIES
    MaxReqs,        \* bound: the requests made altogether
    MaxInits        \* bound: how often the context is initialised

ASSUME HyperAioConstants ==
    QueueSize \in Nat \ {0} /\ {BatchSize, Retries, MaxReqs, MaxInits} \subseteq Nat

Reqs == 1 .. MaxReqs        \* a request's userData

VARIABLES
    initialized, destroyed, stopThread,
    pendingCqeCount,
    sq,             \* submission queue: prepared requests
    inflight,       \* requests the kernel works on
    cq,             \* completion queue
    made,           \* requests made so far
    cancels,        \* target of each cancel request
    answers,        \* calls of ioResultCallBack_ for each request
    pc,             \* the calling thread
    reqs,           \* requests of the call not prepared yet
    info,           \* openInfoVec, readInfoVec, cancelInfoVec
    count,          \* requests prepared since the last submit
    tries,          \* rounds of GetSqeWithRetry
    hpc,            \* the harvest thread
    inits,
    faulty          \* in this history io_uring_submit may fail or take only a part,
                    \* and io_uring_wait_cqe may fail

ring == <<sq, inflight, cq>>
call == <<reqs, info, count, tries>>
flags == <<initialized, destroyed, stopThread, inits, faulty>>
vars == <<flags, pendingCqeCount, ring, made, cancels, answers, pc, call, hpc>>

Init ==
    /\ initialized = FALSE /\ destroyed = FALSE /\ stopThread = TRUE /\ inits = 0
    /\ pendingCqeCount = 0 /\ sq = <<>> /\ inflight = {} /\ cq = <<>>
    /\ made = 0 /\ cancels = [r \in {} |-> 0] /\ answers = [r \in Reqs |-> 0]
    /\ pc = "idle" /\ reqs = <<>> /\ info = {} /\ count = 0 /\ tries = 0
    /\ hpc = "ended"
    /\ faulty \in BOOLEAN

-----------------------------------------------------------------------------
(* The kernel                                                              *)

\* io_uring_submit: the kernel takes what is queued; when it fails, nothing, and
\* the requests stay queued for the next submit.
Submit(taken, queue) ==
    /\ sq' = SubSeq(queue, taken + 1, Len(queue))
    /\ inflight' = inflight \cup ToSet(SubSeq(queue, 1, taken))
Taken(queue) == IF faulty THEN 0 .. Len(queue) ELSE {Len(queue)}

\* A request completes; a cancellation completes its target if it is still there.
CancelHits(r) == r \in DOMAIN cancels /\ cancels[r] \in inflight
Complete(r) ==
    /\ r \in inflight /\ initialized
    /\ \/ /\ CancelHits(r)
          /\ inflight' = inflight \ {r, cancels[r]} /\ cq' = cq \o <<cancels[r], r>>
       \/ /\ ~CancelHits(r)
          /\ inflight' = inflight \ {r} /\ cq' = Append(cq, r)
    /\ UNCHANGED <<flags, pendingCqeCount, sq, made, cancels, answers, pc, call, hpc>>

-----------------------------------------------------------------------------
(* The calling thread                                                      *)

\* The harvest thread has cqeMutex_ whenever it runs; it gives it up to sleep.
MutexFree == hpc \in {"asleep", "unlocked", "ended"}
Woken == IF hpc = "asleep" THEN "unlocked" ELSE hpc

CtxInit ==
    /\ pc = "idle" /\ ~initialized /\ inits < MaxInits
    /\ initialized' = TRUE /\ stopThread' = FALSE /\ inits' = inits + 1
    /\ sq' = <<>> /\ inflight' = {} /\ cq' = <<>> /\ hpc' = "unlocked"
    /\ UNCHANGED <<faulty, destroyed, pendingCqeCount, made, cancels, answers, pc, call>>

CheckParameter(n) == initialized /\ ~destroyed /\ n \in 1 .. QueueSize

\* The three kinds of request differ in what they ask of the kernel only.
Start(n, targets) ==
    /\ pc = "idle" /\ CheckParameter(n) /\ made + n <= MaxReqs
    /\ made' = made + n
    /\ reqs' = [i \in 1 .. n |-> made + i] /\ info' = {} /\ count' = 0 /\ tries' = 0
    /\ cancels' = [r \in DOMAIN cancels \cup {made + i : i \in DOMAIN targets} |->
                      IF r \in DOMAIN cancels THEN cancels[r] ELSE targets[r - made]]
    /\ pc' = "sqe"
    /\ UNCHANGED <<flags, pendingCqeCount, ring, answers, hpc>>
StartOpenReqs(n) == Start(n, <<>>)
StartReadReqs(n) == Start(n, <<>>)
StartCancelReqs(target) == target <= made /\ Start(1, <<target>>)

\* io_uring_get_sqe succeeds: the request is prepared, and a full batch, or the
\* last one, goes to the submit.
PrepareSqe ==
    /\ pc = "sqe" /\ Len(sq) < QueueSize
    /\ sq' = Append(sq, Head(reqs)) /\ reqs' = Tail(reqs)
    /\ info' = info \cup {Head(reqs)} /\ count' = count + 1 /\ tries' = 0
    /\ pc' = IF count' >= BatchSize \/ reqs' = <<>> THEN "submit" ELSE "sqe"
    /\ UNCHANGED <<flags, pendingCqeCount, inflight, cq, made, cancels, answers, hpc>>

GetSqeWithRetry ==
    /\ pc = "sqe" /\ Len(sq) = QueueSize /\ tries < Retries
    /\ tries' = tries + 1
    /\ \E n \in Taken(sq) : Submit(n, sq)
    /\ UNCHANGED <<flags, pendingCqeCount, cq, made, cancels, answers, pc, reqs, info,
                   count, hpc>>

\* HandleRequestError: the callback, with an error, in the calling thread.
\* bound: more than two answers are counted as two
HandleRequestError(S) ==
    answers' = [r \in Reqs |-> IF r \in S /\ answers[r] < 2 THEN answers[r] + 1
                               ELSE answers[r]]

HandleSqeErrorForgetsRest ==
    /\ pc = "sqe" /\ Len(sq) = QueueSize /\ tries = Retries
    /\ \E n \in IF count > 0 THEN Taken(sq) ELSE {0} :
        /\ Submit(n, sq)
        /\ HandleRequestError(IF count > 0 /\ n = 0 THEN info ELSE {})
    /\ reqs' = <<>> /\ pc' = "idle"
    /\ UNCHANGED <<flags, pendingCqeCount, cq, made, cancels, info, count, tries, hpc>>

\* HandleSqeError, then the rest of the requests: those prepared are submitted,
\* counted in readReqCount_ and not in pendingCqeCount_.
HandleSqeError ==
    /\ pc = "sqe" /\ Len(sq) = QueueSize /\ tries = Retries
    /\ \E n \in IF count > 0 THEN Taken(sq) ELSE {0} :
        /\ Submit(n, sq)
        /\ HandleRequestError(ToSet(reqs) \cup IF count > 0 /\ n = 0 THEN info ELSE {})
    /\ reqs' = <<>> /\ pc' = "idle"
    /\ UNCHANGED <<flags, pendingCqeCount, cq, made, cancels, info, count, tries, hpc>>

\* The vector of names is emptied by HandleRequestError only: it holds the requests
\* of earlier batches too.
SubmitBatch ==
    /\ pc = "submit"
    /\ \E n \in Taken(sq) :
        /\ Submit(n, sq)
        /\ IF n = 0 THEN HandleRequestError(info) /\ info' = {}
           ELSE UNCHANGED <<answers, info>>
    /\ pc' = "count"
    /\ UNCHANGED <<flags, pendingCqeCount, cq, made, cancels, reqs, count, tries, hpc>>

CountPending ==
    /\ pc = "count" /\ MutexFree
    /\ pendingCqeCount' = pendingCqeCount + count /\ count' = 0
    /\ hpc' = Woken
    /\ pc' = IF reqs = <<>> THEN "idle" ELSE "sqe"
    /\ UNCHANGED <<flags, ring, made, cancels, answers, reqs, info, tries>>

DestroyCtx ==
    /\ pc = "idle" /\ initialized
    /\ destroyed' = TRUE /\ pc' = "stop"
    /\ UNCHANGED <<faulty, initialized, stopThread, inits, pendingCqeCount, ring, made, cancels,
                   answers, call, hpc>>

DestroyStopIf(notify) ==
    /\ pc = "stop" /\ MutexFree
    /\ stopThread' = TRUE /\ hpc' = (IF notify THEN Woken ELSE hpc) /\ pc' = "join"
    /\ UNCHANGED <<faulty, initialized, destroyed, inits, pendingCqeCount, ring, made, cancels,
                   answers, call>>
DestroyStopUnheard == DestroyStopIf(FALSE)
DestroyStop == DestroyStopIf(TRUE)

DestroyJoin ==
    /\ pc = "join" /\ hpc = "ended"
    /\ sq' = <<>> /\ inflight' = {} /\ cq' = <<>>
    /\ initialized' = FALSE /\ pc' = "idle"
    /\ UNCHANGED <<faulty, destroyed, stopThread, inits, pendingCqeCount, made, cancels, answers,
                   call, hpc>>

-----------------------------------------------------------------------------
(* The harvest thread                                                      *)

HarvestLock ==
    /\ hpc = "unlocked"
    /\ hpc' = IF pendingCqeCount > 0 \/ stopThread THEN "harvest" ELSE "asleep"
    /\ UNCHANGED <<flags, pendingCqeCount, ring, made, cancels, answers, pc, call>>

GetIoResultIf(seen) ==
    /\ hpc = "harvest" /\ pendingCqeCount > 0
    /\ pendingCqeCount' = pendingCqeCount - 1
    /\ \/ /\ cq # <<>> /\ HandleRequestError({Head(cq)})
          /\ cq' = IF seen THEN Tail(cq) ELSE cq
       \/ faulty /\ UNCHANGED <<cq, answers>>
    /\ UNCHANGED <<flags, sq, inflight, made, cancels, pc, call, hpc>>
GetIoResultUnseen == GetIoResultIf(FALSE)
GetIoResult == GetIoResultIf(TRUE)

HarvestResStopsAtOnce ==
    /\ hpc = "harvest" /\ (pendingCqeCount = 0 \/ stopThread)
    /\ hpc' = IF stopThread THEN "ended" ELSE "unlocked"
    /\ UNCHANGED <<flags, pendingCqeCount, ring, made, cancels, answers, pc, call>>

HarvestRes ==
    /\ hpc = "harvest" /\ pendingCqeCount = 0
    /\ hpc' = IF stopThread THEN "ended" ELSE "unlocked"
    /\ UNCHANGED <<flags, pendingCqeCount, ring, made, cancels, answers, pc, call>>

-----------------------------------------------------------------------------
Caller == PrepareSqe \/ GetSqeWithRetry \/ HandleSqeError \/ SubmitBatch \/ CountPending
          \/ DestroyStop \/ DestroyJoin
Harvester == HarvestLock \/ GetIoResult \/ HarvestRes

Next ==
    \/ CtxInit \/ DestroyCtx
    \/ \E n \in 1 .. QueueSize : StartOpenReqs(n) \/ StartReadReqs(n)
    \/ \E target \in Reqs : StartCancelReqs(target)
    \/ Caller \/ Harvester
    \/ \E r \in Reqs : Complete(r)

\* A thread inside a call goes on when it can, and the kernel completes what it
\* was given.
Fairness ==
    /\ WF_vars(Caller) /\ WF_vars(Harvester)
    /\ \A r \in Reqs : WF_vars(Complete(r))

Spec == Init /\ [][Next]_vars /\ Fairness

-----------------------------------------------------------------------------
\* Whatever fails, a request that was accepted has been answered, or it is still on
\* its way through the ring: none falls between the batches, the retries for a free
\* entry and the error paths.  (Destroying drops what is in the ring.)
NothingForgotten ==
    ~destroyed => \A r \in 1 .. made :
        answers[r] > 0 \/ r \in ToSet(reqs) \cup ToSet(sq) \cup inflight \cup ToSet(cq)

\* If nothing fails the callback is called at most once for a request.
AnsweredOnce == ~faulty => \A r \in Reqs : answers[r] <= 1

\* The callback accounts for the requests: none twice and none forgotten.
RequestsAccounted == AnsweredOnce /\ NothingForgotten

\* Every accepted request is answered, if nothing fails: harvest thread and caller
\* do not miss each other, also when the context is being destroyed.
RequestsAnswered == \A r \in Reqs : ~faulty /\ made >= r ~> answers[r] > 0

\* DestroyCtx returns if nothing fails.  (After a failed submit the harvest thread
\* waits for completions that do not come and DestroyCtx waits for the thread.)
DestroyReturns == ~faulty /\ pc \in {"stop", "join"} ~> pc = "idle"
=============================================================================

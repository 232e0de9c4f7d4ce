-------------------------- MODULE UringReadEngine --------------------------
(***************************************************************************)
(* The pool of io_uring rings behind SwapIn (swapfs_uring_read_engine.cpp).*)
(* A Read takes a ring for itself, submits one request on it, waits for    *)
(* that request's completion, and gives the ring back; whenever anything   *)
(* went wrong the ring is first torn down and built anew.  The kernel      *)
(* writes to the caller's buffer until the request completes, however the  *)
(* Read fares meanwhile.                                                   *)
(*                                                                         *)
(* The destructor is modelled as the C API runs it: with no Read under way *)
(* (DestroyUndisturbed in SwapfsApi).                                      *)
(***************************************************************************)
EXTENDS Naturals, Sequences, FiniteSets, FiniteSetsExt

CONSTANTS
    Threads,        \* threads that read
    NoThread,       \* the owner of a cancellation, which writes to no buffer
    PoolSize,       \* URING_POOL_SIZE
    MaxReads        \* bound: calls of Read that get as far as the pool

ASSUME PoolConstants ==
    PoolSize \in Nat \ {0} /\ MaxReads \in Nat /\ NoThread \notin Threads

Slots == 1 .. PoolSize
NoSlot == 0

VARIABLES
    initialized,    \* initializeFlag_
    available, inUse,   \* the fields of each RingSlot
    open,           \* the ring of a slot exists: QueueInit without QueueExit
    sq,             \* ids prepared on a ring and not yet submitted
    cq,             \* completions of a ring not yet seen: [id, full]
    flying,         \* requests the kernel works on: [id, slot, owner]
    nextRequestId,
    filled,         \* threads whose buffer their present request filled
    asleep,         \* threads waiting on poolCv_
    reads,          \* calls of Read so far
    pc,
    mine            \* the locals of a Read: slot, id, failed (an error is set),
                    \* rebuild, cancelAttempted

pool    == <<initialized, available, inUse>>
rings   == <<open, sq, cq, flying>>
threads == <<asleep, reads, pc>>
uVars   == <<pool, rings, nextRequestId, filled, threads, mine>>

NoLocals == [slot |-> NoSlot, id |-> 0, failed |-> FALSE, rebuild |-> FALSE,
             cancelAttempted |-> FALSE]

UringInit ==
    /\ initialized = FALSE
    /\ available = [s \in Slots |-> FALSE] /\ inUse = [s \in Slots |-> FALSE]
    /\ open = [s \in Slots |-> FALSE]
    /\ sq = [s \in Slots |-> {}] /\ cq = [s \in Slots |-> << >>]
    /\ flying = {}
    /\ nextRequestId = 1
    /\ filled = {} /\ asleep = {} /\ reads = 0
    /\ pc = [t \in Threads |-> "idle"]
    /\ mine = [t \in Threads |-> NoLocals]

Goto(t, from, to) == pc[t] = from /\ pc' = [pc EXCEPT ![t] = to]

HasAvailableRing == \E s \in Slots : available[s]

Free(s) == available[s] /\ ~inUse[s]

-----------------------------------------------------------------------------
(* The kernel (external)                                                   *)

\* A request ends: the buffer is filled, or the read was short, failed or was
\* cancelled.  The completion of a ring that is gone is lost.
Complete(r) ==
    \E full \in BOOLEAN :
        /\ r \in flying
        /\ full => r.owner # NoThread
        /\ flying' = flying \ {r}
        /\ filled' = IF full THEN filled \cup {r.owner} ELSE filled
        /\ cq' = IF r.slot = NoSlot THEN cq
                 ELSE [cq EXCEPT ![r.slot] = Append(@, [id |-> r.id, full |-> full])]
        /\ UNCHANGED <<pool, open, sq, nextRequestId, threads, mine>>

\* What was prepared on s goes to the kernel.
Submitted(s, ids, owner) ==
    flying' = flying \cup
        {[id |-> i, slot |-> s, owner |-> IF i = mine[owner].id THEN owner ELSE NoThread] :
            i \in ids}

-----------------------------------------------------------------------------
(* The pool                                                                *)

\* Once, before the first answer of IsAvailable; no ring without the permission.
InitializePool(t) ==
    /\ ~initialized
    /\ pc[t] = "idle"
    /\ initialized' = TRUE
    /\ available' \in [Slots -> BOOLEAN]
    /\ open' = available'
    /\ UNCHANGED <<inUse, sq, cq, flying, nextRequestId, filled, threads, mine>>

\* Read, past IsAvailable and the check of the alignment.
Read(t) ==
    /\ initialized /\ HasAvailableRing
    /\ reads < MaxReads                         \* bound MaxReads
    /\ Goto(t, "idle", "acquire")
    /\ reads' = reads + 1
    /\ filled' = filled \ {t}
    /\ UNCHANGED <<pool, rings, nextRequestId, asleep, mine>>

AcquireSlot(t) ==
    /\ t \notin asleep
    /\ \/ /\ \E s \in Slots : Free(s)
          /\ Goto(t, "acquire", "open")
          /\ LET s == Min({x \in Slots : Free(x)}) IN
             /\ inUse' = [inUse EXCEPT ![s] = TRUE]
             /\ mine' = [mine EXCEPT ![t].slot = s]
          /\ UNCHANGED asleep
       \/ /\ HasAvailableRing /\ \A s \in Slots : ~Free(s)
          /\ Goto(t, "acquire", "acquire")
          /\ asleep' = asleep \cup {t}
          /\ UNCHANGED <<inUse, mine>>
       \/ /\ ~HasAvailableRing
          /\ Goto(t, "acquire", "idle")
          /\ UNCHANGED <<inUse, asleep, mine>>
    /\ UNCHANGED <<initialized, available, rings, nextRequestId, filled, reads>>

\* The file is opened, or Read gives up and gives the ring back.
OpenSwapFileForRead(t) ==
    /\ \/ Goto(t, "open", "sqe") /\ UNCHANGED mine
       \/ Goto(t, "open", "release") /\ mine' = [mine EXCEPT ![t].failed = TRUE]
    /\ UNCHANGED <<pool, rings, nextRequestId, filled, asleep, reads>>

ReleaseSlot(t) ==
    /\ Goto(t, "release", "notify")
    /\ inUse' = [inUse EXCEPT ![mine[t].slot] = FALSE]
    /\ UNCHANGED <<initialized, available, rings, nextRequestId, filled, asleep,
                   reads, mine>>

ReleaseSlotNotifiesOne(t) ==
    /\ Goto(t, "notify", "idle")
    /\ asleep' = IF asleep = {} THEN {} ELSE asleep \ {CHOOSE u \in asleep : TRUE}
    /\ mine' = [mine EXCEPT ![t] = NoLocals]
    /\ UNCHANGED <<pool, rings, nextRequestId, filled, reads>>

\* poolCv_.notify_all() after the mutex was given up; Read returns.
NotifyAll(t) ==
    /\ Goto(t, "notify", "idle")
    /\ asleep' = {}
    /\ mine' = [mine EXCEPT ![t] = NoLocals]
    /\ UNCHANGED <<pool, rings, nextRequestId, filled, reads>>

\* QueueExit and QueueInit.  A ring's queues go with it; a request the kernel
\* still works on does not.
RebuildSlot(t) ==
    LET s == mine[t].slot IN
    /\ Goto(t, "rebuild", "release")
    /\ \E rebuilt \in BOOLEAN :
        /\ open' = [open EXCEPT ![s] = rebuilt]
        /\ available' = [available EXCEPT ![s] = rebuilt]
    /\ sq' = [sq EXCEPT ![s] = {}] /\ cq' = [cq EXCEPT ![s] = << >>]
    /\ flying' = {IF r.slot = s THEN [r EXCEPT !.slot = NoSlot] ELSE r : r \in flying}
    /\ UNCHANGED <<initialized, inUse, nextRequestId, filled, asleep, reads, mine>>

-----------------------------------------------------------------------------
(* SubmitRead                                                              *)

PrepareRequest(t) ==
    LET s == mine[t].slot IN
    /\ nextRequestId' = nextRequestId + 1
    /\ \/ /\ Goto(t, "sqe", "submit")
          /\ sq' = [sq EXCEPT ![s] = @ \cup {nextRequestId}]
          /\ mine' = [mine EXCEPT ![t].id = nextRequestId]
       \/ /\ Goto(t, "sqe", "rebuild")
          /\ mine' = [mine EXCEPT ![t].failed = TRUE]
          /\ UNCHANGED sq
    /\ UNCHANGED <<pool, open, cq, flying, filled, asleep, reads>>

\* Submit, retried while interrupted, takes all that was prepared or fails.
Submit(t) ==
    LET s == mine[t].slot
        one == Cardinality(sq[s]) = 1
    IN
    /\ pc[t] = "submit"
    /\ \/ /\ Goto(t, "submit", "wait")
          /\ Submitted(s, sq[s], t)
          /\ sq' = [sq EXCEPT ![s] = {}]
          /\ mine' = [mine EXCEPT ![t].failed = ~one, ![t].rebuild = ~one]
       \/ /\ Goto(t, "submit", "rebuild")
          /\ mine' = [mine EXCEPT ![t].failed = TRUE]
          /\ UNCHANGED <<sq, flying>>
    /\ UNCHANGED <<pool, open, cq, nextRequestId, filled, asleep, reads>>

-----------------------------------------------------------------------------
(* WaitForCompletion                                                       *)

HandleWaitFailureGivesUp(t) ==
    /\ Goto(t, "wait", "rebuild")
    /\ mine' = [mine EXCEPT ![t].failed = TRUE, ![t].rebuild = TRUE]
    /\ UNCHANGED <<pool, rings, nextRequestId, filled, asleep, reads>>

\* The wait failed: the request is cancelled, once, and waited for all the same.
\* The cancellation may get no entry, stay unsubmitted, or reach the kernel.
HandleWaitFailure(t) ==
    LET s == mine[t].slot IN
    /\ Goto(t, "wait", "wait")
    /\ mine' = [mine EXCEPT ![t].failed = TRUE, ![t].rebuild = TRUE,
                            ![t].cancelAttempted = TRUE]
    /\ \/ mine[t].cancelAttempted /\ UNCHANGED <<sq, flying, nextRequestId>>
       \/ /\ ~mine[t].cancelAttempted
          /\ nextRequestId' = nextRequestId + 1
          /\ \/ UNCHANGED <<sq, flying>>
             \/ sq' = [sq EXCEPT ![s] = @ \cup {nextRequestId}] /\ UNCHANGED flying
             \/ Submitted(s, sq[s] \cup {nextRequestId}, t) /\ sq' = [sq EXCEPT ![s] = {}]
    /\ UNCHANGED <<pool, open, cq, filled, asleep, reads>>

\* The wait returned a completion, which is marked as seen.  If it is not the one
\* waited for, the wait goes on and the ring is not to be used again.
Seen(t) == Head(cq[mine[t].slot])

SeeCompletion(t, awaited, next, failed) ==
    /\ pc[t] = "wait" /\ cq[mine[t].slot] # << >>
    /\ cq' = [cq EXCEPT ![mine[t].slot] = Tail(@)]
    /\ \/ /\ ~awaited
          /\ Goto(t, "wait", "wait")
          /\ mine' = [mine EXCEPT ![t].failed = TRUE, ![t].rebuild = TRUE]
       \/ /\ awaited
          /\ Goto(t, "wait", next)
          /\ mine' = [mine EXCEPT ![t].failed = failed]
    /\ UNCHANGED <<pool, open, sq, flying, nextRequestId, filled, asleep, reads>>

AfterWait(t) == IF mine[t].rebuild THEN "rebuild" ELSE "release"

WaitForCompletionTakesShort(t) ==
    SeeCompletion(t, Seen(t).id = mine[t].id, AfterWait(t), mine[t].failed)

WaitForCompletionAfterFailure(t) ==
    SeeCompletion(t, Seen(t).id = mine[t].id /\ ~mine[t].failed, AfterWait(t),
                  ~Seen(t).full)

WaitForCompletionReuses(t) ==
    SeeCompletion(t, Seen(t).id = mine[t].id, "release", mine[t].failed \/ ~Seen(t).full)

WaitForCompletion(t) ==
    SeeCompletion(t, Seen(t).id = mine[t].id, AfterWait(t),
                  mine[t].failed \/ ~Seen(t).full)

-----------------------------------------------------------------------------
\* ~UringReadEngine, and a new engine in its place.
Destructor ==
    /\ initialized
    /\ \A t \in Threads : pc[t] = "idle"
    /\ initialized' = FALSE
    /\ available' = [s \in Slots |-> FALSE]
    /\ open' = [s \in Slots |-> open[s] /\ ~available[s]]
    /\ sq' = [s \in Slots |-> {}] /\ cq' = [s \in Slots |-> << >>]
    /\ flying' = {[r EXCEPT !.slot = NoSlot] : r \in flying}
    /\ nextRequestId' = 1
    /\ UNCHANGED <<inUse, filled, threads, mine>>

Reading(t) ==
    \/ AcquireSlot(t) \/ OpenSwapFileForRead(t) \/ PrepareRequest(t) \/ Submit(t)
    \/ WaitForCompletion(t) \/ RebuildSlot(t) \/ ReleaseSlot(t) \/ NotifyAll(t)

UringNext ==
    \/ Destructor
    \/ \E r \in flying : Complete(r)
    \/ \E t \in Threads :
        InitializePool(t) \/ Read(t) \/ Reading(t) \/ HandleWaitFailure(t)

\* A thread goes on, the kernel ends every request, and io_uring_wait_cqe does
\* not fail for ever while a completion is there: the code's loop around it has
\* no bound.
UringFairness ==
    /\ WF_uVars(\E r \in flying : Complete(r))
    /\ \A t \in Threads : WF_uVars(Reading(t)) /\ SF_uVars(WaitForCompletion(t))

UringSpec == UringInit /\ [][UringNext]_uVars

FairUringSpec == UringSpec /\ UringFairness

-----------------------------------------------------------------------------
\* The kernel writes only into the buffer of a Read that is still waiting: no
\* failure of submitting, waiting or cancelling lets Read return, or its ring be
\* torn down, under a request (the comment in RebuildSlot).
BufferQuiet ==
    \A r \in flying :
        r.owner # NoThread =>
            /\ pc[r.owner] = "wait"
            /\ mine[r.owner].id = r.id /\ mine[r.owner].slot = r.slot

\* A Read that reports success had its own buffer filled by its own request, never
\* by the completion of a cancellation or of an earlier Read on the same ring.
SuccessIsOwn ==
    \A t \in Threads :
        pc[t] \in {"release", "notify"} /\ ~mine[t].failed => t \in filled

\* A ring that is there to be taken is open and carries nothing of earlier Reads,
\* late completions of cancellations included; one that is not was closed.
PoolClean ==
    \A s \in Slots :
        ~inUse[s] =>
            /\ open[s] <=> available[s]
            /\ sq[s] = {} /\ cq[s] = << >>
            /\ available[s] => \A r \in flying : r.slot # s

\* No wakeup is lost: a thread sleeps for a ring only while all rings are taken,
\* or somebody is on the way to notify_all, also when the last ring was lost.
SleepersWillWake ==
    asleep # {} =>
        \/ HasAvailableRing /\ \A s \in Slots : ~Free(s)
        \/ \E t \in Threads : pc[t] \in {"release", "notify"}

\* The pool of rings is sound: what is given back can be used again, no one waits
\* for it in vain, and no Read takes the answer of another for its own.
PoolSound == SuccessIsOwn /\ PoolClean /\ SleepersWillWake

\* Every Read comes back, whatever failed on its ring.
ReadEnds == \A t \in Threads : pc[t] # "idle" ~> pc[t] = "idle"

=============================================================================

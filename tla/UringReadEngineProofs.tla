----------------------- MODULE UringReadEngineProofs -----------------------
(***************************************************************************)
(* Proofs about UringReadEngine, for any number of threads, rings and      *)
(* Reads: the kernel writes to no buffer whose Read has returned, no Read  *)
(* takes the answer of another for its own, and a ring that is given back  *)
(* carries nothing of its past (BufferQuiet, PoolSound).                   *)
(***************************************************************************)
EXTENDS UringReadEngine, FiniteSetTheorems, WellFoundedInduction, TLAPS

-----------------------------------------------------------------------------
(* The inductive invariant.                                                *)

\* Where a Read has a ring to itself.
HolderPcs == {"open", "sqe", "submit", "wait", "rebuild", "release"}

\* The locals of a Read, a completion, and a request of the kernel.
Locals ==
    [slot : Slots \cup {NoSlot}, id : Nat, failed : BOOLEAN, rebuild : BOOLEAN,
     cancelAttempted : BOOLEAN]
Completions == [id : Nat, full : BOOLEAN]
Requests ==
    [id : Nat, slot : Slots \cup {NoSlot}, owner : Threads \cup {NoThread}]

UTypes ==
    /\ available \in [Slots -> BOOLEAN] /\ inUse \in [Slots -> BOOLEAN]
    /\ sq \in [Slots -> SUBSET Nat]
    /\ cq \in [Slots -> Seq(Completions)]
    /\ flying \in SUBSET Requests
    /\ nextRequestId \in Nat
    /\ asleep \subseteq Threads
    /\ pc \in [Threads -> {"idle", "acquire", "notify"} \cup HolderPcs]
    /\ mine \in [Threads -> Locals]

\* A ring is there exactly if the pool says so; an engine that is not there has no
\* readers, and only who waits for a ring sleeps.
EngineStates ==
    /\ open = available
    /\ ~initialized => \A t \in Threads : pc[t] = "idle"
    /\ \A t \in asleep : pc[t] = "acquire"

\* A Read's ring is marked as in use, and is nobody else's.
Holding ==
    /\ \A t \in Threads :
        pc[t] \in HolderPcs => mine[t].slot \in Slots /\ inUse[mine[t].slot]
    /\ \A t, u \in Threads :
        /\ pc[t] \in HolderPcs /\ pc[u] \in HolderPcs
        /\ mine[t].slot = mine[u].slot
        => t = u

\* Nothing of any request is on the ring.
Clean(s) == sq[s] = {} /\ cq[s] = << >> /\ \A r \in flying : r.slot # s

FreeIsClean == \A s \in Slots : ~inUse[s] => Clean(s)

\* What is on the ring of a thread that waits: its own request, under way or
\* completed but not both, and besides only cancellations, with which the ring is
\* to be rebuilt.
Waiting(t, s) ==
    /\ mine[t].id \notin sq[s]
    /\ \A r \in flying :
        r.slot = s => (r.owner = t <=> r.id = mine[t].id) /\ r.owner \in {t, NoThread}
    /\ \A i \in 1 .. Len(cq[s]) :
        cq[s][i].id = mine[t].id =>
            /\ \A r \in flying : r.slot = s => r.id # mine[t].id
            /\ \A j \in 1 .. Len(cq[s]) : cq[s][j].id = mine[t].id => j = i
            /\ cq[s][i].full => t \in filled
    /\ ~mine[t].rebuild =>
        /\ sq[s] = {}
        /\ \A r \in flying : r.slot = s => r.id = mine[t].id
        /\ \A i \in 1 .. Len(cq[s]) : cq[s][i].id = mine[t].id

\* What is on the ring of a Read, step by step.
RingOf(t) ==
    LET s == mine[t].slot IN
    /\ pc[t] \in {"open", "sqe", "release"} => Clean(s)
    /\ pc[t] = "submit" =>
        /\ sq[s] = {mine[t].id} /\ cq[s] = << >>
        /\ \A r \in flying : r.slot # s
    /\ pc[t] = "wait" => Waiting(t, s)
    /\ pc[t] \in {"submit", "wait"} => mine[t].id < nextRequestId
Rings == \A t \in Threads : RingOf(t)

\* Who is about to report success had its buffer filled.
Answered ==
    \A t \in Threads :
        pc[t] \in {"rebuild", "release", "notify"} /\ ~mine[t].failed => t \in filled

UInv ==
    /\ UTypes /\ EngineStates /\ Holding /\ FreeIsClean /\ Rings /\ Answered
    /\ BufferQuiet /\ SleepersWillWake

-----------------------------------------------------------------------------
(* Facts used throughout.                                                  *)

\* A set of numbers has its minimum: the slot that AcquireSlot takes is free.
LEMMA MinIsMember ==
    ASSUME NEW S \in SUBSET Nat, S # {}
    PROVE  Min(S) \in S
<1>. DEFINE R == OpToRel(<, Nat)
<1>1. IsWellFoundedOn(R, Nat)
  BY NatLessThanWellFounded
<1>2. \A x, y \in Nat : <<x, y>> \in R <=> x < y
  BY DEF OpToRel
<1>. HIDE DEF R
<1>3. PICK x \in S : \A y \in S : ~(<<y, x>> \in R)
  BY <1>1, WFMin
<1>4. ASSUME NEW y \in S PROVE x <= y
  <2>1. x \in Nat /\ y \in Nat
    OBVIOUS
  <2>2. ~(y < x)
    BY <1>2, <1>3, <2>1, Zenon
  <2>. QED
    BY <2>1, <2>2
<1>. QED
  BY <1>4 DEF Min

-----------------------------------------------------------------------------
(* What each step of a Read does, and what it leaves alone.                *)

\* The step is t's alone.
Alone(t) ==
    /\ \A u \in Threads \ {t} : pc'[u] = pc[u] /\ mine'[u] = mine[u]
    /\ mine' \in [Threads -> Locals]

\* And of the rings it touches only t's.
OnlyItsRing(t) ==
    /\ Alone(t)
    /\ mine'[t].slot = mine[t].slot
    /\ \A s \in Slots \ {mine[t].slot} :
        /\ sq'[s] = sq[s] /\ cq'[s] = cq[s]
        /\ \A r \in flying : r.slot = s => r \in flying'
        /\ \A r \in flying' : r.slot = s => r \in flying
    /\ filled' = filled /\ nextRequestId' \in Nat /\ nextRequestId' >= nextRequestId

\* The error of a Read is set.
LEMMA SetFailed ==
    ASSUME mine \in [Threads -> Locals], NEW t \in Threads, NEW b \in BOOLEAN,
           mine' = [mine EXCEPT ![t].failed = b]
    PROVE  /\ mine' \in [Threads -> Locals] /\ mine'[t].slot = mine[t].slot
           /\ mine'[t].id = mine[t].id /\ mine'[t].failed = b
           /\ \A u \in Threads \ {t} : mine'[u] = mine[u]
<1>1. mine' \in [Threads -> Locals]
  BY DEF Locals
<1>2. /\ mine'[t].slot = mine[t].slot
      /\ mine'[t].id = mine[t].id /\ mine'[t].failed = b
      /\ \A u \in Threads \ {t} : mine'[u] = mine[u]
  BY DEF Locals
<1>. QED
  BY <1>1, <1>2

\* And whether its ring is to be rebuilt.
LEMMA SetRebuild ==
    ASSUME mine \in [Threads -> Locals], NEW t \in Threads, NEW b \in BOOLEAN,
           mine' = [mine EXCEPT ![t].failed = b, ![t].rebuild = b]
    PROVE  /\ mine' \in [Threads -> Locals] /\ mine'[t].slot = mine[t].slot
           /\ mine'[t].id = mine[t].id /\ mine'[t].rebuild = b
           /\ \A u \in Threads \ {t} : mine'[u] = mine[u]
<1>1. mine' \in [Threads -> Locals]
  BY DEF Locals
<1>2. /\ mine'[t].slot = mine[t].slot
      /\ mine'[t].id = mine[t].id /\ mine'[t].rebuild = b
      /\ \A u \in Threads \ {t} : mine'[u] = mine[u]
  BY DEF Locals
<1>. QED
  BY <1>1, <1>2

\* AcquireSlot: a free ring, a nap, or nothing.
LEMMA AcquireEffect ==
    ASSUME UTypes, NEW t \in Threads, AcquireSlot(t)
    PROVE  /\ Alone(t) /\ pc[t] = "acquire" /\ t \notin asleep
           /\ \/ /\ pc' = [pc EXCEPT ![t] = "open"] /\ asleep' = asleep
                 /\ mine'[t].slot \in Slots /\ Free(mine'[t].slot)
                 /\ inUse' = [inUse EXCEPT ![mine'[t].slot] = TRUE]
              \/ /\ pc'[t] \in {"acquire", "idle"} /\ inUse' = inUse /\ mine' = mine
                 /\ pc' \in [Threads -> {"idle", "acquire", "notify"} \cup HolderPcs]
                 /\ asleep' = asleep \cup (IF pc'[t] = "acquire" THEN {t} ELSE {})
<1>. USE PoolConstants DEF UTypes, Alone, Goto
<1>1. CASE \E s \in Slots : Free(s)
  <2>. DEFINE S == {x \in Slots : Free(x)}
  <2>1. S \in SUBSET Nat /\ S # {}
    <3>1. Slots \in SUBSET Nat
      BY DEF Slots
    <3>2. S \subseteq Slots /\ S # {}
      BY <1>1, Zenon
    <3>. QED
      BY <3>1, <3>2, Zenon
  <2>. HIDE DEF S
  <2>6. Min(S) \in S
    BY <2>1, MinIsMember
  <2>2. /\ pc[t] = "acquire" /\ pc' = [pc EXCEPT ![t] = "open"] /\ t \notin asleep
        /\ inUse' = [inUse EXCEPT ![Min(S)] = TRUE]
        /\ mine' = [mine EXCEPT ![t].slot = Min(S)]
        /\ asleep' = asleep
    <3>1. ~(\A s \in Slots : ~Free(s)) /\ HasAvailableRing
      BY <1>1 DEF HasAvailableRing, Free
    <3>. QED
      BY <1>1, <3>1 DEF AcquireSlot, S
  <2>3. mine' \in [Threads -> Locals] /\ mine'[t].slot = Min(S)
    BY <2>6, <2>2 DEF Locals, S
  <2>4. \A u \in Threads \ {t} : pc'[u] = pc[u] /\ mine'[u] = mine[u]
    BY <2>2
  <2>5. Min(S) \in Slots /\ Free(Min(S))
    BY <2>6 DEF S
  <2>. QED
    BY <2>2, <2>3, <2>4, <2>5
<1>2. CASE \A s \in Slots : ~Free(s)
  BY <1>2 DEF AcquireSlot, HolderPcs
<1>. QED
  BY <1>1, <1>2

\* OpenSwapFileForRead.
LEMMA OpenEffect ==
    ASSUME UTypes, NEW t \in Threads, OpenSwapFileForRead(t)
    PROVE  /\ OnlyItsRing(t) /\ pc[t] = "open"
           /\ sq' = sq /\ cq' = cq /\ flying' = flying
           /\ \/ pc' = [pc EXCEPT ![t] = "sqe"]
              \/ pc' = [pc EXCEPT ![t] = "release"] /\ mine'[t].failed
<1>1. /\ mine' \in [Threads -> Locals] /\ mine'[t].slot = mine[t].slot
      /\ \A u \in Threads \ {t} : mine'[u] = mine[u]
      /\ \/ pc' = [pc EXCEPT ![t] = "sqe"]
         \/ pc' = [pc EXCEPT ![t] = "release"] /\ mine'[t].failed
  BY SetFailed DEF OpenSwapFileForRead, Goto, UTypes
<1>2. \A u \in Threads \ {t} : pc'[u] = pc[u]
  BY DEF OpenSwapFileForRead, Goto, UTypes
<1>. QED
  BY <1>1, <1>2 DEF OpenSwapFileForRead, OnlyItsRing, Alone, Goto, rings, UTypes

\* PrepareRequest.
LEMMA PrepareEffect ==
    ASSUME UTypes, NEW t \in Threads, PrepareRequest(t), mine[t].slot \in Slots
    PROVE  /\ OnlyItsRing(t) /\ pc[t] = "sqe"
           /\ cq' = cq /\ flying' = flying /\ nextRequestId' = nextRequestId + 1
           /\ \/ /\ pc' = [pc EXCEPT ![t] = "submit"] /\ mine'[t].id = nextRequestId
                 /\ sq' = [sq EXCEPT ![mine[t].slot] = @ \cup {nextRequestId}]
              \/ pc' = [pc EXCEPT ![t] = "rebuild"] /\ mine'[t].failed /\ sq' = sq
<1>. USE DEF UTypes, Goto
<1>1. mine' \in [Threads -> Locals] /\ mine'[t].slot = mine[t].slot
  <2>1. CASE mine' = [mine EXCEPT ![t].id = nextRequestId]
    <3>1. mine' \in [Threads -> Locals]
      BY <2>1 DEF Locals
    <3>. QED
      BY <2>1, <3>1 DEF Locals
  <2>2. CASE mine' = [mine EXCEPT ![t].failed = TRUE]
    BY <2>2, SetFailed
  <2>. QED
    BY <2>1, <2>2 DEF PrepareRequest
<1>2. \A u \in Threads \ {t} : pc'[u] = pc[u] /\ mine'[u] = mine[u]
  BY DEF PrepareRequest
<1>3. \/ /\ pc' = [pc EXCEPT ![t] = "submit"] /\ mine'[t].id = nextRequestId
         /\ sq' = [sq EXCEPT ![mine[t].slot] = @ \cup {nextRequestId}]
      \/ pc' = [pc EXCEPT ![t] = "rebuild"] /\ mine'[t].failed /\ sq' = sq
  BY DEF PrepareRequest, Locals
<1>4. \A s \in Slots \ {mine[t].slot} : sq'[s] = sq[s]
  BY <1>3
<1>. QED
  BY <1>1, <1>2, <1>3, <1>4 DEF PrepareRequest, OnlyItsRing, Alone

\* Submit, with t's request and no other prepared on the ring.
LEMMA SubmitEffect ==
    ASSUME UTypes, NEW t \in Threads, Submit(t), mine[t].slot \in Slots,
           sq[mine[t].slot] = {mine[t].id}
    PROVE  /\ OnlyItsRing(t) /\ pc[t] = "submit"
           /\ cq' = cq /\ nextRequestId' = nextRequestId /\ mine'[t].id = mine[t].id
           /\ \/ /\ pc' = [pc EXCEPT ![t] = "wait"]
                 /\ ~mine'[t].rebuild
                 /\ sq' = [sq EXCEPT ![mine[t].slot] = {}]
                 /\ flying' = flying \cup
                        {[id |-> mine[t].id, slot |-> mine[t].slot, owner |-> t]}
              \/ /\ pc' = [pc EXCEPT ![t] = "rebuild"] /\ mine'[t].failed
                 /\ sq' = sq /\ flying' = flying
<1>. USE DEF UTypes, Goto
<1>. DEFINE s == mine[t].slot
<1>1. Cardinality(sq[s]) = 1
  BY FS_Singleton
<1>2. Submitted(s, sq[s], t) =>
        flying' = flying \cup {[id |-> mine[t].id, slot |-> s, owner |-> t]}
  BY DEF Submitted
<1>3. CASE /\ pc[t] = "submit" /\ pc' = [pc EXCEPT ![t] = "wait"]
           /\ Submitted(s, sq[s], t)
           /\ sq' = [sq EXCEPT ![s] = {}]
           /\ mine' = [mine EXCEPT ![t].failed = FALSE, ![t].rebuild = FALSE]
  <2>1. /\ mine' \in [Threads -> Locals] /\ mine'[t].slot = s
        /\ mine'[t].id = mine[t].id /\ ~mine'[t].rebuild
    BY <1>3, SetRebuild
  <2>2. \A u \in Threads \ {t} : pc'[u] = pc[u] /\ mine'[u] = mine[u]
    BY <1>3
  <2>3. \A x \in Slots \ {s} : sq'[x] = sq[x]
    BY <1>3
  <2>4. flying' = flying \cup {[id |-> mine[t].id, slot |-> s, owner |-> t]}
    BY <1>2, <1>3
  <2>. HIDE DEF s
  <2>5. \A x \in Slots \ {s} : /\ \A r \in flying : r.slot = x => r \in flying'
                               /\ \A r \in flying' : r.slot = x => r \in flying
    BY <2>4
  <2>. QED
    BY <1>3, <2>1, <2>2, <2>3, <2>4, <2>5 DEF Submit, OnlyItsRing, Alone, s
<1>4. CASE /\ pc[t] = "submit" /\ pc' = [pc EXCEPT ![t] = "rebuild"]
           /\ mine' = [mine EXCEPT ![t].failed = TRUE]
           /\ sq' = sq /\ flying' = flying
  <2>1. /\ mine' \in [Threads -> Locals] /\ mine'[t].slot = s
        /\ mine'[t].id = mine[t].id /\ mine'[t].failed
    BY <1>4 DEF Locals
  <2>2. \A u \in Threads \ {t} : pc'[u] = pc[u] /\ mine'[u] = mine[u]
    BY <1>4
  <2>. QED
    BY <1>4, <2>1, <2>2 DEF Submit, OnlyItsRing, Alone
<1>. QED
  BY <1>1, <1>3, <1>4 DEF Submit

\* WaitForCompletion.
LEMMA WaitEffect ==
    ASSUME UTypes, NEW t \in Threads, WaitForCompletion(t), mine[t].slot \in Slots
    PROVE  LET s == mine[t].slot IN
           /\ OnlyItsRing(t) /\ pc[t] = "wait" /\ cq[s] # << >>
           /\ sq' = sq /\ flying' = flying /\ nextRequestId' = nextRequestId
           /\ mine'[t].id = mine[t].id
           /\ cq' = [cq EXCEPT ![s] = Tail(@)]
           /\ \/ /\ Head(cq[s]).id # mine[t].id
                 /\ pc' = [pc EXCEPT ![t] = "wait"] /\ mine'[t].rebuild
              \/ /\ Head(cq[s]).id = mine[t].id
                 /\ ~mine'[t].failed => Head(cq[s]).full
                 /\ \/ mine[t].rebuild /\ pc' = [pc EXCEPT ![t] = "rebuild"]
                    \/ ~mine[t].rebuild /\ pc' = [pc EXCEPT ![t] = "release"]
<1>. USE DEF UTypes, Goto
<1>. DEFINE s == mine[t].slot
<1>1. Head(cq[s]).full \in BOOLEAN
  <2>1. cq[s] \in Seq(Completions) /\ cq[s] # << >>
    BY DEF WaitForCompletion, SeeCompletion
  <2>2. Head(cq[s]) \in Completions
    BY <2>1
  <2>. QED
    BY <2>2 DEF Completions
<1>2. /\ pc[t] = "wait" /\ cq[s] # << >> /\ cq' = [cq EXCEPT ![s] = Tail(@)]
      /\ sq' = sq /\ flying' = flying /\ nextRequestId' = nextRequestId
      /\ filled' = filled
  BY DEF WaitForCompletion, SeeCompletion
<1>3. CASE /\ Head(cq[s]).id # mine[t].id /\ pc' = [pc EXCEPT ![t] = "wait"]
           /\ mine' = [mine EXCEPT ![t].failed = TRUE, ![t].rebuild = TRUE]
  <2>1. /\ mine' \in [Threads -> Locals] /\ mine'[t].slot = s
        /\ mine'[t].id = mine[t].id /\ mine'[t].rebuild
    BY <1>3 DEF Locals
  <2>2. \A u \in Threads \ {t} : pc'[u] = pc[u] /\ mine'[u] = mine[u]
    BY <1>3
  <2>. QED
    BY <1>2, <1>3, <2>1, <2>2 DEF OnlyItsRing, Alone
<1>4. CASE /\ Head(cq[s]).id = mine[t].id /\ pc' = [pc EXCEPT ![t] = AfterWait(t)]
           /\ mine' = [mine EXCEPT ![t].failed = mine[t].failed \/ ~Head(cq[s]).full]
  <2>1. /\ mine' \in [Threads -> Locals] /\ mine'[t].slot = s
        /\ mine'[t].id = mine[t].id
        /\ mine'[t].failed = (mine[t].failed \/ ~Head(cq[s]).full)
    BY <1>1, <1>4, SetFailed
  <2>2. \A u \in Threads \ {t} : pc'[u] = pc[u] /\ mine'[u] = mine[u]
    BY <1>4
  <2>3. ~mine'[t].failed => Head(cq[s]).full
    BY <2>1, <1>1
  <2>4. \/ mine[t].rebuild /\ pc' = [pc EXCEPT ![t] = "rebuild"]
        \/ ~mine[t].rebuild /\ pc' = [pc EXCEPT ![t] = "release"]
    BY <1>4 DEF AfterWait
  <2>5. OnlyItsRing(t)
    BY <1>2, <2>1, <2>2 DEF OnlyItsRing, Alone
  <2>. QED
    BY <1>2, <1>4, <2>1, <2>3, <2>4, <2>5
<1>. QED
  BY <1>3, <1>4 DEF WaitForCompletion, SeeCompletion, Seen

\* HandleWaitFailure: at most cancellations are added to the ring.
LEMMA CancelEffect ==
    ASSUME UTypes, NEW t \in Threads, HandleWaitFailure(t), mine[t].slot \in Slots,
           mine[t].id \notin sq[mine[t].slot], mine[t].id < nextRequestId
    PROVE  LET s == mine[t].slot IN
           /\ OnlyItsRing(t) /\ pc[t] = "wait" /\ pc' = pc
           /\ cq' = cq /\ mine'[t].id = mine[t].id /\ mine'[t].rebuild
           /\ sq' \in [Slots -> SUBSET Nat] /\ mine[t].id \notin sq'[s]
           /\ flying' \in SUBSET Requests
           /\ \A r \in flying : r \in flying'
           /\ \A r \in flying' :
                r \in flying \/ (r.slot = s /\ r.owner = NoThread /\ r.id # mine[t].id)
<1>. USE DEF UTypes, Goto
<1>. DEFINE s == mine[t].slot
<1>1. /\ mine' \in [Threads -> Locals] /\ mine'[t].slot = s
      /\ mine'[t].id = mine[t].id /\ mine'[t].rebuild
  <2>1. mine' = [mine EXCEPT ![t].failed = TRUE, ![t].rebuild = TRUE,
                             ![t].cancelAttempted = TRUE]
    BY DEF HandleWaitFailure
  <2>. QED
    BY <2>1 DEF Locals
<1>2. /\ pc[t] = "wait" /\ pc' = pc /\ cq' = cq /\ filled' = filled
      /\ \A u \in Threads \ {t} : mine'[u] = mine[u]
  BY DEF HandleWaitFailure
<1>3. nextRequestId' \in Nat /\ nextRequestId' >= nextRequestId
  BY DEF HandleWaitFailure
<1>4. /\ sq' \in [Slots -> SUBSET Nat] /\ mine[t].id \notin sq'[s]
      /\ \A x \in Slots \ {s} : sq'[x] = sq[x]
  <2>1. \/ sq' = sq \/ sq' = [sq EXCEPT ![s] = {}]
        \/ sq' = [sq EXCEPT ![s] = sq[s] \cup {nextRequestId}]
    BY DEF HandleWaitFailure
  <2>2. mine[t].id # nextRequestId
    BY DEF Locals
  <2>. QED
    BY <2>1, <2>2
<1>5. /\ flying' \in SUBSET Requests /\ \A r \in flying : r \in flying'
      /\ \A r \in flying' :
            r \in flying \/ (r.slot = s /\ r.owner = NoThread /\ r.id # mine[t].id)
  <2>1. CASE flying' = flying
    BY <2>1
  <2>2. CASE Submitted(s, sq[s] \cup {nextRequestId}, t)
    <3>. DEFINE ids == sq[s] \cup {nextRequestId}
                new == {[id |-> i, slot |-> s, owner |-> NoThread] : i \in ids}
    <3>1. ids \in SUBSET Nat /\ mine[t].id \notin ids
      BY DEF Locals
    <3>. HIDE DEF ids
    <3>2. flying' = flying \cup new
      BY <2>2, <3>1 DEF Submitted, ids
    <3>3. new \in SUBSET Requests
      BY <3>1 DEF Requests
    <3>4. \A r \in new : r.slot = s /\ r.owner = NoThread /\ r.id # mine[t].id
      BY <3>1
    <3>. QED
      BY <3>2, <3>3, <3>4
  <2>. QED
    BY <2>1, <2>2 DEF HandleWaitFailure
<1>6. \A x \in Slots \ {s} : \A r \in flying' : r.slot = x => r \in flying
  BY <1>5
<1>. QED
  BY <1>1, <1>2, <1>3, <1>4, <1>5, <1>6 DEF OnlyItsRing, Alone

\* RebuildSlot: the ring is emptied, and what the kernel still had is detached.
LEMMA RebuildEffect ==
    ASSUME UTypes, NEW t \in Threads, RebuildSlot(t), mine[t].slot \in Slots
    PROVE  LET s == mine[t].slot IN
           /\ OnlyItsRing(t) /\ pc[t] = "rebuild" /\ mine' = mine
           /\ pc' = [pc EXCEPT ![t] = "release"]
           /\ sq' = [sq EXCEPT ![s] = {}] /\ cq' = [cq EXCEPT ![s] = << >>]
           /\ flying' \in SUBSET Requests
           /\ \A r \in flying' : r.slot # s
           /\ \A r \in flying' :
                r \in flying \/ \E q \in flying : q.slot = s /\ q.owner = r.owner
<1>. USE DEF UTypes, Goto
<1>. DEFINE s == mine[t].slot
            Off(r) == IF r.slot = s THEN [r EXCEPT !.slot = NoSlot] ELSE r
<1>1. /\ pc[t] = "rebuild" /\ pc' = [pc EXCEPT ![t] = "release"] /\ mine' = mine
      /\ sq' = [sq EXCEPT ![s] = {}] /\ cq' = [cq EXCEPT ![s] = << >>]
      /\ filled' = filled /\ nextRequestId' = nextRequestId
      /\ flying' = {Off(r) : r \in flying}
  BY DEF RebuildSlot
<1>2. s # NoSlot /\ s \in Slots
  BY DEF Slots, NoSlot
<1>3. ASSUME NEW r \in Requests
      PROVE  /\ Off(r) \in Requests /\ Off(r).slot # s /\ Off(r).owner = r.owner
             /\ r.slot # s => Off(r) = r
             /\ r.slot = s => Off(r).slot = NoSlot
  BY <1>2, <1>3 DEF Requests
<1>. HIDE DEF Off, s
<1>4. /\ flying' \in SUBSET Requests /\ \A r \in flying' : r.slot # s
      /\ \A r \in flying' :
            r \in flying \/ \E q \in flying : q.slot = s /\ q.owner = r.owner
      /\ \A x \in Slots \ {s} : /\ \A r \in flying : r.slot = x => r \in flying'
                                /\ \A r \in flying' : r.slot = x => r \in flying
  <2>1. \A r \in flying : Off(r) \in flying' /\ r \in Requests
    BY <1>1
  <2>2. \A q \in flying' : \E r \in flying : q = Off(r)
    BY <1>1
  <2>3. NoSlot \notin Slots
    BY DEF Slots, NoSlot
  <2>4. flying' \in SUBSET Requests /\ \A r \in flying' : r.slot # s
    BY <1>3, <2>1, <2>2
  <2>5. ASSUME NEW q \in flying'
        PROVE  /\ q \in flying \/ \E r \in flying : r.slot = s /\ r.owner = q.owner
               /\ q.slot \in Slots => q \in flying
    <3>1. PICK r \in flying : q = Off(r)
      BY <2>2
    <3>. QED
      BY <1>3, <2>1, <2>3, <3>1
  <2>6. \A r \in flying : r.slot # s => r \in flying'
    BY <1>3, <2>1
  <2>. QED
    BY <2>4, <2>5, <2>6
<1>. QED
  BY <1>1, <1>2, <1>4 DEF OnlyItsRing, Alone, s

\* ReleaseSlot.
LEMMA ReleaseEffect ==
    ASSUME UTypes, NEW t \in Threads, ReleaseSlot(t)
    PROVE  /\ OnlyItsRing(t) /\ pc[t] = "release" /\ mine' = mine
           /\ pc' = [pc EXCEPT ![t] = "notify"]
           /\ sq' = sq /\ cq' = cq /\ flying' = flying
           /\ inUse' = [inUse EXCEPT ![mine[t].slot] = FALSE]
BY DEF ReleaseSlot, OnlyItsRing, Alone, Goto, rings, UTypes

-----------------------------------------------------------------------------
(* The parts of the invariant, one by one, action by action.               *)

\* No step leaves the types.
LEMMA UTypesNext ==
    ASSUME UInv, [UringNext]_uVars
    PROVE  UTypes'
<1>. USE PoolConstants DEF UInv, UTypes
<1>u. CASE UNCHANGED uVars
  BY <1>u DEF uVars, pool, rings, threads
<1>1. CASE Destructor
  <2>1. \A r \in Requests : [r EXCEPT !.slot = NoSlot] \in Requests
    BY DEF Requests
  <2>2. flying' \in SUBSET Requests
    BY <1>1, <2>1 DEF Destructor
  <2>. QED
    BY <1>1, <2>2 DEF Destructor, threads
<1>2. ASSUME NEW r \in flying, Complete(r)
      PROVE  UTypes'
  <2>1. cq' \in [Slots -> Seq(Completions)]
    <3>1. PICK full \in BOOLEAN :
            cq' = IF r.slot = NoSlot THEN cq
                  ELSE [cq EXCEPT ![r.slot] = Append(@, [id |-> r.id, full |-> full])]
      BY <1>2 DEF Complete
    <3>2. r.id \in Nat /\ r.slot \in Slots \cup {NoSlot}
      BY DEF Requests
    <3>3. [id |-> r.id, full |-> full] \in Completions
      BY <3>2 DEF Completions
    <3>. QED
      BY <3>1, <3>2, <3>3
  <2>2. flying' \in SUBSET Requests
    BY <1>2 DEF Complete
  <2>. QED
    BY <1>2, <2>1, <2>2 DEF Complete, pool, threads
<1>3. ASSUME NEW t \in Threads, InitializePool(t)
      PROVE  UTypes'
  BY <1>3 DEF InitializePool, threads, EngineStates
<1>4. ASSUME NEW t \in Threads, Read(t)
      PROVE  UTypes'
  <2>1. pc' \in [Threads -> {"idle", "acquire", "notify"} \cup HolderPcs]
    BY <1>4 DEF Read, Goto
  <2>. QED
    BY <1>4, <2>1 DEF Read, pool, rings
<1>5. ASSUME NEW t \in Threads, AcquireSlot(t)
      PROVE  UTypes'
  <2>1. /\ mine' \in [Threads -> Locals] /\ inUse' \in [Slots -> BOOLEAN]
        /\ asleep' \subseteq Threads
        /\ pc' \in [Threads -> {"idle", "acquire", "notify"} \cup HolderPcs]
    BY <1>5, AcquireEffect DEF Alone, HolderPcs
  <2>. QED
    BY <1>5, <2>1 DEF AcquireSlot, rings
<1>6. ASSUME NEW t \in Threads, OpenSwapFileForRead(t)
      PROVE  UTypes'
  <2>1. mine' \in [Threads -> Locals]
    BY <1>6, OpenEffect DEF OnlyItsRing, Alone
  <2>2. pc' \in [Threads -> {"idle", "acquire", "notify"} \cup HolderPcs]
    BY <1>6, OpenEffect DEF HolderPcs
  <2>. QED
    BY <1>6, <2>1, <2>2 DEF OpenSwapFileForRead, pool, rings
<1>7. ASSUME NEW t \in Threads, PrepareRequest(t)
      PROVE  UTypes'
  <2>1. mine[t].slot \in Slots
    BY <1>7 DEF PrepareRequest, Goto, Holding, HolderPcs
  <2>2. mine' \in [Threads -> Locals]
    BY <1>7, <2>1, PrepareEffect DEF OnlyItsRing, Alone
  <2>3. /\ \/ pc' = [pc EXCEPT ![t] = "submit"] \/ pc' = [pc EXCEPT ![t] = "rebuild"]
        /\ \/ sq' = sq
           \/ sq' = [sq EXCEPT ![mine[t].slot] = @ \cup {nextRequestId}]
        /\ cq' = cq /\ flying' = flying /\ nextRequestId' = nextRequestId + 1
    BY <1>7, <2>1, PrepareEffect
  <2>4. pc' \in [Threads -> {"idle", "acquire", "notify"} \cup HolderPcs]
    BY <2>3 DEF HolderPcs
  <2>6. nextRequestId' \in Nat
    BY <2>3
  <2>5. sq' \in [Slots -> SUBSET Nat]
    <3>1. CASE sq' = sq
      BY <3>1
    <3>2. CASE sq' = [sq EXCEPT ![mine[t].slot] = @ \cup {nextRequestId}]
      <4>1. nextRequestId \in Nat /\ sq \in [Slots -> SUBSET Nat]
        OBVIOUS
      <4>. QED
        BY <2>1, <3>2, <4>1
    <3>. QED
      BY <2>3, <3>1, <3>2
  <2>. QED
    BY <1>7, <2>2, <2>3, <2>4, <2>5, <2>6 DEF PrepareRequest, pool
<1>8. ASSUME NEW t \in Threads, Submit(t)
      PROVE  UTypes'
  <2>1. mine[t].slot \in Slots /\ sq[mine[t].slot] = {mine[t].id} /\ mine[t].id \in Nat
    BY <1>8 DEF Submit, Holding, HolderPcs, Rings, RingOf, Locals
  <2>2. mine' \in [Threads -> Locals]
    BY <1>8, <2>1, SubmitEffect DEF OnlyItsRing, Alone
  <2>3. /\ pc' \in [Threads -> {"idle", "acquire", "notify"} \cup HolderPcs]
        /\ sq' \in [Slots -> SUBSET Nat] /\ cq' = cq
        /\ nextRequestId' = nextRequestId
    BY <1>8, <2>1, SubmitEffect DEF HolderPcs
  <2>4. [id |-> mine[t].id, slot |-> mine[t].slot, owner |-> t] \in Requests
    BY <2>1 DEF Requests
  <2>5. flying' \in SUBSET Requests
    <3>1. \/ flying' = flying
          \/ flying' = flying \cup
                {[id |-> mine[t].id, slot |-> mine[t].slot, owner |-> t]}
      BY <1>8, <2>1, SubmitEffect
    <3>. QED
      BY <2>4, <3>1
  <2>. QED
    BY <1>8, <2>2, <2>3, <2>5 DEF Submit, pool
<1>9. ASSUME NEW t \in Threads, WaitForCompletion(t)
      PROVE  UTypes'
  <2>1. mine[t].slot \in Slots
    BY <1>9 DEF WaitForCompletion, SeeCompletion, Holding, HolderPcs
  <2>2. mine' \in [Threads -> Locals]
    BY <1>9, <2>1, WaitEffect DEF OnlyItsRing, Alone
  <2>3. /\ pc' \in [Threads -> {"idle", "acquire", "notify"} \cup HolderPcs]
        /\ sq' = sq /\ flying' = flying /\ nextRequestId' = nextRequestId
    BY <1>9, <2>1, WaitEffect DEF HolderPcs
  <2>4. cq' \in [Slots -> Seq(Completions)]
    <3>1. cq' = [cq EXCEPT ![mine[t].slot] = Tail(@)] /\ cq[mine[t].slot] # << >>
      BY <1>9, <2>1, WaitEffect
    <3>. QED
      BY <2>1, <3>1
  <2>. QED
    BY <1>9, <2>2, <2>3, <2>4 DEF WaitForCompletion, SeeCompletion, pool
<1>10. ASSUME NEW t \in Threads, RebuildSlot(t)
      PROVE  UTypes'
  <2>1. mine[t].slot \in Slots
    BY <1>10 DEF RebuildSlot, Goto, Holding, HolderPcs
  <2>2. /\ pc' = [pc EXCEPT ![t] = "release"]
        /\ sq' = [sq EXCEPT ![mine[t].slot] = {}]
        /\ cq' = [cq EXCEPT ![mine[t].slot] = << >>]
        /\ flying' \in SUBSET Requests /\ mine' = mine
    BY <1>10, <2>1, RebuildEffect
  <2>4. pc' \in [Threads -> {"idle", "acquire", "notify"} \cup HolderPcs]
    BY <2>2 DEF HolderPcs
  <2>5. sq' \in [Slots -> SUBSET Nat] /\ cq' \in [Slots -> Seq(Completions)]
    BY <2>1, <2>2
  <2>3. available' \in [Slots -> BOOLEAN]
    BY <1>10 DEF RebuildSlot
  <2>. QED
    BY <1>10, <2>2, <2>3, <2>4, <2>5 DEF RebuildSlot
<1>11. ASSUME NEW t \in Threads, ReleaseSlot(t)
      PROVE  UTypes'
  <2>1. inUse' \in [Slots -> BOOLEAN]
    BY <1>11 DEF ReleaseSlot
  <2>2. pc' \in [Threads -> {"idle", "acquire", "notify"} \cup HolderPcs]
    BY <1>11 DEF ReleaseSlot, Goto
  <2>. QED
    BY <1>11, <2>1, <2>2 DEF ReleaseSlot, rings
<1>12. ASSUME NEW t \in Threads, NotifyAll(t)
      PROVE  UTypes'
  <2>1. mine' \in [Threads -> Locals]
    BY <1>12 DEF NotifyAll, NoLocals, Locals
  <2>2. pc' \in [Threads -> {"idle", "acquire", "notify"} \cup HolderPcs]
    BY <1>12 DEF NotifyAll, Goto
  <2>. QED
    BY <1>12, <2>1, <2>2 DEF NotifyAll, pool, rings
<1>13. ASSUME NEW t \in Threads, HandleWaitFailure(t)
      PROVE  UTypes'
  <2>1. /\ mine[t].slot \in Slots /\ mine[t].id \notin sq[mine[t].slot]
        /\ mine[t].id < nextRequestId
    BY <1>13 DEF HandleWaitFailure, Goto, Holding, HolderPcs, Rings, RingOf, Waiting
  <2>2. mine' \in [Threads -> Locals] /\ nextRequestId' \in Nat
    BY <1>13, <2>1, CancelEffect DEF OnlyItsRing, Alone
  <2>3. /\ pc' = pc /\ sq' \in [Slots -> SUBSET Nat] /\ cq' = cq
        /\ flying' \in SUBSET Requests
    BY <1>13, <2>1, CancelEffect
  <2>. QED
    BY <1>13, <2>2, <2>3 DEF HandleWaitFailure, pool
<1>. HIDE DEF UInv, UTypes
<1>. QED
  BY <1>u, <1>1, <1>2, <1>3, <1>4, <1>5, <1>6, <1>7, <1>8, <1>9, <1>10, <1>11,
     <1>12, <1>13 DEF UringNext, Reading

\* A ring is there if the pool says so, and readers come after the pool.
LEMMA EngineStatesNext ==
    ASSUME UTypes, EngineStates, [UringNext]_uVars
    PROVE  EngineStates'
<1>. USE PoolConstants DEF UTypes, EngineStates, HolderPcs
<1>u. CASE UNCHANGED uVars
  BY <1>u DEF uVars, pool, rings, threads
<1>1. CASE Destructor
  BY <1>1 DEF Destructor, threads
<1>2. ASSUME NEW r \in flying, Complete(r)
      PROVE  EngineStates'
  BY <1>2 DEF Complete, pool, threads
<1>3. ASSUME NEW t \in Threads, InitializePool(t)
      PROVE  EngineStates'
  BY <1>3 DEF InitializePool, threads
<1>4. ASSUME NEW t \in Threads, Read(t)
      PROVE  EngineStates'
  BY <1>4 DEF Read, Goto, pool, rings
<1>5. ASSUME NEW t \in Threads, AcquireSlot(t)
      PROVE  EngineStates'
  BY <1>5 DEF AcquireSlot, Goto, rings
<1>6. ASSUME NEW t \in Threads, OpenSwapFileForRead(t)
      PROVE  EngineStates'
  BY <1>6 DEF OpenSwapFileForRead, Goto, pool, rings
<1>7. ASSUME NEW t \in Threads, PrepareRequest(t)
      PROVE  EngineStates'
  BY <1>7 DEF PrepareRequest, Goto, pool
<1>8. ASSUME NEW t \in Threads, Submit(t)
      PROVE  EngineStates'
  BY <1>8 DEF Submit, Submitted, Goto, pool
<1>9. ASSUME NEW t \in Threads, WaitForCompletion(t)
      PROVE  EngineStates'
  BY <1>9 DEF WaitForCompletion, SeeCompletion, AfterWait, Goto, pool
<1>10. ASSUME NEW t \in Threads, RebuildSlot(t)
      PROVE  EngineStates'
  BY <1>10 DEF RebuildSlot, Goto
<1>11. ASSUME NEW t \in Threads, ReleaseSlot(t)
      PROVE  EngineStates'
  BY <1>11 DEF ReleaseSlot, Goto, rings
<1>12. ASSUME NEW t \in Threads, NotifyAll(t)
      PROVE  EngineStates'
  BY <1>12 DEF NotifyAll, NoLocals, Goto, pool, rings
<1>13. ASSUME NEW t \in Threads, HandleWaitFailure(t)
      PROVE  EngineStates'
  BY <1>13 DEF HandleWaitFailure, Submitted, Goto, pool
<1>. HIDE DEF UTypes, EngineStates, HolderPcs
<1>. QED
  BY <1>u, <1>1, <1>2, <1>3, <1>4, <1>5, <1>6, <1>7, <1>8, <1>9, <1>10, <1>11,
     <1>12, <1>13 DEF UringNext, Reading

\* What the invariant says of a Read with a ring.
LEMMA HolderFacts ==
    ASSUME UInv, NEW t \in Threads
    PROVE  LET s == mine[t].slot IN
           /\ UTypes
           /\ pc[t] \in HolderPcs => s \in Slots
           /\ pc[t] \in {"open", "sqe", "submit", "wait", "rebuild", "release"} =>
                s \in Slots
           /\ pc[t] \in {"open", "sqe", "release"} => Clean(s)
           /\ pc[t] = "submit" => sq[s] = {mine[t].id} /\ mine[t].id < nextRequestId
           /\ pc[t] = "wait" => /\ Waiting(t, s) /\ mine[t].id \notin sq[s]
                                /\ mine[t].id < nextRequestId
BY DEF UInv, UTypes, Holding, HolderPcs, Rings, RingOf, Waiting

\* The steps of a Read with a ring.
HolderAct(t) ==
    \/ OpenSwapFileForRead(t) \/ PrepareRequest(t) \/ Submit(t)
    \/ WaitForCompletion(t) \/ HandleWaitFailure(t) \/ RebuildSlot(t)
    \/ ReleaseSlot(t)

LEMMA HolderStep ==
    ASSUME UInv, NEW t \in Threads, HolderAct(t)
    PROVE  /\ OnlyItsRing(t) /\ pc[t] \in HolderPcs /\ mine[t].slot \in Slots
           /\ inUse[mine[t].slot]
<1>h. SUFFICES OnlyItsRing(t) /\ pc[t] \in HolderPcs /\ mine[t].slot \in Slots
  BY DEF UInv, Holding
<1>1. CASE OpenSwapFileForRead(t)
  BY <1>1, HolderFacts, OpenEffect DEF HolderPcs
<1>2. CASE PrepareRequest(t)
  <2>1. pc[t] = "sqe"
    BY <1>2 DEF PrepareRequest, Goto
  <2>. QED
    BY <1>2, <2>1, HolderFacts, PrepareEffect DEF HolderPcs
<1>3. CASE Submit(t)
  <2>1. pc[t] = "submit"
    BY <1>3 DEF Submit
  <2>. QED
    BY <1>3, <2>1, HolderFacts, SubmitEffect DEF HolderPcs
<1>4. CASE WaitForCompletion(t)
  <2>1. pc[t] = "wait"
    BY <1>4 DEF WaitForCompletion, SeeCompletion
  <2>. QED
    BY <1>4, <2>1, HolderFacts, WaitEffect DEF HolderPcs
<1>5. CASE HandleWaitFailure(t)
  <2>1. pc[t] = "wait"
    BY <1>5 DEF HandleWaitFailure, Goto
  <2>. QED
    BY <1>5, <2>1, HolderFacts, CancelEffect DEF HolderPcs
<1>6. CASE RebuildSlot(t)
  <2>1. pc[t] = "rebuild"
    BY <1>6 DEF RebuildSlot, Goto
  <2>. QED
    BY <1>6, <2>1, HolderFacts, RebuildEffect DEF HolderPcs
<1>7. CASE ReleaseSlot(t)
  BY <1>7, HolderFacts, ReleaseEffect DEF HolderPcs
<1>. QED
  BY <1>1, <1>2, <1>3, <1>4, <1>5, <1>6, <1>7 DEF HolderAct

\* A step that gives no ring to anyone and takes none keeps Holding.
LEMMA HoldingKept ==
    ASSUME Holding, NEW t \in Threads, pc[t] \in HolderPcs,
           \A u \in Threads \ {t} : pc'[u] = pc[u] /\ mine'[u] = mine[u],
           mine'[t].slot = mine[t].slot, inUse' = inUse
    PROVE  Holding'
<1>1. \A u \in Threads : /\ mine'[u].slot = mine[u].slot
                         /\ pc'[u] \in HolderPcs => pc[u] \in HolderPcs
  OBVIOUS
<1>. QED
  BY <1>1 DEF Holding

\* No two Reads share a ring.
LEMMA HoldingNext ==
    ASSUME UInv, [UringNext]_uVars
    PROVE  Holding'
<1>. USE PoolConstants DEF UInv, UTypes, EngineStates, Holding, HolderPcs
<1>u. CASE UNCHANGED uVars
  BY <1>u DEF uVars, pool, rings, threads
<1>1. CASE Destructor
  BY <1>1 DEF Destructor, threads
<1>2. ASSUME NEW r \in flying, Complete(r)
      PROVE  Holding'
  BY <1>2 DEF Complete, pool, threads
<1>3. ASSUME NEW t \in Threads, InitializePool(t)
      PROVE  Holding'
  BY <1>3 DEF InitializePool, threads
<1>4. ASSUME NEW t \in Threads, Read(t)
      PROVE  Holding'
  BY <1>4 DEF Read, Goto, pool, rings
<1>5. ASSUME NEW t \in Threads, AcquireSlot(t)
      PROVE  Holding'
  <2>1. CASE pc'[t] \in {"acquire", "idle"}
    <3>1. inUse' = inUse /\ mine' = mine /\ \A u \in Threads \ {t} : pc'[u] = pc[u]
      BY <1>5, <2>1, AcquireEffect DEF Alone
    <3>. QED
      BY <2>1, <3>1
  <2>2. CASE pc' = [pc EXCEPT ![t] = "open"]
    <3>. DEFINE s == mine'[t].slot
    <3>1. /\ s \in Slots /\ ~inUse[s] /\ inUse' = [inUse EXCEPT ![s] = TRUE]
          /\ \A u \in Threads \ {t} : mine'[u] = mine[u]
      BY <1>5, <2>2, AcquireEffect DEF Alone, Free
    <3>. HIDE DEF s
    <3>2. \A u \in Threads \ {t} :
            pc[u] \in HolderPcs => mine[u].slot \in Slots /\ inUse[mine[u].slot]
      OBVIOUS
    <3>3. \A u \in Threads \ {t} :
            pc'[u] \in HolderPcs => /\ mine'[u].slot \in Slots /\ mine'[u].slot # s
                                    /\ inUse'[mine'[u].slot]
      BY <2>2, <3>1, <3>2
    <3>4. inUse'[s]
      BY <3>1
    <3>. QED
      BY <2>2, <3>1, <3>3, <3>4 DEF s
  <2>. QED
    BY <1>5, <2>1, <2>2, AcquireEffect
<1>6. ASSUME NEW t \in Threads, OpenSwapFileForRead(t)
      PROVE  Holding'
  <2>1. /\ \A u \in Threads \ {t} : pc'[u] = pc[u] /\ mine'[u] = mine[u]
        /\ pc[t] \in HolderPcs /\ mine'[t].slot = mine[t].slot
    BY <1>6, HolderStep DEF HolderAct, OnlyItsRing, Alone
  <2>2. inUse' = inUse
    BY <1>6 DEF OpenSwapFileForRead, pool
  <2>. QED
    BY <2>1, <2>2, HoldingKept
<1>7. ASSUME NEW t \in Threads, PrepareRequest(t)
      PROVE  Holding'
  <2>1. /\ \A u \in Threads \ {t} : pc'[u] = pc[u] /\ mine'[u] = mine[u]
        /\ pc[t] \in HolderPcs /\ mine'[t].slot = mine[t].slot
    BY <1>7, HolderStep DEF HolderAct, OnlyItsRing, Alone
  <2>2. inUse' = inUse
    BY <1>7 DEF PrepareRequest, pool
  <2>. QED
    BY <2>1, <2>2, HoldingKept
<1>8. ASSUME NEW t \in Threads, Submit(t)
      PROVE  Holding'
  <2>1. /\ \A u \in Threads \ {t} : pc'[u] = pc[u] /\ mine'[u] = mine[u]
        /\ pc[t] \in HolderPcs /\ mine'[t].slot = mine[t].slot
    BY <1>8, HolderStep DEF HolderAct, OnlyItsRing, Alone
  <2>2. inUse' = inUse
    BY <1>8 DEF Submit, pool
  <2>. QED
    BY <2>1, <2>2, HoldingKept
<1>9. ASSUME NEW t \in Threads, WaitForCompletion(t)
      PROVE  Holding'
  <2>1. /\ \A u \in Threads \ {t} : pc'[u] = pc[u] /\ mine'[u] = mine[u]
        /\ pc[t] \in HolderPcs /\ mine'[t].slot = mine[t].slot
    BY <1>9, HolderStep DEF HolderAct, OnlyItsRing, Alone
  <2>2. inUse' = inUse
    BY <1>9 DEF WaitForCompletion, SeeCompletion, pool
  <2>. QED
    BY <2>1, <2>2, HoldingKept
<1>10. ASSUME NEW t \in Threads, RebuildSlot(t)
      PROVE  Holding'
  <2>1. /\ \A u \in Threads \ {t} : pc'[u] = pc[u] /\ mine'[u] = mine[u]
        /\ pc[t] \in HolderPcs /\ mine'[t].slot = mine[t].slot
    BY <1>10, HolderStep DEF HolderAct, OnlyItsRing, Alone
  <2>2. inUse' = inUse
    BY <1>10 DEF RebuildSlot
  <2>. QED
    BY <2>1, <2>2, HoldingKept
<1>11. ASSUME NEW t \in Threads, ReleaseSlot(t)
      PROVE  Holding'
  <2>1. /\ \A u \in Threads \ {t} : pc'[u] = pc[u] /\ mine'[u] = mine[u]
        /\ pc[t] = "release" /\ pc'[t] = "notify"
        /\ inUse' = [inUse EXCEPT ![mine[t].slot] = FALSE]
    BY <1>11, ReleaseEffect DEF OnlyItsRing, Alone
  <2>2. \A u \in Threads \ {t} : pc[u] \in HolderPcs =>
            mine[u].slot \in Slots /\ inUse[mine[u].slot] /\ mine[u].slot # mine[t].slot
    BY <2>1
  <2>3. pc'[t] \notin HolderPcs
    BY <2>1
  <2>. HIDE DEF HolderPcs
  <2>4. ASSUME NEW u \in Threads \ {t}, pc'[u] \in HolderPcs
        PROVE  /\ mine'[u] = mine[u] /\ mine'[u].slot \in Slots
               /\ inUse'[mine'[u].slot] /\ pc[u] \in HolderPcs
    <3>1. mine'[u] = mine[u] /\ pc[u] \in HolderPcs
      BY <2>1, <2>4
    <3>2. mine[u].slot \in Slots /\ inUse[mine[u].slot] /\ mine[u].slot # mine[t].slot
      BY <2>2, <3>1
    <3>. QED
      BY <2>1, <3>1, <3>2
  <2>. QED
    BY <2>3, <2>4
<1>12. ASSUME NEW t \in Threads, NotifyAll(t)
      PROVE  Holding'
  BY <1>12 DEF NotifyAll, NoLocals, Goto, pool, rings
<1>13. ASSUME NEW t \in Threads, HandleWaitFailure(t)
      PROVE  Holding'
  <2>1. /\ \A u \in Threads \ {t} : pc'[u] = pc[u] /\ mine'[u] = mine[u]
        /\ pc[t] \in HolderPcs /\ mine'[t].slot = mine[t].slot
    BY <1>13, HolderStep DEF HolderAct, OnlyItsRing, Alone
  <2>2. inUse' = inUse
    BY <1>13 DEF HandleWaitFailure, pool
  <2>. QED
    BY <2>1, <2>2, HoldingKept
<1>. HIDE DEF UInv, UTypes, EngineStates, Holding, HolderPcs
<1>. QED
  BY <1>u, <1>1, <1>2, <1>3, <1>4, <1>5, <1>6, <1>7, <1>8, <1>9, <1>10, <1>11,
     <1>12, <1>13 DEF UringNext, Reading

\* No success is reported of a buffer that was not filled.
LEMMA AnsweredNext ==
    ASSUME UInv, [UringNext]_uVars
    PROVE  Answered'
<1>. USE PoolConstants DEF UInv, UTypes, Answered, HolderPcs
<1>u. CASE UNCHANGED uVars
  BY <1>u DEF uVars, pool, rings, threads
<1>1. CASE Destructor
  BY <1>1 DEF Destructor, threads
<1>2. ASSUME NEW r \in flying, Complete(r)
      PROVE  Answered'
  BY <1>2 DEF Complete, pool, threads
<1>3. ASSUME NEW t \in Threads, InitializePool(t)
      PROVE  Answered'
  BY <1>3 DEF InitializePool, threads
<1>4. ASSUME NEW t \in Threads, Read(t)
      PROVE  Answered'
  BY <1>4 DEF Read, Goto, pool, rings
<1>5. ASSUME NEW t \in Threads, AcquireSlot(t)
      PROVE  Answered'
  BY <1>5 DEF AcquireSlot, Goto, rings
<1>6. ASSUME NEW t \in Threads, OpenSwapFileForRead(t)
      PROVE  Answered'
  <2>1. /\ \A u \in Threads \ {t} : pc'[u] = pc[u] /\ mine'[u] = mine[u]
        /\ filled' = filled
    BY <1>6, HolderStep DEF HolderAct, OnlyItsRing, Alone
  <2>2. pc'[t] \in {"rebuild", "release", "notify"} => mine'[t].failed
    BY <1>6, OpenEffect
  <2>. QED
    BY <2>1, <2>2
<1>7. ASSUME NEW t \in Threads, PrepareRequest(t)
      PROVE  Answered'
  <2>1. /\ \A u \in Threads \ {t} : pc'[u] = pc[u] /\ mine'[u] = mine[u]
        /\ filled' = filled
    BY <1>7, HolderStep DEF HolderAct, OnlyItsRing, Alone
  <2>3. pc[t] = "sqe" /\ mine[t].slot \in Slots
    BY <1>7, HolderFacts DEF PrepareRequest, Goto
  <2>2. pc'[t] \in {"rebuild", "release", "notify"} => mine'[t].failed
    BY <1>7, <2>3, PrepareEffect
  <2>. QED
    BY <2>1, <2>2
<1>8. ASSUME NEW t \in Threads, Submit(t)
      PROVE  Answered'
  <2>1. /\ \A u \in Threads \ {t} : pc'[u] = pc[u] /\ mine'[u] = mine[u]
        /\ filled' = filled
    BY <1>8, HolderStep DEF HolderAct, OnlyItsRing, Alone
  <2>2. pc'[t] \in {"rebuild", "release", "notify"} => mine'[t].failed
    BY <1>8, HolderFacts, SubmitEffect DEF Submit
  <2>. QED
    BY <2>1, <2>2
<1>9. ASSUME NEW t \in Threads, WaitForCompletion(t)
      PROVE  Answered'
  <2>. DEFINE s == mine[t].slot
  <2>1. /\ \A u \in Threads \ {t} : pc'[u] = pc[u] /\ mine'[u] = mine[u]
        /\ filled' = filled
    BY <1>9, HolderStep DEF HolderAct, OnlyItsRing, Alone
  <2>2. /\ s \in Slots /\ Waiting(t, s) /\ cq[s] \in Seq(Completions) /\ cq[s] # << >>
    BY <1>9, HolderFacts DEF WaitForCompletion, SeeCompletion
  <2>3. \/ pc'[t] = "wait"
        \/ Head(cq[s]).id = mine[t].id /\ (~mine'[t].failed => Head(cq[s]).full)
    BY <1>9, <2>2, WaitEffect
  <2>4. Head(cq[s]).id = mine[t].id /\ Head(cq[s]).full => t \in filled
    <3>1. 1 \in 1 .. Len(cq[s]) /\ Head(cq[s]) = cq[s][1]
      BY <2>2
    <3>. QED
      BY <2>2, <3>1 DEF Waiting
  <2>. HIDE DEF s
  <2>. QED
    BY <2>1, <2>3, <2>4
<1>10. ASSUME NEW t \in Threads, RebuildSlot(t)
      PROVE  Answered'
  BY <1>10 DEF RebuildSlot, Goto
<1>11. ASSUME NEW t \in Threads, ReleaseSlot(t)
      PROVE  Answered'
  BY <1>11 DEF ReleaseSlot, Goto, rings
<1>12. ASSUME NEW t \in Threads, NotifyAll(t)
      PROVE  Answered'
  BY <1>12 DEF NotifyAll, NoLocals, Goto, pool, rings
<1>13. ASSUME NEW t \in Threads, HandleWaitFailure(t)
      PROVE  Answered'
  BY <1>13 DEF HandleWaitFailure, Submitted, Goto, pool
<1>. HIDE DEF UInv, UTypes, Answered, HolderPcs
<1>. QED
  BY <1>u, <1>1, <1>2, <1>3, <1>4, <1>5, <1>6, <1>7, <1>8, <1>9, <1>10, <1>11,
     <1>12, <1>13 DEF UringNext, Reading

\* No wakeup is lost.
LEMMA SleepersNext ==
    ASSUME UInv, [UringNext]_uVars
    PROVE  SleepersWillWake'
<1>. USE PoolConstants DEF UInv, UTypes, EngineStates, HolderPcs,
   SleepersWillWake, HasAvailableRing, Free
<1>u. CASE UNCHANGED uVars
  BY <1>u DEF uVars, pool, rings, threads
<1>1. CASE Destructor
  BY <1>1 DEF Destructor, threads
<1>2. ASSUME NEW r \in flying, Complete(r)
      PROVE  SleepersWillWake'
  BY <1>2 DEF Complete, pool, threads
<1>3. ASSUME NEW t \in Threads, InitializePool(t)
      PROVE  SleepersWillWake'
  BY <1>3 DEF InitializePool, threads
<1>4. ASSUME NEW t \in Threads, Read(t)
      PROVE  SleepersWillWake'
  BY <1>4 DEF Read, Goto, pool, rings
<1>5. ASSUME NEW t \in Threads, AcquireSlot(t)
      PROVE  SleepersWillWake'
  BY <1>5 DEF AcquireSlot, Goto, rings
<1>6. ASSUME NEW t \in Threads, OpenSwapFileForRead(t)
      PROVE  SleepersWillWake'
  BY <1>6 DEF OpenSwapFileForRead, Goto, pool, rings
<1>7. ASSUME NEW t \in Threads, PrepareRequest(t)
      PROVE  SleepersWillWake'
  BY <1>7 DEF PrepareRequest, Goto, pool
<1>8. ASSUME NEW t \in Threads, Submit(t)
      PROVE  SleepersWillWake'
  BY <1>8 DEF Submit, Submitted, Goto, pool
<1>9. ASSUME NEW t \in Threads, WaitForCompletion(t)
      PROVE  SleepersWillWake'
  BY <1>9 DEF WaitForCompletion, SeeCompletion, AfterWait, Goto, pool
<1>10. ASSUME NEW t \in Threads, RebuildSlot(t)
      PROVE  SleepersWillWake'
  BY <1>10 DEF RebuildSlot, Goto
<1>11. ASSUME NEW t \in Threads, ReleaseSlot(t)
      PROVE  SleepersWillWake'
  BY <1>11 DEF ReleaseSlot, Goto, rings
<1>12. ASSUME NEW t \in Threads, NotifyAll(t)
      PROVE  SleepersWillWake'
  BY <1>12 DEF NotifyAll, NoLocals, Goto, pool, rings
<1>13. ASSUME NEW t \in Threads, HandleWaitFailure(t)
      PROVE  SleepersWillWake'
  BY <1>13 DEF HandleWaitFailure, Submitted, Goto, pool
<1>. HIDE DEF UInv, UTypes, EngineStates, HolderPcs, SleepersWillWake,
   HasAvailableRing, Free
<1>. QED
  BY <1>u, <1>1, <1>2, <1>3, <1>4, <1>5, <1>6, <1>7, <1>8, <1>9, <1>10, <1>11,
     <1>12, <1>13 DEF UringNext, Reading

\* What is left of a queue when its head was seen.
LEMMA TailFacts ==
    ASSUME NEW S, NEW q \in Seq(S), q # << >>
    PROVE  /\ Len(q) \in Nat /\ Len(q) > 0 /\ Head(q) = q[1]
           /\ Tail(q) \in Seq(S) /\ Len(Tail(q)) = Len(q) - 1
           /\ \A i \in 1 .. Len(q) - 1 : Tail(q)[i] = q[i + 1]
<1>1. Len(q) \in Nat /\ Len(q) > 0 /\ Head(q) = q[1]
  OBVIOUS
<1>2. Tail(q) \in Seq(S) /\ Len(Tail(q)) = Len(q) - 1
  OBVIOUS
<1>3. \A i \in 1 .. Len(q) - 1 : Tail(q)[i] = q[i + 1]
  OBVIOUS
<1>. QED
  BY <1>1, <1>2, <1>3

\* A ring that a step does not touch stays as it is.
LEMMA CleanKept ==
    ASSUME NEW s \in Slots, Clean(s), sq'[s] = sq[s], cq'[s] = cq[s],
           \A r \in flying' : r.slot = s => r \in flying
    PROVE  Clean(s)'
BY DEF Clean

LEMMA WaitingKept ==
    ASSUME NEW u \in Threads, NEW s \in Slots, Waiting(u, s), mine'[u] = mine[u],
           sq'[s] = sq[s], cq'[s] = cq[s], u \in filled => u \in filled',
           \A r \in flying' : r.slot = s => r \in flying
    PROVE  Waiting(u, s)'
<1>1. mine'[u].id \notin sq'[s]
  BY DEF Waiting
<1>2. \A r \in flying' : r.slot = s =>
        (r.owner = u <=> r.id = mine'[u].id) /\ r.owner \in {u, NoThread}
  BY DEF Waiting
<1>3. \A i \in 1 .. Len(cq'[s]) :
        cq'[s][i].id = mine'[u].id =>
            /\ \A r \in flying' : r.slot = s => r.id # mine'[u].id
            /\ \A j \in 1 .. Len(cq'[s]) : cq'[s][j].id = mine'[u].id => j = i
            /\ cq'[s][i].full => u \in filled'
  BY DEF Waiting
<1>4. ~mine'[u].rebuild =>
        /\ sq'[s] = {}
        /\ \A r \in flying' : r.slot = s => r.id = mine'[u].id
        /\ \A i \in 1 .. Len(cq'[s]) : cq'[s][i].id = mine'[u].id
  BY DEF Waiting
<1>. QED
  BY <1>1, <1>2, <1>3, <1>4 DEF Waiting

LEMMA RingKept ==
    ASSUME UTypes, Holding, NEW u \in Threads, RingOf(u), pc'[u] = pc[u],
           mine'[u] = mine[u], nextRequestId' \in Nat, nextRequestId' >= nextRequestId,
           pc[u] \in HolderPcs =>
            LET s == mine[u].slot IN
            /\ sq'[s] = sq[s] /\ cq'[s] = cq[s]
            /\ \A r \in flying' : r.slot = s => r \in flying,
           u \in filled => pc[u] # "wait" \/ u \in filled'
    PROVE  RingOf(u)'
<1>. DEFINE s == mine[u].slot
<1>1. CASE pc[u] \in HolderPcs
  <2>1. s \in Slots /\ mine'[u].slot = s
    BY <1>1 DEF Holding
  <2>2. pc[u] \in {"open", "sqe", "release"} => Clean(s)'
    BY <1>1, <2>1, CleanKept DEF RingOf
  <2>3. pc[u] = "submit" => /\ sq'[s] = {mine'[u].id} /\ cq'[s] = << >>
                            /\ \A r \in flying' : r.slot # s
    BY <1>1 DEF RingOf
  <2>4. pc[u] = "wait" => Waiting(u, s)'
    BY <1>1, <2>1, WaitingKept DEF RingOf
  <2>5. pc[u] \in {"submit", "wait"} => mine'[u].id < nextRequestId'
    BY DEF RingOf, UTypes, Locals
  <2>6. s' = s /\ mine'[u].slot = s
    BY <2>1
  <2>. HIDE DEF s
  <2>. QED
    BY <2>2, <2>3, <2>4, <2>5, <2>6 DEF RingOf, Clean, Waiting
<1>2. CASE pc[u] \notin HolderPcs
  BY <1>2 DEF RingOf, HolderPcs
<1>. QED
  BY <1>1, <1>2

\* The step of a Read leaves the rings of all others, and the free ones, alone.
LEMMA OthersKept ==
    ASSUME UInv, NEW t \in Threads, HolderAct(t)
    PROVE  /\ \A u \in Threads \ {t} : RingOf(u)'
           /\ \A s \in Slots : ~inUse[s] => Clean(s)'
<1>1. /\ OnlyItsRing(t) /\ pc[t] \in HolderPcs /\ mine[t].slot \in Slots
      /\ inUse[mine[t].slot]
  BY HolderStep
<1>2. UTypes /\ Holding /\ Rings /\ FreeIsClean
  BY DEF UInv
<1>3. ASSUME NEW u \in Threads \ {t} PROVE RingOf(u)'
  <2>1. pc'[u] = pc[u] /\ mine'[u] = mine[u] /\ filled' = filled /\ RingOf(u)
    BY <1>1, <1>2 DEF OnlyItsRing, Alone, Rings
  <2>2. pc[u] \in HolderPcs => mine[u].slot \in Slots \ {mine[t].slot}
    BY <1>1, <1>2 DEF Holding
  <2>3. pc[u] \in HolderPcs =>
            LET s == mine[u].slot IN
            /\ sq'[s] = sq[s] /\ cq'[s] = cq[s]
            /\ \A r \in flying' : r.slot = s => r \in flying
    BY <1>1, <2>2 DEF OnlyItsRing
  <2>4. nextRequestId' \in Nat /\ nextRequestId' >= nextRequestId
    BY <1>1 DEF OnlyItsRing
  <2>. QED
    BY <1>2, <2>1, <2>3, <2>4, RingKept
<1>4. ASSUME NEW s \in Slots, ~inUse[s] PROVE Clean(s)'
  <2>1. s # mine[t].slot /\ Clean(s)
    BY <1>1, <1>2, <1>4 DEF FreeIsClean
  <2>2. sq'[s] = sq[s] /\ cq'[s] = cq[s] /\ \A r \in flying' : r.slot = s => r \in flying
    BY <1>1, <2>1 DEF OnlyItsRing
  <2>. QED
    BY <2>1, <2>2, CleanKept
<1>. QED
  BY <1>3, <1>4

\* A free ring is a clean one.
LEMMA FreeIsCleanNext ==
    ASSUME UInv, [UringNext]_uVars
    PROVE  FreeIsClean'
<1>. USE DEF UInv
<1>u. CASE UNCHANGED uVars
  BY <1>u DEF uVars, pool, rings, threads, FreeIsClean, Clean
<1>1. CASE Destructor
  <2>1. /\ \A s \in Slots : sq'[s] = {} /\ cq'[s] = << >>
        /\ \A q \in flying' : \E r \in flying : q = [r EXCEPT !.slot = NoSlot]
    BY <1>1 DEF Destructor
  <2>2. \A q \in flying' : q.slot = NoSlot
    BY <2>1 DEF UTypes, Requests
  <2>3. NoSlot \notin Slots
    BY PoolConstants DEF NoSlot, Slots
  <2>. QED
    BY <2>1, <2>2, <2>3 DEF FreeIsClean, Clean
<1>2. ASSUME NEW r \in flying, Complete(r)
      PROVE  FreeIsClean'
  <2>1. inUse' = inUse /\ sq' = sq /\ flying' = flying \ {r}
    BY <1>2 DEF Complete, pool
  <2>2. \A s \in Slots : r.slot # s => cq'[s] = cq[s]
    BY <1>2 DEF Complete, UTypes
  <2>3. \A s \in Slots : ~inUse[s] => Clean(s)'
    BY <2>1, <2>2, CleanKept DEF FreeIsClean, Clean
  <2>. QED
    BY <2>1, <2>3 DEF FreeIsClean
<1>3. ASSUME NEW t \in Threads, InitializePool(t)
      PROVE  FreeIsClean'
  BY <1>3 DEF InitializePool, FreeIsClean, Clean
<1>4. ASSUME NEW t \in Threads, Read(t)
      PROVE  FreeIsClean'
  BY <1>4 DEF Read, pool, rings, FreeIsClean, Clean
<1>5. ASSUME NEW t \in Threads, AcquireSlot(t)
      PROVE  FreeIsClean'
  <2>1. sq' = sq /\ cq' = cq /\ flying' = flying
    BY <1>5 DEF AcquireSlot, rings
  <2>2. \A s \in Slots : inUse[s] => inUse'[s]
    BY <1>5, AcquireEffect DEF UTypes
  <2>. QED
    BY <2>1, <2>2 DEF FreeIsClean, Clean
<1>6. ASSUME NEW t \in Threads, OpenSwapFileForRead(t)
      PROVE  FreeIsClean'
  <2>1. inUse' = inUse
    BY <1>6 DEF OpenSwapFileForRead, pool
  <2>2. \A s \in Slots : ~inUse[s] => Clean(s)'
    BY <1>6, OthersKept DEF HolderAct
  <2>. QED
    BY <2>1, <2>2 DEF FreeIsClean
<1>7. ASSUME NEW t \in Threads, PrepareRequest(t)
      PROVE  FreeIsClean'
  <2>1. inUse' = inUse
    BY <1>7 DEF PrepareRequest, pool
  <2>2. \A s \in Slots : ~inUse[s] => Clean(s)'
    BY <1>7, OthersKept DEF HolderAct
  <2>. QED
    BY <2>1, <2>2 DEF FreeIsClean
<1>8. ASSUME NEW t \in Threads, Submit(t)
      PROVE  FreeIsClean'
  <2>1. inUse' = inUse
    BY <1>8 DEF Submit, pool
  <2>2. \A s \in Slots : ~inUse[s] => Clean(s)'
    BY <1>8, OthersKept DEF HolderAct
  <2>. QED
    BY <2>1, <2>2 DEF FreeIsClean
<1>9. ASSUME NEW t \in Threads, WaitForCompletion(t)
      PROVE  FreeIsClean'
  <2>1. inUse' = inUse
    BY <1>9 DEF WaitForCompletion, SeeCompletion, pool
  <2>2. \A s \in Slots : ~inUse[s] => Clean(s)'
    BY <1>9, OthersKept DEF HolderAct
  <2>. QED
    BY <2>1, <2>2 DEF FreeIsClean
<1>10. ASSUME NEW t \in Threads, RebuildSlot(t)
      PROVE  FreeIsClean'
  <2>1. inUse' = inUse
    BY <1>10 DEF RebuildSlot
  <2>2. \A s \in Slots : ~inUse[s] => Clean(s)'
    BY <1>10, OthersKept DEF HolderAct
  <2>. QED
    BY <2>1, <2>2 DEF FreeIsClean
<1>11. ASSUME NEW t \in Threads, ReleaseSlot(t)
      PROVE  FreeIsClean'
  <2>1. /\ sq' = sq /\ cq' = cq /\ flying' = flying /\ pc[t] = "release"
        /\ inUse' = [inUse EXCEPT ![mine[t].slot] = FALSE]
    BY <1>11, ReleaseEffect
  <2>2. \A s \in Slots : s # mine[t].slot => inUse'[s] = inUse[s]
    BY <2>1 DEF UTypes
  <2>3. Clean(mine[t].slot)
    BY <2>1, HolderFacts
  <2>. QED
    BY <2>1, <2>2, <2>3 DEF FreeIsClean, Clean
<1>12. ASSUME NEW t \in Threads, NotifyAll(t)
      PROVE  FreeIsClean'
  BY <1>12 DEF NotifyAll, pool, rings, FreeIsClean, Clean
<1>13. ASSUME NEW t \in Threads, HandleWaitFailure(t)
      PROVE  FreeIsClean'
  <2>1. inUse' = inUse
    BY <1>13 DEF HandleWaitFailure, pool
  <2>2. \A s \in Slots : ~inUse[s] => Clean(s)'
    BY <1>13, OthersKept DEF HolderAct
  <2>. QED
    BY <2>1, <2>2 DEF FreeIsClean
<1>. HIDE DEF UInv
<1>. QED
  BY <1>u, <1>1, <1>2, <1>3, <1>4, <1>5, <1>6, <1>7, <1>8, <1>9, <1>10, <1>11,
     <1>12, <1>13 DEF UringNext, Reading

\* What is on a Read's ring is what its step says.
LEMMA RingsNext ==
    ASSUME UInv, [UringNext]_uVars
    PROVE  Rings'
<1>. USE PoolConstants DEF UInv
<1>u. CASE UNCHANGED uVars
  BY <1>u DEF uVars, pool, rings, threads, Rings, RingOf, Clean, Waiting
<1>1. CASE Destructor
  <2>1. \A u \in Threads : pc'[u] = "idle"
    BY <1>1 DEF Destructor, threads, EngineStates
  <2>. QED
    BY <2>1 DEF Rings, RingOf
<1>2. ASSUME NEW r \in flying, Complete(r)
      PROVE  Rings'
  <2>1. PICK full \in BOOLEAN :
          /\ full => r.owner # NoThread
          /\ flying' = flying \ {r}
          /\ filled' = IF full THEN filled \cup {r.owner} ELSE filled
          /\ cq' = IF r.slot = NoSlot THEN cq
                   ELSE [cq EXCEPT ![r.slot] = Append(@, [id |-> r.id, full |-> full])]
          /\ sq' = sq /\ nextRequestId' = nextRequestId /\ pc' = pc /\ mine' = mine
    BY <1>2 DEF Complete, threads
  <2>2. UTypes /\ Holding /\ Rings
    OBVIOUS
  <2>. SUFFICES ASSUME NEW u \in Threads PROVE RingOf(u)'
    BY DEF Rings
  <2>. DEFINE s == mine[u].slot
  <2>3. CASE pc[u] \in HolderPcs => r.slot # s
    <3>1. pc[u] \in HolderPcs => s \in Slots
      BY HolderFacts
    <3>2. pc[u] \in HolderPcs => cq'[s] = cq[s]
      BY <2>1, <2>2, <2>3, <3>1 DEF UTypes
    <3>3. nextRequestId \in Nat /\ nextRequestId' >= nextRequestId
      BY <2>1, <2>2 DEF UTypes
    <3>4. u \in filled => u \in filled'
      BY <2>1
    <3>. QED
      BY <2>1, <2>2, <3>2, <3>3, <3>4, RingKept DEF Rings
  <2>4. CASE pc[u] \in HolderPcs /\ r.slot = s /\ pc[u] # "rebuild"
    <3>1. s \in Slots /\ pc[u] = "wait" /\ Waiting(u, s)
      BY <2>2, <2>4, HolderFacts DEF Rings, RingOf, Clean, HolderPcs
    <3>2. /\ cq[s] \in Seq(Completions) /\ s # NoSlot
          /\ r \in Requests /\ mine[u] \in Locals
      BY <2>2, <3>1 DEF UTypes, Slots, NoSlot
    <3>. DEFINE c == [id |-> r.id, full |-> full]
                n == Len(cq[s])
    <3>3. cq'[s] = Append(cq[s], c)
      BY <2>1, <2>2, <2>4, <3>1, <3>2 DEF UTypes
    <3>4. c \in Completions /\ c.id = r.id /\ c.full = full
      BY <3>2 DEF Completions, Requests
    <3>. HIDE DEF c
    <3>5. /\ n \in Nat /\ Len(cq'[s]) = n + 1 /\ cq'[s][n + 1] = c
          /\ \A i \in 1 .. n : cq'[s][i] = cq[s][i]
      BY <3>2, <3>3, <3>4
    <3>. HIDE DEF n
    <3>6. \A i \in 1 .. n + 1 : i \in 1 .. n \/ i = n + 1
      BY <3>5
    <3>7. (r.owner = u <=> r.id = mine[u].id) /\ r.owner \in {u, NoThread}
      BY <2>4, <3>1 DEF Waiting
    <3>. HIDE DEF s
    <3>8. CASE r.id = mine[u].id
      <4>1. \A i \in 1 .. n : cq[s][i].id # mine[u].id
        BY <2>4, <3>1, <3>8 DEF Waiting, n
      <4>2. \A q \in flying' : q.slot = s => q.id # mine[u].id
        <5>1. ASSUME NEW q \in flying', q.slot = s, q.id = mine[u].id PROVE FALSE
          <6>1. q.owner = u /\ q \in Requests /\ q # r
            BY <2>1, <2>2, <3>1, <5>1 DEF Waiting, UTypes
          <6>. QED
            BY <2>4, <3>2, <3>7, <3>8, <5>1, <6>1 DEF Requests
        <5>. QED
          BY <5>1
      <4>3. full => u \in filled'
        BY <2>1, <3>7, <3>8
      <4>4. \A i \in 1 .. n + 1 :
              cq'[s][i].id = mine[u].id => i = n + 1
        BY <3>5, <3>6, <4>1
      <4>5. ~mine[u].rebuild =>
              /\ sq[s] = {}
              /\ \A i \in 1 .. n + 1 : cq'[s][i].id = mine[u].id
        BY <3>1, <3>4, <3>5, <3>6, <3>8 DEF Waiting, n
      <4>6. Waiting(u, s)'
        <5>1. \A i \in 1 .. Len(cq'[s]) :
                cq'[s][i].id = mine'[u].id =>
                  /\ \A q \in flying' : q.slot = s => q.id # mine'[u].id
                  /\ \A j \in 1 .. Len(cq'[s]) : cq'[s][j].id = mine'[u].id => j = i
                  /\ cq'[s][i].full => u \in filled'
          BY <2>1, <3>4, <3>5, <4>2, <4>3, <4>4
        <5>2. ~mine'[u].rebuild =>
                /\ sq'[s] = {}
                /\ \A q \in flying' : q.slot = s => q.id = mine'[u].id
                /\ \A i \in 1 .. Len(cq'[s]) : cq'[s][i].id = mine'[u].id
          BY <2>1, <3>1, <3>5, <4>5 DEF Waiting
        <5>. QED
          BY <2>1, <3>1, <5>1, <5>2 DEF Waiting, s
      <4>. QED
        BY <2>1, <2>2, <3>1, <4>6 DEF Rings, RingOf, s
    <3>9. CASE r.id # mine[u].id
      <4>1. mine[u].rebuild
        BY <2>4, <3>1, <3>9 DEF Waiting
      <4>2. \A i \in 1 .. n + 1 :
              cq'[s][i].id = mine[u].id => i \in 1 .. n /\ cq'[s][i] = cq[s][i]
        BY <3>4, <3>5, <3>6, <3>9
      <4>3. \A i \in 1 .. Len(cq'[s]) :
              cq'[s][i].id = mine'[u].id =>
                /\ \A q \in flying' : q.slot = s => q.id # mine'[u].id
                /\ \A j \in 1 .. Len(cq'[s]) : cq'[s][j].id = mine'[u].id => j = i
                /\ cq'[s][i].full => u \in filled'
        BY <2>1, <3>1, <3>5, <4>2 DEF Waiting, n
      <4>4. Waiting(u, s)'
        BY <2>1, <3>1, <4>1, <4>3 DEF Waiting, s
      <4>. QED
        BY <2>1, <2>2, <3>1, <4>4 DEF Rings, RingOf, s
    <3>. QED
      BY <3>8, <3>9
  <2>5. CASE pc[u] = "rebuild"
    BY <2>1, <2>5 DEF RingOf
  <2>. QED
    BY <2>3, <2>4, <2>5
<1>3. ASSUME NEW t \in Threads, InitializePool(t)
      PROVE  Rings'
  <2>1. \A u \in Threads : pc'[u] = "idle"
    BY <1>3 DEF InitializePool, threads, EngineStates
  <2>. QED
    BY <2>1 DEF Rings, RingOf
<1>4. ASSUME NEW t \in Threads, Read(t)
      PROVE  Rings'
  <2>1. /\ pc[t] = "idle" /\ pc' = [pc EXCEPT ![t] = "acquire"]
        /\ mine' = mine /\ sq' = sq /\ cq' = cq /\ flying' = flying
        /\ filled' = filled \ {t} /\ nextRequestId' = nextRequestId
    BY <1>4 DEF Read, Goto, rings
  <2>2. UTypes /\ Holding /\ Rings
    OBVIOUS
  <2>3. ASSUME NEW u \in Threads \ {t} PROVE RingOf(u)'
    <3>1. nextRequestId \in Nat /\ pc'[u] = pc[u] /\ RingOf(u)
      BY <2>1, <2>2 DEF UTypes, Rings
    <3>. QED
      BY <2>1, <2>2, <3>1, RingKept
  <2>4. RingOf(t)'
    BY <2>1, <2>2 DEF RingOf, UTypes
  <2>. QED
    BY <2>3, <2>4 DEF Rings
<1>5. ASSUME NEW t \in Threads, AcquireSlot(t)
      PROVE  Rings'
  <2>1. /\ sq' = sq /\ cq' = cq /\ flying' = flying /\ filled' = filled
        /\ nextRequestId' = nextRequestId
    BY <1>5 DEF AcquireSlot, rings
  <2>2. UTypes /\ Holding /\ Rings /\ FreeIsClean
    OBVIOUS
  <2>3. ASSUME NEW u \in Threads \ {t} PROVE RingOf(u)'
    <3>1. nextRequestId \in Nat /\ pc'[u] = pc[u] /\ mine'[u] = mine[u] /\ RingOf(u)
      BY <1>5, <2>2, AcquireEffect DEF UTypes, Rings, Alone
    <3>. QED
      BY <2>1, <2>2, <3>1, RingKept
  <2>4. RingOf(t)'
    <3>1. CASE pc'[t] \in {"acquire", "idle"}
      BY <3>1 DEF RingOf
    <3>2. CASE pc' = [pc EXCEPT ![t] = "open"]
      <4>1. pc'[t] = "open" /\ Clean(mine'[t].slot)
        BY <1>5, <2>2, <3>2, AcquireEffect DEF UTypes, FreeIsClean, Free
      <4>. QED
        BY <2>1, <4>1 DEF RingOf, Clean
    <3>. QED
      BY <1>5, <2>2, <3>1, <3>2, AcquireEffect
  <2>. QED
    BY <2>3, <2>4 DEF Rings
<1>6. ASSUME NEW t \in Threads, OpenSwapFileForRead(t)
      PROVE  Rings'
  <2>1. \A u \in Threads \ {t} : RingOf(u)'
    BY <1>6, OthersKept DEF HolderAct
  <2>. SUFFICES RingOf(t)'
    BY <2>1 DEF Rings
  <2>2. UTypes /\ pc[t] = "open" => Clean(mine[t].slot)
    BY HolderFacts
  <2>3. /\ pc[t] = "open" /\ mine'[t].slot = mine[t].slot
        /\ sq' = sq /\ cq' = cq /\ flying' = flying /\ pc'[t] \in {"sqe", "release"}
    BY <1>6, OpenEffect DEF OnlyItsRing, UTypes
  <2>4. RingOf(t)'
    BY <2>2, <2>3 DEF RingOf, Clean, UTypes
  <2>. QED
    BY <2>4
<1>7. ASSUME NEW t \in Threads, PrepareRequest(t)
      PROVE  Rings'
  <2>1. \A u \in Threads \ {t} : RingOf(u)'
    BY <1>7, OthersKept DEF HolderAct
  <2>. SUFFICES RingOf(t)'
    BY <2>1 DEF Rings
  <2>0. PICK s : s = mine[t].slot
    OBVIOUS
  <2>2. pc[t] = "sqe" /\ s \in Slots /\ Clean(s) /\ UTypes
    BY <1>7, <2>0, HolderFacts DEF PrepareRequest, Goto
  <2>3. CASE pc' = [pc EXCEPT ![t] = "rebuild"]
    <3>1. pc'[t] = "rebuild"
      BY <2>2, <2>3 DEF UTypes
    <3>. QED
      BY <3>1 DEF RingOf
  <2>4. CASE pc' = [pc EXCEPT ![t] = "submit"]
    <3>0. pc' # [pc EXCEPT ![t] = "rebuild"]
      BY <2>2, <2>4 DEF UTypes
    <3>1. /\ cq' = cq /\ flying' = flying /\ nextRequestId' = nextRequestId + 1
          /\ mine'[t].id = nextRequestId /\ mine'[t].slot = s
          /\ sq' = [sq EXCEPT ![s] = @ \cup {nextRequestId}]
      BY <1>7, <2>0, <2>2, <3>0, PrepareEffect DEF OnlyItsRing
    <3>2. /\ sq'[s] = {mine'[t].id} /\ cq'[s] = << >> /\ \A r \in flying' : r.slot # s
      BY <2>2, <3>1 DEF Clean, UTypes
    <3>3. mine'[t].id < nextRequestId' /\ pc'[t] = "submit"
      BY <2>2, <2>4, <3>1 DEF UTypes
    <3>. QED
      BY <3>1, <3>2, <3>3 DEF RingOf
  <2>5. RingOf(t)'
    BY <1>7, <2>0, <2>2, <2>3, <2>4, PrepareEffect
  <2>. QED
    BY <2>5
<1>8. ASSUME NEW t \in Threads, Submit(t)
      PROVE  Rings'
  <2>1. \A u \in Threads \ {t} : RingOf(u)'
    BY <1>8, OthersKept DEF HolderAct
  <2>. SUFFICES RingOf(t)'
    BY <2>1 DEF Rings
  <2>0. PICK s : s = mine[t].slot
    OBVIOUS
  <2>2. /\ pc[t] = "submit" /\ s \in Slots /\ UTypes
        /\ sq[s] = {mine[t].id} /\ mine[t].id < nextRequestId
    BY <1>8, <2>0, HolderFacts DEF Submit
  <2>3. CASE pc' = [pc EXCEPT ![t] = "rebuild"]
    <3>1. pc'[t] = "rebuild"
      BY <2>2, <2>3 DEF UTypes
    <3>. QED
      BY <3>1 DEF RingOf
  <2>4. CASE pc' = [pc EXCEPT ![t] = "wait"]
    <3>0. pc' # [pc EXCEPT ![t] = "rebuild"]
      BY <2>2, <2>4 DEF UTypes
    <3>1. /\ cq' = cq /\ nextRequestId' = nextRequestId
          /\ mine'[t].id = mine[t].id /\ mine'[t].slot = s
          /\ sq' = [sq EXCEPT ![s] = {}] /\ ~mine'[t].rebuild
          /\ flying' = flying \cup {[id |-> mine[t].id, slot |-> s, owner |-> t]}
      BY <1>8, <2>0, <2>2, <3>0, SubmitEffect DEF OnlyItsRing
    <3>2. cq[s] = << >> /\ \A r \in flying : r.slot # s
      BY <2>0, <2>2 DEF Rings, RingOf
    <3>3. pc'[t] = "wait" /\ sq'[s] = {}
      BY <2>2, <2>4, <3>1 DEF UTypes
    <3>4. /\ \A r \in flying' : r.slot = s => r.owner = t /\ r.id = mine'[t].id
          /\ Len(cq'[s]) = 0
      BY <3>1, <3>2
    <3>5. Waiting(t, s)'
      BY <2>2, <3>1, <3>3, <3>4 DEF Waiting
    <3>. QED
      BY <2>2, <3>1, <3>3, <3>5 DEF RingOf
  <2>5. RingOf(t)'
    BY <1>8, <2>0, <2>2, <2>3, <2>4, SubmitEffect
  <2>. QED
    BY <2>5
<1>9. ASSUME NEW t \in Threads, WaitForCompletion(t)
      PROVE  Rings'
  <2>1. \A u \in Threads \ {t} : RingOf(u)'
    BY <1>9, OthersKept DEF HolderAct
  <2>. SUFFICES RingOf(t)'
    BY <2>1 DEF Rings
  <2>0. PICK s : s = mine[t].slot
    OBVIOUS
  <2>2. /\ pc[t] = "wait" /\ s \in Slots /\ UTypes /\ Waiting(t, s)
        /\ mine[t].id < nextRequestId
    BY <1>9, <2>0, HolderFacts DEF WaitForCompletion, SeeCompletion
  <2>3. /\ cq[s] # << >> /\ sq' = sq /\ flying' = flying
        /\ nextRequestId' = nextRequestId /\ mine'[t].id = mine[t].id
        /\ mine'[t].slot = s /\ cq' = [cq EXCEPT ![s] = Tail(@)] /\ filled' = filled
    BY <1>9, <2>0, <2>2, WaitEffect DEF OnlyItsRing
  <2>. DEFINE n == Len(cq[s])
  <2>4. cq[s] \in Seq(Completions) /\ cq'[s] = Tail(cq[s])
    BY <2>2, <2>3 DEF UTypes
  <2>5. /\ n \in Nat /\ n > 0 /\ Len(cq'[s]) = n - 1 /\ Head(cq[s]) = cq[s][1]
        /\ \A i \in 1 .. n - 1 : cq'[s][i] = cq[s][i + 1] /\ i + 1 \in 1 .. n
        /\ cq'[s] \in Seq(Completions)
    <3>1. n \in Nat /\ \A i \in 1 .. n - 1 : i + 1 \in 1 .. n
      BY <2>4
    <3>. QED
      BY <2>3, <2>4, <3>1, TailFacts
  <2>. HIDE DEF n
  <2>6. CASE Head(cq[s]).id # mine[t].id
    <3>1. pc' = [pc EXCEPT ![t] = "wait"] /\ mine'[t].rebuild
      BY <1>9, <2>0, <2>2, <2>6, WaitEffect
    <3>2. \A i \in 1 .. Len(cq'[s]) :
            cq'[s][i].id = mine'[t].id =>
              /\ \A r \in flying' : r.slot = s => r.id # mine'[t].id
              /\ \A j \in 1 .. Len(cq'[s]) : cq'[s][j].id = mine'[t].id => j = i
              /\ cq'[s][i].full => t \in filled'
      <4>. SUFFICES ASSUME NEW i \in 1 .. n - 1, cq'[s][i].id = mine[t].id
                    PROVE  /\ \A r \in flying : r.slot = s => r.id # mine[t].id
                           /\ \A j \in 1 .. n - 1 : cq'[s][j].id = mine[t].id => j = i
                           /\ cq'[s][i].full => t \in filled
        BY <2>3, <2>5
      <4>1. i + 1 \in 1 .. n /\ cq[s][i + 1] = cq'[s][i] /\ i \in Nat
        BY <2>5
      <4>2. /\ \A r \in flying : r.slot = s => r.id # mine[t].id
            /\ \A j \in 1 .. n : cq[s][j].id = mine[t].id => j = i + 1
            /\ cq[s][i + 1].full => t \in filled
        BY <2>2, <4>1 DEF Waiting, n
      <4>3. ASSUME NEW j \in 1 .. n - 1, cq'[s][j].id = mine[t].id PROVE j = i
        <5>1. j + 1 \in 1 .. n /\ cq[s][j + 1] = cq'[s][j] /\ j \in Nat
          BY <2>5
        <5>2. j + 1 = i + 1
          BY <4>2, <4>3, <5>1
        <5>. QED
          BY <4>1, <5>1, <5>2
      <4>. QED
        BY <4>1, <4>2, <4>3
    <3>3. /\ mine'[t].id \notin sq'[s]
          /\ \A r \in flying' : r.slot = s =>
                (r.owner = t <=> r.id = mine'[t].id) /\ r.owner \in {t, NoThread}
      BY <2>2, <2>3 DEF Waiting
    <3>4. Waiting(t, s)'
      BY <2>3, <3>1, <3>2, <3>3 DEF Waiting
    <3>5. pc'[t] = "wait"
      BY <2>2, <3>1 DEF UTypes
    <3>. QED
      BY <2>2, <2>3, <3>4, <3>5 DEF RingOf
  <2>7. CASE Head(cq[s]).id = mine[t].id /\ mine[t].rebuild
    <3>0. pc' = [pc EXCEPT ![t] = "rebuild"]
      BY <1>9, <2>0, <2>2, <2>7, WaitEffect
    <3>1. pc'[t] = "rebuild"
      BY <2>2, <3>0 DEF UTypes
    <3>. QED
      BY <3>1 DEF RingOf
  <2>8. CASE Head(cq[s]).id = mine[t].id /\ ~mine[t].rebuild
    <3>0. pc' = [pc EXCEPT ![t] = "release"]
      BY <1>9, <2>0, <2>2, <2>8, WaitEffect
    <3>1. pc'[t] = "release"
      BY <2>2, <3>0 DEF UTypes
    <3>2. 1 \in 1 .. n
      BY <2>5
    <3>3. \A j \in 1 .. n : j = 1
      <4>1. cq[s][1].id = mine[t].id /\ \A j \in 1 .. n : cq[s][j].id = mine[t].id
        BY <2>2, <2>5, <2>8 DEF Waiting, n
      <4>. QED
        BY <2>2, <3>2, <4>1 DEF Waiting, n
    <3>4. n = 1
      BY <2>5, <3>3
    <3>5. cq'[s] = << >>
      BY <2>5, <3>4
    <3>6. sq[s] = {} /\ \A r \in flying : r.slot # s
      BY <2>2, <2>5, <2>8, <3>2 DEF Waiting, n
    <3>7. Clean(s)'
      BY <2>3, <3>5, <3>6 DEF Clean
    <3>. QED
      BY <2>3, <3>1, <3>7 DEF RingOf, Clean
  <2>9. RingOf(t)'
    BY <2>6, <2>7, <2>8
  <2>. QED
    BY <2>9
<1>10. ASSUME NEW t \in Threads, RebuildSlot(t)
      PROVE  Rings'
  <2>1. \A u \in Threads \ {t} : RingOf(u)'
    BY <1>10, OthersKept DEF HolderAct
  <2>. SUFFICES RingOf(t)'
    BY <2>1 DEF Rings
  <2>2. /\ pc[t] = "rebuild" /\ mine[t].slot \in Slots /\ UTypes
    BY <1>10, HolderFacts DEF RebuildSlot, Goto
  <2>3. /\ mine' = mine /\ pc' = [pc EXCEPT ![t] = "release"]
        /\ sq' = [sq EXCEPT ![mine[t].slot] = {}]
        /\ cq' = [cq EXCEPT ![mine[t].slot] = << >>]
        /\ \A r \in flying' : r.slot # mine[t].slot
    BY <1>10, <2>2, RebuildEffect
  <2>4. pc'[t] = "release" /\ Clean(mine[t].slot)'
    BY <2>2, <2>3 DEF Clean, UTypes
  <2>5. RingOf(t)'
    BY <2>3, <2>4 DEF RingOf, Clean
  <2>. QED
    BY <2>5
<1>11. ASSUME NEW t \in Threads, ReleaseSlot(t)
      PROVE  Rings'
  <2>1. \A u \in Threads \ {t} : RingOf(u)'
    BY <1>11, OthersKept DEF HolderAct
  <2>. SUFFICES RingOf(t)'
    BY <2>1 DEF Rings
  <2>2. pc'[t] = "notify"
    BY <1>11, ReleaseEffect DEF UTypes
  <2>3. RingOf(t)'
    BY <2>2 DEF RingOf
  <2>. QED
    BY <2>3
<1>12. ASSUME NEW t \in Threads, NotifyAll(t)
      PROVE  Rings'
  <2>1. /\ sq' = sq /\ cq' = cq /\ flying' = flying /\ filled' = filled
        /\ nextRequestId' = nextRequestId
        /\ pc' = [pc EXCEPT ![t] = "idle"] /\ mine' = [mine EXCEPT ![t] = NoLocals]
    BY <1>12 DEF NotifyAll, rings, Goto
  <2>2. UTypes /\ Holding /\ Rings
    OBVIOUS
  <2>3. ASSUME NEW u \in Threads \ {t} PROVE RingOf(u)'
    <3>1. nextRequestId \in Nat /\ pc'[u] = pc[u] /\ mine'[u] = mine[u] /\ RingOf(u)
      BY <2>1, <2>2 DEF UTypes, Rings
    <3>. QED
      BY <2>1, <2>2, <3>1, RingKept
  <2>4. RingOf(t)'
    BY <2>1, <2>2 DEF RingOf, UTypes
  <2>. QED
    BY <2>3, <2>4 DEF Rings
<1>13. ASSUME NEW t \in Threads, HandleWaitFailure(t)
      PROVE  Rings'
  <2>1. \A u \in Threads \ {t} : RingOf(u)'
    BY <1>13, OthersKept DEF HolderAct
  <2>. SUFFICES RingOf(t)'
    BY <2>1 DEF Rings
  <2>0. PICK s : s = mine[t].slot
    OBVIOUS
  <2>2. /\ pc[t] = "wait" /\ s \in Slots /\ UTypes /\ Waiting(t, s)
        /\ mine[t].id \notin sq[s] /\ mine[t].id < nextRequestId
    BY <1>13, <2>0, HolderFacts DEF HandleWaitFailure, Goto
  <2>3. /\ pc' = pc /\ cq' = cq /\ mine'[t].id = mine[t].id /\ mine'[t].rebuild
        /\ mine[t].id \notin sq'[s] /\ mine'[t].slot = s /\ filled' = filled
        /\ nextRequestId' \in Nat /\ nextRequestId' >= nextRequestId
    BY <1>13, <2>0, <2>2, CancelEffect DEF OnlyItsRing
  <2>4. \A r \in flying' :
          r \in flying \/ (r.slot = s /\ r.owner = NoThread /\ r.id # mine[t].id)
    BY <1>13, <2>0, <2>2, CancelEffect
  <2>5. \A r \in flying' : r.slot = s =>
          (r.owner = t <=> r.id = mine'[t].id) /\ r.owner \in {t, NoThread}
    BY <2>2, <2>3, <2>4 DEF Waiting
  <2>6. \A i \in 1 .. Len(cq'[s]) :
          cq'[s][i].id = mine'[t].id =>
            /\ \A r \in flying' : r.slot = s => r.id # mine'[t].id
            /\ \A j \in 1 .. Len(cq'[s]) : cq'[s][j].id = mine'[t].id => j = i
            /\ cq'[s][i].full => t \in filled'
    BY <2>2, <2>3, <2>4 DEF Waiting
  <2>7. Waiting(t, s)'
    BY <2>3, <2>5, <2>6 DEF Waiting
  <2>8. mine'[t].id < nextRequestId'
    BY <2>2, <2>3 DEF UTypes, Locals
  <2>9. RingOf(t)'
    BY <2>2, <2>3, <2>7, <2>8 DEF RingOf
  <2>. QED
    BY <2>9
<1>. HIDE DEF UInv
<1>. QED
  BY <1>u, <1>1, <1>2, <1>3, <1>4, <1>5, <1>6, <1>7, <1>8, <1>9, <1>10, <1>11,
     <1>12, <1>13 DEF UringNext, Reading

\* A step of a thread that does not wait disturbs no request under way.
LEMMA QuietKept ==
    ASSUME UTypes, BufferQuiet, NEW t \in Threads, pc[t] # "wait", flying' = flying,
           \A u \in Threads \ {t} : pc'[u] = pc[u] /\ mine'[u] = mine[u]
    PROVE  BufferQuiet'
<1>. SUFFICES ASSUME NEW r \in flying, r.owner # NoThread
              PROVE  /\ pc'[r.owner] = "wait"
                     /\ mine'[r.owner].id = r.id /\ mine'[r.owner].slot = r.slot
  BY DEF BufferQuiet
<1>1. r.owner \in Threads
  BY DEF UTypes, Requests
<1>2. /\ pc[r.owner] = "wait"
      /\ mine[r.owner].id = r.id /\ mine[r.owner].slot = r.slot
  BY DEF BufferQuiet
<1>. QED
  BY <1>1, <1>2

\* No Read goes on while the kernel has its buffer.
LEMMA BufferQuietNext ==
    ASSUME UInv, [UringNext]_uVars
    PROVE  BufferQuiet'
<1>. USE PoolConstants DEF UInv
<1>u. CASE UNCHANGED uVars
  BY <1>u DEF uVars, pool, rings, threads, BufferQuiet
<1>1. CASE Destructor
  <2>1. /\ \A u \in Threads : pc[u] = "idle"
        /\ \A q \in flying' : \E r \in flying : q = [r EXCEPT !.slot = NoSlot]
    BY <1>1 DEF Destructor
  <2>2. \A r \in flying : r.owner = NoThread
    BY <2>1 DEF BufferQuiet, UTypes, Requests
  <2>3. \A q \in flying' : q.owner = NoThread
    BY <2>1, <2>2 DEF UTypes, Requests
  <2>. QED
    BY <2>3 DEF BufferQuiet
<1>2. ASSUME NEW r \in flying, Complete(r)
      PROVE  BufferQuiet'
  BY <1>2 DEF Complete, threads, BufferQuiet
<1>3. ASSUME NEW t \in Threads, InitializePool(t)
      PROVE  BufferQuiet'
  <2>1. /\ \A u \in Threads \ {t} : pc'[u] = pc[u] /\ mine'[u] = mine[u]
        /\ flying' = flying
    BY <1>3 DEF InitializePool, threads
  <2>2. pc[t] # "wait"
    BY <1>3 DEF InitializePool
  <2>. QED
    BY <2>1, <2>2, QuietKept
<1>4. ASSUME NEW t \in Threads, Read(t)
      PROVE  BufferQuiet'
  <2>1. /\ \A u \in Threads \ {t} : pc'[u] = pc[u] /\ mine'[u] = mine[u]
        /\ flying' = flying
    BY <1>4 DEF Read, rings, Goto, UTypes
  <2>2. pc[t] # "wait"
    BY <1>4 DEF Read, Goto
  <2>. QED
    BY <2>1, <2>2, QuietKept
<1>5. ASSUME NEW t \in Threads, AcquireSlot(t)
      PROVE  BufferQuiet'
  <2>1. /\ \A u \in Threads \ {t} : pc'[u] = pc[u] /\ mine'[u] = mine[u]
        /\ flying' = flying
    BY <1>5, AcquireEffect DEF AcquireSlot, rings, Alone
  <2>2. pc[t] # "wait"
    BY <1>5 DEF AcquireSlot, Goto
  <2>. QED
    BY <2>1, <2>2, QuietKept
<1>6. ASSUME NEW t \in Threads, OpenSwapFileForRead(t)
      PROVE  BufferQuiet'
  <2>1. /\ \A u \in Threads \ {t} : pc'[u] = pc[u] /\ mine'[u] = mine[u]
        /\ flying' = flying
    BY <1>6, HolderStep DEF HolderAct, OnlyItsRing, Alone, rings, OpenSwapFileForRead
  <2>2. pc[t] # "wait"
    BY <1>6 DEF OpenSwapFileForRead, Goto
  <2>. QED
    BY <2>1, <2>2, QuietKept
<1>7. ASSUME NEW t \in Threads, PrepareRequest(t)
      PROVE  BufferQuiet'
  <2>1. /\ \A u \in Threads \ {t} : pc'[u] = pc[u] /\ mine'[u] = mine[u]
        /\ flying' = flying
    BY <1>7, HolderStep DEF HolderAct, OnlyItsRing, Alone, rings, PrepareRequest
  <2>2. pc[t] # "wait"
    BY <1>7 DEF PrepareRequest, Goto
  <2>. QED
    BY <2>1, <2>2, QuietKept
<1>8. ASSUME NEW t \in Threads, Submit(t)
      PROVE  BufferQuiet'
  <2>0. PICK s : s = mine[t].slot
    OBVIOUS
  <2>1. /\ pc[t] = "submit" /\ s \in Slots /\ sq[s] = {mine[t].id} /\ UTypes
    BY <1>8, <2>0, HolderFacts, HolderStep DEF Submit, HolderAct
  <2>2. \A u \in Threads \ {t} : pc'[u] = pc[u] /\ mine'[u] = mine[u]
    BY <1>8, HolderStep DEF HolderAct, OnlyItsRing, Alone
  <2>3. CASE flying' = flying
    BY <2>1, <2>2, <2>3, QuietKept
  <2>4. CASE /\ pc' = [pc EXCEPT ![t] = "wait"]
             /\ flying' = flying \cup {[id |-> mine[t].id, slot |-> s, owner |-> t]}
    <3>1. pc'[t] = "wait" /\ mine'[t].id = mine[t].id /\ mine'[t].slot = s
      BY <1>8, <2>0, <2>1, <2>4, SubmitEffect DEF OnlyItsRing, UTypes
    <3>2. ASSUME NEW r \in flying, r.owner # NoThread
          PROVE  /\ pc'[r.owner] = "wait"
                 /\ mine'[r.owner].id = r.id /\ mine'[r.owner].slot = r.slot
      <4>1. r.owner \in Threads
        BY <3>2 DEF UTypes, Requests
      <4>2. /\ pc[r.owner] = "wait"
            /\ mine[r.owner].id = r.id /\ mine[r.owner].slot = r.slot
        BY <3>2 DEF BufferQuiet
      <4>. QED
        BY <2>1, <2>2, <4>1, <4>2
    <3>3. ASSUME NEW r, r = [id |-> mine[t].id, slot |-> s, owner |-> t]
          PROVE  /\ pc'[r.owner] = "wait"
                 /\ mine'[r.owner].id = r.id /\ mine'[r.owner].slot = r.slot
      BY <3>1, <3>3
    <3>. QED
      BY <2>4, <3>2, <3>3 DEF BufferQuiet
  <2>. QED
    BY <1>8, <2>0, <2>1, <2>3, <2>4, SubmitEffect
<1>9. ASSUME NEW t \in Threads, WaitForCompletion(t)
      PROVE  BufferQuiet'
  <2>0. PICK s : s = mine[t].slot
    OBVIOUS
  <2>1. /\ pc[t] = "wait" /\ s \in Slots /\ UTypes /\ Waiting(t, s)
    BY <1>9, <2>0, HolderFacts, HolderStep DEF HolderAct, WaitForCompletion, SeeCompletion
  <2>2. \A u \in Threads \ {t} : pc'[u] = pc[u] /\ mine'[u] = mine[u]
    BY <1>9, HolderStep DEF HolderAct, OnlyItsRing, Alone
  <2>3. /\ flying' = flying /\ mine'[t].id = mine[t].id /\ mine'[t].slot = s
        /\ cq[s] # << >>
    BY <1>9, <2>0, <2>1, WaitEffect DEF OnlyItsRing
  <2>. SUFFICES ASSUME NEW r \in flying, r.owner # NoThread
                PROVE  /\ pc'[r.owner] = "wait"
                       /\ mine'[r.owner].id = r.id /\ mine'[r.owner].slot = r.slot
    BY <2>3 DEF BufferQuiet
  <2>4. /\ r.owner \in Threads /\ pc[r.owner] = "wait"
        /\ mine[r.owner].id = r.id /\ mine[r.owner].slot = r.slot
    BY DEF BufferQuiet, UTypes, Requests
  <2>5. CASE r.owner # t
    BY <2>2, <2>4, <2>5
  <2>6. CASE r.owner = t
    <3>1. cq[s] \in Seq(Completions)
      BY <2>1 DEF UTypes
    <3>2. 1 \in 1 .. Len(cq[s]) /\ Head(cq[s]) = cq[s][1]
      BY <2>3, <3>1
    <3>3. Head(cq[s]).id # mine[t].id
      BY <2>0, <2>1, <2>4, <2>6, <3>2 DEF Waiting
    <3>4. pc' = [pc EXCEPT ![t] = "wait"]
      BY <1>9, <2>0, <2>1, <3>3, WaitEffect
    <3>5. pc'[t] = "wait"
      BY <2>1, <3>4 DEF UTypes
    <3>. QED
      BY <2>0, <2>3, <2>4, <2>6, <3>5
  <2>. QED
    BY <2>5, <2>6
<1>10. ASSUME NEW t \in Threads, RebuildSlot(t)
      PROVE  BufferQuiet'
  <2>1. /\ pc[t] = "rebuild" /\ mine[t].slot \in Slots /\ UTypes
    BY <1>10, HolderFacts, HolderStep DEF HolderAct, RebuildSlot, Goto
  <2>2. \A u \in Threads \ {t} : pc'[u] = pc[u] /\ mine'[u] = mine[u]
    BY <1>10, HolderStep DEF HolderAct, OnlyItsRing, Alone
  <2>3. \A r \in flying' : r \in flying \/ \E q \in flying : q.slot = mine[t].slot
                                                          /\ q.owner = r.owner
    BY <1>10, <2>1, RebuildEffect
  <2>4. \A r \in flying : r.owner # NoThread =>
            /\ r.owner \in Threads /\ pc[r.owner] = "wait"
            /\ mine[r.owner].id = r.id /\ mine[r.owner].slot = r.slot
    BY DEF BufferQuiet, UTypes, Requests
  <2>5. \A q \in flying : q.slot = mine[t].slot => q.owner = NoThread
    BY <2>1, <2>4 DEF Holding, HolderPcs
  <2>6. \A r \in flying' : r.owner # NoThread => r \in flying
    BY <2>3, <2>5
  <2>. SUFFICES ASSUME NEW r \in flying, r.owner # NoThread
                PROVE  /\ pc'[r.owner] = "wait"
                       /\ mine'[r.owner].id = r.id /\ mine'[r.owner].slot = r.slot
    BY <2>6 DEF BufferQuiet
  <2>. QED
    BY <2>1, <2>2, <2>4
<1>11. ASSUME NEW t \in Threads, ReleaseSlot(t)
      PROVE  BufferQuiet'
  <2>1. /\ \A u \in Threads \ {t} : pc'[u] = pc[u] /\ mine'[u] = mine[u]
        /\ flying' = flying
    BY <1>11, HolderStep DEF HolderAct, OnlyItsRing, Alone, rings, ReleaseSlot
  <2>2. pc[t] # "wait"
    BY <1>11 DEF ReleaseSlot, Goto
  <2>. QED
    BY <2>1, <2>2, QuietKept
<1>12. ASSUME NEW t \in Threads, NotifyAll(t)
      PROVE  BufferQuiet'
  <2>1. /\ \A u \in Threads \ {t} : pc'[u] = pc[u] /\ mine'[u] = mine[u]
        /\ flying' = flying
    BY <1>12 DEF NotifyAll, rings, Goto, UTypes
  <2>2. pc[t] # "wait"
    BY <1>12 DEF NotifyAll, Goto
  <2>. QED
    BY <2>1, <2>2, QuietKept
<1>13. ASSUME NEW t \in Threads, HandleWaitFailure(t)
      PROVE  BufferQuiet'
  <2>1. /\ pc[t] = "wait" /\ mine[t].slot \in Slots /\ UTypes
        /\ mine[t].id \notin sq[mine[t].slot] /\ mine[t].id < nextRequestId
    BY <1>13, HolderFacts, HolderStep DEF HolderAct, HandleWaitFailure, Goto
  <2>2. \A u \in Threads \ {t} : mine'[u] = mine[u]
    BY <1>13, HolderStep DEF HolderAct, OnlyItsRing, Alone
  <2>3. /\ pc' = pc /\ mine'[t].id = mine[t].id /\ mine'[t].slot = mine[t].slot
        /\ \A r \in flying' : r \in flying \/ r.owner = NoThread
    BY <1>13, <2>1, CancelEffect DEF OnlyItsRing
  <2>. SUFFICES ASSUME NEW r \in flying, r.owner # NoThread
                PROVE  /\ pc'[r.owner] = "wait"
                       /\ mine'[r.owner].id = r.id /\ mine'[r.owner].slot = r.slot
    BY <2>3 DEF BufferQuiet
  <2>4. /\ r.owner \in Threads /\ pc[r.owner] = "wait"
        /\ mine[r.owner].id = r.id /\ mine[r.owner].slot = r.slot
    BY DEF BufferQuiet, UTypes, Requests
  <2>. QED
    BY <2>2, <2>3, <2>4
<1>. HIDE DEF UInv
<1>. QED
  BY <1>u, <1>1, <1>2, <1>3, <1>4, <1>5, <1>6, <1>7, <1>8, <1>9, <1>10, <1>11,
     <1>12, <1>13 DEF UringNext, Reading

-----------------------------------------------------------------------------
(* The theorems.                                                           *)

\* An engine without a pool.
LEMMA InitUInv == UringInit => UInv
<1>. SUFFICES ASSUME UringInit PROVE UInv
  OBVIOUS
<1>1. available \in [Slots -> BOOLEAN] /\ inUse \in [Slots -> BOOLEAN]
  BY DEF UringInit
<1>2. sq \in [Slots -> SUBSET Nat] /\ cq \in [Slots -> Seq(Completions)]
  BY DEF UringInit
<1>3. mine \in [Threads -> Locals]
  BY DEF UringInit, NoLocals, Locals
<1>4. UTypes
  BY <1>1, <1>2, <1>3 DEF UringInit, UTypes
<1>5. EngineStates /\ Holding /\ FreeIsClean
  BY DEF UringInit, EngineStates, Holding, HolderPcs, FreeIsClean, Clean
<1>6. Rings /\ Answered /\ BufferQuiet /\ SleepersWillWake
  BY DEF UringInit, Rings, RingOf, Answered, BufferQuiet, SleepersWillWake
<1>. QED
  BY <1>4, <1>5, <1>6 DEF UInv

\* The invariant holds in every reachable state.
LEMMA UInvariantHolds == UringSpec => []UInv
<1>1. ASSUME UInv, [UringNext]_uVars
      PROVE  UInv'
  <2>1. UTypes' /\ EngineStates' /\ Holding'
    BY <1>1, UTypesNext, EngineStatesNext, HoldingNext DEF UInv
  <2>2. FreeIsClean' /\ Rings' /\ Answered'
    BY <1>1, FreeIsCleanNext, RingsNext, AnsweredNext
  <2>3. BufferQuiet' /\ SleepersWillWake'
    BY <1>1, BufferQuietNext, SleepersNext
  <2>. QED
    BY <2>1, <2>2, <2>3 DEF UInv
<1>. QED
  BY InitUInv, <1>1, PTL DEF UringSpec

\* Whatever fails of submitting, waiting or cancelling, and however many threads
\* share however many rings, the kernel writes to no buffer but that of a Read
\* still waiting for it: Read does not return, and does not tear its ring down,
\* under its own request.
THEOREM BuffersAreQuiet == UringSpec => []BufferQuiet
<1>1. UInv => BufferQuiet
  BY DEF UInv
<1>. QED
  BY UInvariantHolds, <1>1, PTL

\* A Read that succeeds has its own data, a ring that is given back carries nothing
\* of its past, and nobody sleeps for a ring that is free.
THEOREM PoolIsSound == UringSpec => []PoolSound
<1>1. UInv => SuccessIsOwn /\ SleepersWillWake
  BY DEF UInv, Answered, SuccessIsOwn
<1>2. UInv => PoolClean
  BY DEF UInv, EngineStates, FreeIsClean, Clean, PoolClean
<1>. QED
  BY UInvariantHolds, <1>1, <1>2, PTL DEF PoolSound

=============================================================================

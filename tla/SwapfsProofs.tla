---------------------------- MODULE SwapfsProofs ----------------------------
(***************************************************************************)
(* Proofs about swapfs, for any number of threads, keys and sizes and any  *)
(* limits.  First about SwapfsManager, with at most one thread that calls  *)
(* Destroy: its inductive invariant IInv and the safety invariants.  From  *)
(* IInv it follows that the manager implements SwapStore, that its space   *)
(* accounts are right and that its limits hold, and, about SwapfsApi, that *)
(* behind the C API all of it is true with any number of threads that      *)
(* destroy the handle: at most one of them is inside Destroy, because of   *)
(* how the table of handles lets calls in.                                 *)
(***************************************************************************)
EXTENDS SwapfsApi, FiniteSetTheorems, SumLemmas, TLAPS

\* Destroy has one caller at a time: the C API admits the next one only when the
\* last one has ended (BeginDestroy, swapfs_c_api.cpp).
AtMostOneDestroyer == \A a, b \in Destroyers : a = b

ReaderPcs  == {"read", "finish"}
DestroyPcs == {"waitOps", "teardown", "busy"}
DeleterPcs == {"unlink", "erase", "revive"}
BatchPcs   == {"unlinkAll", "lockAll", "finalizeAll"}

\* The types, the counters only as integers.
Types ==
    /\ initialized \in BOOLEAN /\ shuttingDown \in BOOLEAN
    /\ removeAllInProgress \in BOOLEAN
    /\ activeOps \in Int
    /\ nextKeyId \in 1 .. MaxKey + 1
    /\ status \in [Keys -> {"absent", "active", "removing"}]
    /\ readCount \in [Keys -> Int]
    /\ dataSize \in [Keys -> Nat]
    /\ session \in [dir: BOOLEAN, lock: BOOLEAN]
    /\ file \in [Keys -> {"none", "tmp", "swap"}]
    /\ fileSize \in [Keys -> Nat]
    /\ pc \in [Threads -> ActivePcs \cup IdlePcs]
    /\ opKey \in [Threads -> Keys \cup {NoKey}]
    /\ opSize \in [Threads -> Nat]
    /\ todo \in [Threads -> SUBSET Keys]
    /\ gone \in [Threads -> SUBSET Keys]
    /\ kept \in [Threads -> SUBSET Keys]

ControlTypes ==
    /\ ctl \in ControlState
    /\ refresh \in [holder: Threads \cup {NoThread}, base: Nat,
                    answered: BOOLEAN, space: Nat]

\* activeOps_ and readCount count the calls and the readers there are.
OpsCounted == activeOps = Cardinality(Active)
ReadsCounted == \A k \in Keys : readCount[k] = Cardinality(Readers(k))

\* A thread that works on a key has one; idle threads have none.
KeyHeld ==
    /\ \A t \in Threads :
        pc[t] \in ReaderPcs \cup DeleterPcs \cup WriterPcs \cup {"reserve", "lookup"}
            => opKey[t] \in Keys
    /\ \A t \in Threads : pc[t] \in IdlePcs => opKey[t] = NoKey

\* The key of a SwapOut under way was handed out to it alone.
WriterOwnsKey ==
    \A t \in Threads :
        pc[t] \in SwapOutPcs /\ opKey[t] # NoKey =>
            /\ opKey[t] < nextKeyId
            /\ status[opKey[t]] = "absent"
            /\ \A u \in Threads \ {t} :
                pc[u] \in SwapOutPcs => opKey[u] # opKey[t]

\* Keys not handed out have no entry.
FreshKeysAbsent == \A k \in Keys : k >= nextKeyId => status[k] = "absent"

ReadersHaveEntry ==
    \A t \in Threads : pc[t] \in ReaderPcs => status[opKey[t]] # "absent"

\* The thread that deletes a key is alone on it.
DeleterIsAlone ==
    \A t \in Threads :
        pc[t] \in DeleterPcs =>
            /\ status[opKey[t]] = "removing"
            /\ \A u \in Threads \ {t} :
                pc[u] \in ReaderPcs \cup DeleterPcs => opKey[u] # opKey[t]

\* RemoveAllData has the table to itself until it has ended.
BatchIsAlone ==
    \A t \in Threads :
        IF pc[t] \in BatchPcs
        THEN /\ removeAllInProgress
             /\ todo[t] \cap gone[t] = {} /\ todo[t] \cap kept[t] = {}
             /\ gone[t] \cap kept[t] = {}
             /\ pc[t] # "unlinkAll" => todo[t] = {}
             /\ pc[t] # "finalizeAll" => \A k \in Keys : status[k] # "active"
             /\ \A k \in Keys :
                 status[k] = "removing" <=> k \in todo[t] \cup gone[t] \cup kept[t]
             /\ \A u \in Threads \ {t} :
                 /\ pc[u] \notin ReaderPcs \cup DeleterPcs \cup BatchPcs
                 /\ pc[u] \in SwapOutPcs => opKey[u] = NoKey
        ELSE todo[t] = {} /\ gone[t] = {} /\ kept[t] = {}

\* A key marked REMOVING has a reader, a deleter or RemoveAllData on it, and
\* the flag of RemoveAllData its thread.
RemovingHasOwner ==
    /\ \A k \in Keys :
        status[k] = "removing" =>
            \E t \in Threads :
                \/ pc[t] \in ReaderPcs \cup DeleterPcs /\ opKey[t] = k
                \/ pc[t] \in BatchPcs
    /\ removeAllInProgress => \E t \in Threads : pc[t] \in BatchPcs

\* What is in the data directory.
FilesFollow ==
    /\ \A k \in Keys :
        status[k] = "active" => file[k] = "swap" /\ fileSize[k] = dataSize[k]
    /\ \A t \in Threads :
        /\ pc[t] \in ReaderPcs \cup {"unlink", "revive"} =>
            file[opKey[t]] = "swap" /\ fileSize[opKey[t]] = dataSize[opKey[t]]
        /\ pc[t] \in {"rename", "commit"} => fileSize[opKey[t]] = opSize[t]
        /\ pc[t] = "commit" => file[opKey[t]] = "swap"
        /\ \A k \in todo[t] \cup kept[t] :
            file[k] = "swap" /\ fileSize[k] = dataSize[k]

\* Destroy, by one thread at most, works behind a closed door.
DoorShut ==
    /\ initialized => session.dir /\ session.lock
    /\ Active # {} => initialized
    /\ \A t \in Threads :
        pc[t] \in DestroyPcs => t \in Destroyers /\ shuttingDown
    /\ \A t \in Threads : pc[t] = "teardown" => Active = {}

\* No two threads are inside Destroy.
OneDestroying ==
    \A t, u \in Threads : pc[t] \in DestroyPcs /\ pc[u] \in DestroyPcs => t = u

Discipline ==
    /\ KeyHeld /\ WriterOwnsKey /\ FreshKeysAbsent /\ ReadersHaveEntry
    /\ DeleterIsAlone /\ BatchIsAlone /\ RemovingHasOwner

IInv ==
    /\ Types /\ ControlTypes
    /\ OpsCounted /\ ReadsCounted
    /\ Discipline /\ FilesFollow /\ DoorShut

-----------------------------------------------------------------------------
(* Steps that move their thread along one of these arrows and change       *)
(* nothing else that the invariant speaks of.                              *)

Arrows(t, from, to) ==
    \/ from \in {"refresh", "apply"} /\ to = AfterRefresh(t)
    \/ from = "refresh" /\ to = "query"
    \/ from = "query" /\ to = "apply"
    \/ from = "reserve" /\ to \in {"write", "end"}
    \/ from \in {"cancel", "fill", "lookup"} /\ to = "end"
    \/ from = "read" /\ to = "finish"
    \/ from = "lockAll" /\ to = "finalizeAll"

Moves(t) ==
    /\ \E from, to : Arrows(t, from, to) /\ Goto(t, from, to)
    /\ UNCHANGED <<flags, activeOps, table, session, disk, locals>>

-----------------------------------------------------------------------------
(* The accountant's operators keep its state a state.                      *)

\* The saturating subtraction of the accountant stays in the naturals.
LEMMA SubOrZeroType ==
    ASSUME NEW a \in Nat, NEW b \in Nat
    PROVE  SubOrZero(a, b) \in Nat
BY DEF SubOrZero

\* The counters of the accountant are naturals.
LEMMA FieldTypes ==
    ASSUME NEW c \in ControlState
    PROVE  /\ c.totalKeys \in Nat /\ c.totalOccupied \in Nat
           /\ c.pending \in Nat /\ c.committed \in Nat /\ c.available \in Nat
BY DEF ControlState

\* Writing one field of the accountant with a value of its type.
LEMMA FieldUpdates ==
    ASSUME NEW c \in ControlState, NEW n \in Nat, NEW b \in BOOLEAN
    PROVE  /\ [c EXCEPT !.totalKeys = n] \in ControlState
           /\ [c EXCEPT !.totalOccupied = n] \in ControlState
           /\ [c EXCEPT !.pending = n] \in ControlState
           /\ [c EXCEPT !.committed = n] \in ControlState
           /\ [c EXCEPT !.available = n] \in ControlState
           /\ [c EXCEPT !.enabled = b] \in ControlState
<1>1. [c EXCEPT !.totalKeys = n] \in ControlState
  BY DEF ControlState
<1>2. [c EXCEPT !.totalOccupied = n] \in ControlState
  BY DEF ControlState
<1>3. [c EXCEPT !.pending = n] \in ControlState
  BY DEF ControlState
<1>4. [c EXCEPT !.committed = n] \in ControlState
  BY DEF ControlState
<1>5. [c EXCEPT !.available = n] \in ControlState
  BY DEF ControlState
<1>6. [c EXCEPT !.enabled = b] \in ControlState
  BY Zenon DEF ControlState
<1>. QED
  BY <1>1, <1>2, <1>3, <1>4, <1>5, <1>6

\* ReserveSwapOut and CancelReservedSwapOut.
LEMMA ReserveTypes ==
    ASSUME NEW c \in ControlState, NEW n \in Nat
    PROVE  /\ Reserve(c, n) \in ControlState
           /\ CancelReservedSwapOut(c, n) \in ControlState
<1>1. c.pending + n \in Nat
  BY FieldTypes
<1>2. SubOrZero(c.pending, n) \in Nat
  BY FieldTypes, SubOrZeroType
<1>. QED
  BY <1>1, <1>2, FieldUpdates DEF Reserve, CancelReservedSwapOut

\* OnSwapOutCommitted.
LEMMA CommitTypes ==
    ASSUME NEW c \in ControlState, NEW n \in Nat
    PROVE  OnSwapOutCommitted(c, n) \in ControlState
<1>. DEFINE c1 == [c EXCEPT !.pending = SubOrZero(@, n)]
            c2 == [c1 EXCEPT !.totalKeys = c.totalKeys + 1]
            c3 == [c2 EXCEPT !.totalOccupied = c.totalOccupied + n]
            c4 == [c3 EXCEPT !.committed = c.committed + n]
<1>0. c.totalKeys + 1 \in Nat /\ c.totalOccupied + n \in Nat /\ c.committed + n \in Nat
  BY FieldTypes
<1>1. SubOrZero(c.pending, n) \in Nat
  BY FieldTypes, SubOrZeroType
<1>2. c1 \in ControlState
  BY <1>1, FieldUpdates
<1>3. c2 \in ControlState
  <2>. HIDE DEF c1
  <2>. QED  BY <1>0, <1>2, FieldUpdates DEF c2
<1>4. c3 \in ControlState
  <2>. HIDE DEF c2
  <2>. QED  BY <1>0, <1>3, FieldUpdates DEF c3
<1>5. c4 \in ControlState
  <2>. HIDE DEF c3
  <2>. QED  BY <1>0, <1>4, FieldUpdates DEF c4
<1>. QED
  BY <1>5, Zenon DEF OnSwapOutCommitted

\* OnEntryRemoved and OnAllEntriesRemoved.
LEMMA RemoveTypes ==
    ASSUME NEW c \in ControlState, NEW n \in Nat
    PROVE  /\ OnEntryRemoved(c, n) \in ControlState
           /\ OnAllEntriesRemoved(c) \in ControlState
<1>. DEFINE c1 == [c EXCEPT !.totalKeys = SubOrZero(@, 1)]
            c2 == [c1 EXCEPT !.totalOccupied = SubOrZero(c.totalOccupied, n)]
            d1 == [c EXCEPT !.totalKeys = 0]
            d2 == [d1 EXCEPT !.totalOccupied = 0]
<1>1. SubOrZero(c.totalKeys, 1) \in Nat /\ SubOrZero(c.totalOccupied, n) \in Nat
  BY FieldTypes, SubOrZeroType
<1>2. c1 \in ControlState /\ d1 \in ControlState
  BY <1>1, FieldUpdates
<1>3. c2 \in ControlState /\ d2 \in ControlState
  <2>. HIDE DEF c1, d1
  <2>. QED  BY <1>1, <1>2, FieldUpdates DEF c2, d2
<1>4. OnEntryRemoved(c, n) \in ControlState
  BY <1>3, Zenon DEF OnEntryRemoved
<1>5. OnAllEntriesRemoved(c) \in ControlState
  BY <1>3, Zenon DEF OnAllEntriesRemoved
<1>. QED
  BY <1>4, <1>5

\* The locked tail of RefreshAvailableSpaceIfNeeded.
LEMMA RefreshTypes ==
    ASSUME NEW c \in ControlState, NEW r \in BOOLEAN, NEW s \in Nat, NEW b \in Nat
    PROVE  RefreshApply(c, r, s, b) \in ControlState
<1>. DEFINE avail == IF r THEN s ELSE c.available
            com == IF r THEN SubOrZero(c.committed, b) ELSE c.committed
            c1 == [c EXCEPT !.available = avail]
            c2 == [c1 EXCEPT !.enabled = avail >= MinAvailable]
            c3 == [c2 EXCEPT !.committed = com]
<1>1. avail \in Nat /\ com \in Nat
  BY FieldTypes, SubOrZeroType
<1>2. (avail >= MinAvailable) \in BOOLEAN
  OBVIOUS
<1>. HIDE DEF com
<1>3. c1 \in ControlState
  <2>. HIDE DEF avail
  <2>. QED  BY <1>1, FieldUpdates DEF c1
<1>4. c2 \in ControlState
  <2>. HIDE DEF c1, avail
  <2>. QED  BY <1>2, <1>3, FieldUpdates, Zenon DEF c2
<1>5. c3 \in ControlState
  <2>. HIDE DEF c2
  <2>. QED  BY <1>1, <1>4, FieldUpdates DEF c3
<1>. QED
  BY <1>5, Zenon DEF RefreshApply, com

\* InitWithAvailableSpace, and the state before it.
LEMMA InitTypes ==
    ASSUME NEW a \in Nat, NEW p \in {"untried", "unavailable", "cached"}
    PROVE  /\ InitWithAvailableSpace(a, p) \in ControlState
           /\ FreshControl \in ControlState
<1>1. \A x \in Nat, y \in {"untried", "unavailable", "cached"} :
        InitWithAvailableSpace(x, y) \in ControlState
  BY ControlConstants DEF InitWithAvailableSpace, ControlState
<1>2. InitWithAvailableSpace(0, "untried") \in ControlState
  BY <1>1
<1>. QED
  BY <1>1, <1>2, FieldUpdates DEF FreshControl

-----------------------------------------------------------------------------
(* Counting threads.                                                       *)

\* NoKey is not a key.
LEMMA NoKeyIsNone == NoKey \notin Keys
BY DEF NoKey, Keys

\* The sets of threads that are counted are finite, so counting them makes sense.
LEMMA ThreadSetsFinite ==
    ASSUME NEW S \in SUBSET Threads
    PROVE  IsFiniteSet(S) /\ Cardinality(S) \in Nat
BY ManagerConstants, FS_Subset, FS_CardinalityType

\* A thread that moves enters or leaves the calls that activeOps_ counts, or
\* does neither.
LEMMA ActiveStep ==
    ASSUME Types, NEW t \in Threads, NEW from, NEW to, Goto(t, from, to)
    PROVE  /\ from \in ActivePcs /\ to \in ActivePcs => Active' = Active
           /\ from \in IdlePcs /\ to \in IdlePcs => Active' = Active
           /\ from \in IdlePcs /\ to \in ActivePcs =>
                Cardinality(Active') = Cardinality(Active) + 1
           /\ from \in ActivePcs /\ to \in IdlePcs =>
                /\ Cardinality(Active') = Cardinality(Active) - 1
                /\ Cardinality(Active) >= 1
<1>. DEFINE On  == Active \cup {t}
            Off == Active \ {t}
<1>1. Active \in SUBSET Threads
  BY DEF Active
<1>2. /\ IsFiniteSet(Active) /\ Cardinality(Active) \in Nat
      /\ Cardinality(On) = IF t \in Active THEN Cardinality(Active)
                                           ELSE Cardinality(Active) + 1
      /\ Cardinality(Off) = IF t \in Active THEN Cardinality(Active) - 1
                                            ELSE Cardinality(Active)
  BY <1>1, ThreadSetsFinite, FS_AddElement, FS_RemoveElement
<1>3. Cardinality(Off) \in Nat
  BY <1>1, ThreadSetsFinite
<1>4. Active' = IF to \in ActivePcs THEN On ELSE Off
  BY DEF Active, Goto, Types
<1>5. t \in Active <=> from \in ActivePcs
  BY DEF Active, Goto
<1>6. from \in IdlePcs => from \notin ActivePcs
  BY DEF IdlePcs, ActivePcs
<1>7. to \in IdlePcs => to \notin ActivePcs
  BY DEF IdlePcs, ActivePcs
<1>. HIDE DEF On, Off
<1>. QED
  <2>1. to \in ActivePcs /\ from \in ActivePcs => Active' = Active
    BY <1>4, <1>5 DEF On
  <2>2. to \in IdlePcs /\ from \in IdlePcs => Active' = Active
    BY <1>4, <1>5, <1>6, <1>7 DEF Off
  <2>. QED
    BY <1>2, <1>3, <1>4, <1>5, <1>6, <1>7, <2>1, <2>2

\* A thread that starts or ends reading its key changes the number of that key's
\* readers by one; nothing else changes the readers of a key.
LEMMA ReadersStep ==
    ASSUME Types, NEW t \in Threads, NEW from, NEW to, Goto(t, from, to),
           opKey' = opKey, NEW j \in Keys
    PROVE  /\ from \in ReaderPcs /\ to \in ReaderPcs => Readers(j)' = Readers(j)
           /\ from \notin ReaderPcs /\ to \notin ReaderPcs => Readers(j)' = Readers(j)
           /\ opKey[t] # j => Readers(j)' = Readers(j)
           /\ from \notin ReaderPcs /\ to \in ReaderPcs /\ opKey[t] = j =>
                Cardinality(Readers(j)') = Cardinality(Readers(j)) + 1
           /\ from \in ReaderPcs /\ to \notin ReaderPcs /\ opKey[t] = j =>
                Cardinality(Readers(j)') = Cardinality(Readers(j)) - 1
<1>. DEFINE R   == Readers(j)
            On  == R \cup {t}
            Off == R \ {t}
<1>1. R \in SUBSET Threads
  BY DEF Readers
<1>2. /\ IsFiniteSet(R) /\ Cardinality(R) \in Nat
      /\ Cardinality(On) = IF t \in R THEN Cardinality(R) ELSE Cardinality(R) + 1
      /\ Cardinality(Off) = IF t \in R THEN Cardinality(R) - 1 ELSE Cardinality(R)
  BY <1>1, ThreadSetsFinite, FS_AddElement, FS_RemoveElement
<1>3. Readers(j)' = IF to \in ReaderPcs /\ opKey[t] = j THEN On ELSE Off
  BY DEF Readers, ReaderPcs, Goto, Types
<1>4. t \in R <=> from \in ReaderPcs /\ opKey[t] = j
  BY DEF Readers, ReaderPcs, Goto
<1>. HIDE DEF R
<1>5. opKey[t] # j => Readers(j)' = R
  BY <1>3, <1>4
<1>6. (from \in ReaderPcs <=> to \in ReaderPcs) => Readers(j)' = R
  BY <1>3, <1>4
<1>. QED
  BY <1>2, <1>3, <1>4, <1>5, <1>6 DEF R

\* What readCount says about the threads, key by key.
LEMMA ReaderCounts ==
    ASSUME Types, ReadsCounted, NEW k \in Keys
    PROVE  /\ readCount[k] \in Nat
           /\ readCount[k] = 0 <=>
                \A u \in Threads : ~(pc[u] \in ReaderPcs /\ opKey[u] = k)
           /\ \A t \in Threads :
                pc[t] \in ReaderPcs /\ opKey[t] = k =>
                    /\ readCount[k] >= 1
                    /\ readCount[k] = 1 <=>
                        \A u \in Threads \ {t} : ~(pc[u] \in ReaderPcs /\ opKey[u] = k)
<1>. DEFINE R == Readers(k)
<1>1. readCount[k] = Cardinality(R) /\ R \in SUBSET Threads
  BY DEF ReadsCounted, Readers
<1>2. IsFiniteSet(R) /\ Cardinality(R) \in Nat
  BY <1>1, ThreadSetsFinite
<1>3. Cardinality(R) = 0 <=> R = {}
  BY <1>2, FS_EmptySet
<1>4. \A u \in Threads : u \in R <=> pc[u] \in ReaderPcs /\ opKey[u] = k
  BY DEF Readers, ReaderPcs
<1>5. ASSUME NEW t \in R
      PROVE  Cardinality(R) >= 1 /\ (Cardinality(R) = 1 <=> R \ {t} = {})
  <2>1. IsFiniteSet(R \ {t}) /\ Cardinality(R \ {t}) = Cardinality(R) - 1
    BY <1>2, FS_RemoveElement
  <2>2. Cardinality(R \ {t}) \in Nat /\ (Cardinality(R \ {t}) = 0 <=> R \ {t} = {})
    BY <2>1, FS_CardinalityType, FS_EmptySet
  <2>. QED
    BY <1>2, <2>1, <2>2
<1>. HIDE DEF R
<1>. QED
  BY <1>1, <1>2, <1>3, <1>4, <1>5

\* When activeOps_ is zero nobody is inside the manager.
LEMMA NobodyInside ==
    ASSUME OpsCounted, activeOps = 0
    PROVE  Active = {} /\ \A u \in Threads : pc[u] \notin ActivePcs
<1>1. IsFiniteSet(Active)
  BY ThreadSetsFinite DEF Active
<1>2. Active = {}
  BY <1>1, FS_EmptySet DEF OpsCounted
<1>. QED
  BY <1>2 DEF Active

\* A step that neither starts nor ends a read leaves the readers alone.
LEMMA ReadersKept ==
    ASSUME Types, NEW t \in Threads, NEW from, NEW to, Goto(t, from, to),
           from \notin ReaderPcs, to \notin ReaderPcs,
           \A u \in Threads \ {t} : opKey'[u] = opKey[u]
    PROVE  \A j \in Keys : Readers(j)' = Readers(j)
BY DEF Readers, ReaderPcs, Goto, Types

-----------------------------------------------------------------------------
(* The parts of the invariant, one by one, action by action.               *)

\* The steps that only move their thread, and at most touch the accountant.
LEMMA MovesSteps ==
    ASSUME NEW t \in Threads
    PROVE  /\ RefreshSkip(t) => Moves(t)
           /\ RefreshBegin(t) => Moves(t)
           /\ GetFreeSize(t) => Moves(t)
           /\ RefreshEnd(t) => Moves(t)
           /\ ReserveSwapOut(t) => Moves(t)
           /\ CancelSwapOut(t) => Moves(t)
           /\ SwapInMisaligned(t) => Moves(t)
           /\ ExecuteSwapInRead(t) => Moves(t)
           /\ FillStats(t) => Moves(t)
           /\ LockForFinalize(t) => Moves(t)
<1>. USE DEF Moves, Arrows
<1>1. RefreshSkip(t) => Moves(t)
  BY DEF RefreshSkip
<1>2. RefreshBegin(t) => Moves(t)
  BY DEF RefreshBegin
<1>3. GetFreeSize(t) => Moves(t)
  BY DEF GetFreeSize
<1>4. RefreshEnd(t) => Moves(t)
  BY DEF RefreshEnd
<1>5. ReserveSwapOut(t) => Moves(t)
  BY DEF ReserveSwapOut
<1>6. CancelSwapOut(t) => Moves(t)
  BY DEF CancelSwapOut
<1>7. SwapInMisaligned(t) => Moves(t)
  BY DEF SwapInMisaligned
<1>8. ExecuteSwapInRead(t) => Moves(t)
  BY DEF ExecuteSwapInRead
<1>9. FillStats(t) => Moves(t)
  BY DEF FillStats
<1>10. LockForFinalize(t) => Moves(t)
  BY DEF LockForFinalize, Locked
<1>. QED
  BY <1>1, <1>2, <1>3, <1>4, <1>5, <1>6, <1>7, <1>8, <1>9, <1>10

\* No step leaves the types.
LEMMA TypesNext ==
    ASSUME Types, KeyHeld, [Next]_vars
    PROVE  Types'
<1>1. CASE UNCHANGED vars
  BY <1>1 DEF vars, flags, table, disk, batch, locals, Types
<1>2. ASSUME NEW t \in Threads, Step(t)
      PROVE  Types'
  <2>1. CASE Moves(t)
    BY ManagerConstants, <2>1 DEF Moves, Goto, flags, table, disk, batch,
       locals, Types, ActivePcs, IdlePcs, AfterRefresh, Arrows
  <2>2. CASE InitManager(t)
    BY ManagerConstants, <2>2 DEF InitManager, table, disk, batch, locals,
       Types, ActivePcs, IdlePcs
  <2>3. CASE DestroyBegin(t)
    BY ManagerConstants, <2>3 DEF DestroyBegin, Locked, Goto, table, disk,
       batch, locals, Types, ActivePcs, IdlePcs
  <2>4. CASE GetStats(t)
    BY ManagerConstants, <2>4 DEF GetStats, Locked, Goto, flags, table, disk,
       batch, locals, Types, ActivePcs, IdlePcs
  <2>5. CASE CollectRemovableEntries(t)
    BY ManagerConstants, <2>5 DEF CollectRemovableEntries, Locked, Goto, disk,
       Types, ActivePcs, IdlePcs
  <2>6. ASSUME NEW n \in Sizes, PrepareForSwapOut(t, n)
        PROVE  Types'
    BY ManagerConstants, <2>6, SMTT(30) DEF PrepareForSwapOut, Locked, Goto,
       flags, disk, batch, Types, ActivePcs, IdlePcs, Keys, NoKey
  <2>7. ASSUME NEW k \in Keys, PrepareForSwapIn(t, k)
        PROVE  Types'
    BY ManagerConstants, <2>7 DEF PrepareForSwapIn, Locked, Goto, flags,
       table, disk, batch, Types, ActivePcs, IdlePcs
  <2>8. ASSUME NEW k \in Keys, PrepareRemoveEntry(t, k)
        PROVE  Types'
    BY ManagerConstants, <2>8 DEF PrepareRemoveEntry, Locked, Goto, flags,
       disk, batch, Types, ActivePcs, IdlePcs
  <2>9. CASE WaitForActiveOps(t)
    BY ManagerConstants, <2>9 DEF WaitForActiveOps, Locked, Goto, flags,
       table, disk, batch, locals, Types, ActivePcs, IdlePcs
  <2>10. CASE WaitForActiveOpsTimeout(t)
    BY ManagerConstants, <2>10 DEF WaitForActiveOpsTimeout, Locked, Goto,
       flags, table, disk, batch, locals, Types, ActivePcs, IdlePcs
  <2>11. CASE DestroyFinish(t)
    <3>1. /\ status' \in [Keys -> {"absent", "active", "removing"}]
          /\ readCount' \in [Keys -> Int]
          /\ dataSize' \in [Keys -> Nat]
      BY <2>11 DEF DestroyFinish, Erased, Types
    <3>2. /\ file' \in [Keys -> {"none", "tmp", "swap"}]
          /\ fileSize' \in [Keys -> Nat]
      BY <2>11 DEF DestroyFinish, Types
    <3>3. pc' \in [Threads -> ActivePcs \cup IdlePcs]
      BY <2>11 DEF DestroyFinish, Locked, Goto, Types, IdlePcs
    <3>4. session' \in [dir: BOOLEAN, lock: BOOLEAN]
      BY <2>11 DEF DestroyFinish
    <3>. QED
      BY <2>11, <3>1, <3>2, <3>3, <3>4
      DEF DestroyFinish, Types, batch, locals
  <2>12. CASE DestroyBusy(t)
    BY ManagerConstants, <2>12 DEF DestroyBusy, Locked, Goto, table, disk,
       batch, locals, Types, ActivePcs, IdlePcs
  <2>13. CASE WriteTmp(t)
    BY ManagerConstants, <2>13 DEF WriteTmp, Goto, flags, table, disk, batch,
       locals, Types, ActivePcs, IdlePcs
  <2>14. CASE RenameTmp(t)
    BY ManagerConstants, <2>14 DEF RenameTmp, Goto, flags, table, batch,
       locals, Types, ActivePcs, IdlePcs
  <2>15. CASE UndoTmp(t)
    BY ManagerConstants, <2>15 DEF UndoTmp, Goto, flags, table, disk, batch,
       locals, Types, Unlinked, ActivePcs, IdlePcs
  <2>16. CASE CommitSwapOutEntry(t)
    <3>1. status' \in [Keys -> {"absent", "active", "removing"}]
      BY <2>16 DEF CommitSwapOutEntry, Types
    <3>2. readCount' \in [Keys -> Int]
      BY <2>16, KeyHeld DEF CommitSwapOutEntry, Types, KeyHeld, Locked, Goto,
         WriterPcs
    <3>3. dataSize' \in [Keys -> Nat]
      BY <2>16 DEF CommitSwapOutEntry, Types
    <3>4. pc' \in [Threads -> ActivePcs \cup IdlePcs]
      BY <2>16 DEF CommitSwapOutEntry, Locked, Goto, Types, ActivePcs
    <3>. QED
      BY <2>16, <3>1, <3>2, <3>3, <3>4
      DEF CommitSwapOutEntry, Types, flags, disk, batch, locals
  <2>17. CASE LookupKeyForSwapIn(t)
    BY ManagerConstants, <2>17, SMTT(30) DEF LookupKeyForSwapIn, Locked, Goto,
       flags, disk, batch, Types, ActivePcs, IdlePcs, KeyHeld
  <2>18. CASE FinishSwapIn(t)
    BY ManagerConstants, <2>18 DEF FinishSwapIn, Locked, Goto, flags, disk,
       batch, locals, Types, ActivePcs, IdlePcs
  <2>19. CASE RemoveSwapFile(t)
    BY ManagerConstants, <2>19 DEF RemoveSwapFile, Goto, flags, table, disk,
       batch, locals, Types, Unlinked, ActivePcs, IdlePcs
  <2>20. CASE FinalizeRemoveEntry(t)
    BY ManagerConstants, <2>20 DEF FinalizeRemoveEntry, Locked, Goto, flags,
       disk, batch, locals, Types, Erased, ActivePcs, IdlePcs
  <2>21. CASE UnlinkNext(t)
    BY ManagerConstants, <2>21, SMTT(30) DEF UnlinkNext, Goto, flags, table,
       disk, Types, Unlinked, ActivePcs, IdlePcs
  <2>22. CASE FinalizeNext(t)
    BY ManagerConstants, <2>22 DEF FinalizeNext, Goto, flags, disk, Types,
       Erased, ActivePcs, IdlePcs
  <2>23. CASE FinalizeRemoveAll(t)
    BY ManagerConstants, <2>23 DEF FinalizeRemoveAll, Goto, table, disk,
       batch, locals, Types, ActivePcs, IdlePcs
  <2>24. CASE EndOperation(t)
    BY ManagerConstants, <2>24 DEF EndOperation, Locked, Goto, flags, table,
       disk, batch, Types, ActivePcs, IdlePcs
  <2>. QED
    BY MovesSteps, <1>2, <2>1, <2>2, <2>3, <2>4, <2>5, <2>6, <2>7, <2>8, <2>9,
       <2>10, <2>11, <2>12, <2>13, <2>14, <2>15, <2>16, <2>17, <2>18, <2>19,
       <2>20, <2>21, <2>22, <2>23, <2>24 DEF Step, Call, Progress
<1>. QED
  BY <1>1, <1>2 DEF Next

\* The accountant's state keeps its type.
LEMMA ControlTypesNext ==
    ASSUME Types, ControlTypes, KeyHeld, [Next]_vars
    PROVE  ControlTypes'
<1>1. CASE UNCHANGED vars
  BY <1>1 DEF vars, flags, table, disk, batch, locals, ControlTypes
<1>2. ASSUME NEW t \in Threads, Step(t)
      PROVE  ControlTypes'
  <2>1. CASE \/ DestroyBegin(t) \/ GetStats(t)
             \/ CollectRemovableEntries(t)
             \/ (\E n \in Sizes : PrepareForSwapOut(t, n))
             \/ (\E k \in Keys : PrepareForSwapIn(t, k))
             \/ (\E k \in Keys : PrepareRemoveEntry(t, k))
             \/ WaitForActiveOps(t) \/ WaitForActiveOpsTimeout(t)
             \/ DestroyBusy(t) \/ RefreshSkip(t) \/ WriteTmp(t)
             \/ RenameTmp(t) \/ UndoTmp(t) \/ SwapInMisaligned(t)
             \/ LookupKeyForSwapIn(t) \/ ExecuteSwapInRead(t)
             \/ FinishSwapIn(t) \/ FillStats(t) \/ RemoveSwapFile(t)
             \/ UnlinkNext(t) \/ LockForFinalize(t) \/ FinalizeRemoveAll(t)
             \/ EndOperation(t)
    BY <2>1 DEF DestroyBegin, GetStats, CollectRemovableEntries,
       PrepareForSwapOut, PrepareForSwapIn, PrepareRemoveEntry, WaitForActiveOps,
       WaitForActiveOpsTimeout, DestroyBusy, RefreshSkip, WriteTmp, RenameTmp,
       UndoTmp, SwapInMisaligned, LookupKeyForSwapIn, ExecuteSwapInRead,
       FinishSwapIn, FillStats, RemoveSwapFile, UnlinkNext, LockForFinalize,
       FinalizeRemoveAll, EndOperation, ControlTypes
  <2>2. CASE InitManager(t)
    BY <2>2, InitTypes, ManagerConstants DEF InitManager, ControlTypes,
       FreeSizeAnswers
  <2>3. CASE DestroyFinish(t)
    BY <2>3, RemoveTypes DEF DestroyFinish, ControlTypes
  <2>4. CASE RefreshBegin(t)
    BY <2>4, FieldTypes DEF RefreshBegin, ControlTypes
  <2>5. CASE GetFreeSize(t)
    <3>1. refresh.base \in Nat /\ \A s \in FreeSizeAnswers : s \in Nat
      BY ManagerConstants DEF ControlTypes, FreeSizeAnswers
    <3>2. ctl' = ctl
      BY <2>5 DEF GetFreeSize
    <3>3. CASE UNCHANGED refresh
      BY <3>2, <3>3 DEF ControlTypes
    <3>4. CASE \E s \in FreeSizeAnswers :
                 refresh' = [holder |-> t, base |-> refresh.base,
                             answered |-> TRUE, space |-> s]
      BY <3>1, <3>2, <3>4 DEF ControlTypes
    <3>. QED
      BY <3>3, <3>4, <2>5 DEF GetFreeSize
  <2>6. CASE RefreshEnd(t)
    BY <2>6, RefreshTypes DEF RefreshEnd, ControlTypes, NotRefreshing
  <2>7. CASE ReserveSwapOut(t)
    BY <2>7, ReserveTypes DEF ReserveSwapOut, ControlTypes, Types
  <2>8. CASE CancelSwapOut(t)
    BY <2>8, ReserveTypes DEF CancelSwapOut, ControlTypes, Types
  <2>9. CASE CommitSwapOutEntry(t)
    BY <2>9, CommitTypes DEF CommitSwapOutEntry, ControlTypes, Types
  <2>10. CASE FinalizeRemoveEntry(t)
    <3>1. dataSize[opKey[t]] \in Nat
      BY <2>10 DEF FinalizeRemoveEntry, Locked, Goto, KeyHeld, DeleterPcs,
         Types
    <3>. QED
      BY <3>1, <2>10, RemoveTypes DEF FinalizeRemoveEntry, ControlTypes
  <2>11. CASE FinalizeNext(t)
    <3>1. \A j \in gone[t] : dataSize[j] \in Nat
      BY DEF Types
    <3>2. \A j \in gone[t] : OnEntryRemoved(ctl, dataSize[j]) \in ControlState
      BY <3>1, RemoveTypes DEF ControlTypes
    <3>3. refresh' = refresh
      BY <2>11 DEF FinalizeNext
    <3>4. ctl' = ctl \/ \E j \in gone[t] : ctl' = OnEntryRemoved(ctl, dataSize[j])
      BY <2>11 DEF FinalizeNext
    <3>. QED
      BY <3>2, <3>3, <3>4 DEF ControlTypes
  <2>. QED
    BY <1>2, <2>1, <2>2, <2>3, <2>4, <2>5, <2>6, <2>7, <2>8, <2>9, <2>10,
       <2>11 DEF Step, Call, Progress
<1>. QED
  BY <1>1, <1>2 DEF Next

\* activeOps_ stays the number of calls under way.
LEMMA OpsNext ==
    ASSUME Types, OpsCounted, [Next]_vars
    PROVE  OpsCounted'
<1>1. CASE UNCHANGED vars
  BY <1>1 DEF vars, flags, table, disk, batch, locals, OpsCounted, Active
<1>2. ASSUME NEW t \in Threads, Step(t)
      PROVE  OpsCounted'
  <2>1. CASE Moves(t)
    BY ActiveStep, <2>1 DEF Moves, OpsCounted, ActivePcs, IdlePcs,
       AfterRefresh, Arrows
  <2>2. CASE InitManager(t)
    BY <2>2 DEF InitManager, OpsCounted, Active
  <2>3. CASE DestroyBegin(t)
    BY ActiveStep, <2>3 DEF DestroyBegin, Locked, OpsCounted, ActivePcs,
       IdlePcs
  <2>4. CASE GetStats(t)
    BY ActiveStep, <2>4 DEF GetStats, Locked, OpsCounted, ActivePcs, IdlePcs
  <2>5. CASE CollectRemovableEntries(t)
    BY ActiveStep, <2>5 DEF CollectRemovableEntries, Locked, OpsCounted,
       ActivePcs, IdlePcs
  <2>6. ASSUME NEW n \in Sizes, PrepareForSwapOut(t, n)
        PROVE  OpsCounted'
    BY ActiveStep, <2>6 DEF PrepareForSwapOut, Locked, OpsCounted, ActivePcs,
       IdlePcs
  <2>7. ASSUME NEW k \in Keys, PrepareForSwapIn(t, k)
        PROVE  OpsCounted'
    BY ActiveStep, <2>7 DEF PrepareForSwapIn, Locked, OpsCounted, ActivePcs,
       IdlePcs
  <2>8. ASSUME NEW k \in Keys, PrepareRemoveEntry(t, k)
        PROVE  OpsCounted'
    BY ActiveStep, <2>8 DEF PrepareRemoveEntry, Locked, OpsCounted, ActivePcs,
       IdlePcs
  <2>9. CASE WaitForActiveOps(t)
    BY ActiveStep, <2>9 DEF WaitForActiveOps, Locked, OpsCounted, ActivePcs,
       IdlePcs
  <2>10. CASE WaitForActiveOpsTimeout(t)
    BY ActiveStep, <2>10 DEF WaitForActiveOpsTimeout, Locked, OpsCounted,
       ActivePcs, IdlePcs
  <2>11. CASE DestroyFinish(t)
    BY ActiveStep, <2>11 DEF DestroyFinish, Locked, OpsCounted, ActivePcs,
       IdlePcs
  <2>12. CASE DestroyBusy(t)
    BY ActiveStep, <2>12 DEF DestroyBusy, Locked, OpsCounted, ActivePcs,
       IdlePcs
  <2>13. CASE WriteTmp(t)
    BY ActiveStep, <2>13 DEF WriteTmp, OpsCounted, ActivePcs, IdlePcs
  <2>14. CASE RenameTmp(t)
    BY ActiveStep, <2>14 DEF RenameTmp, OpsCounted, ActivePcs, IdlePcs
  <2>15. CASE UndoTmp(t)
    BY ActiveStep, <2>15 DEF UndoTmp, OpsCounted, ActivePcs, IdlePcs
  <2>16. CASE CommitSwapOutEntry(t)
    BY ActiveStep, <2>16 DEF CommitSwapOutEntry, Locked, OpsCounted,
       ActivePcs, IdlePcs
  <2>17. CASE LookupKeyForSwapIn(t)
    BY ActiveStep, <2>17 DEF LookupKeyForSwapIn, Locked, OpsCounted,
       ActivePcs, IdlePcs
  <2>18. CASE FinishSwapIn(t)
    BY ActiveStep, <2>18 DEF FinishSwapIn, Locked, OpsCounted, ActivePcs,
       IdlePcs
  <2>19. CASE RemoveSwapFile(t)
    BY ActiveStep, <2>19 DEF RemoveSwapFile, OpsCounted, ActivePcs, IdlePcs
  <2>20. CASE FinalizeRemoveEntry(t)
    BY ActiveStep, <2>20 DEF FinalizeRemoveEntry, Locked, OpsCounted,
       ActivePcs, IdlePcs
  <2>21. CASE UnlinkNext(t)
    BY ActiveStep, <2>21 DEF UnlinkNext, OpsCounted, ActivePcs, IdlePcs
  <2>22. CASE FinalizeNext(t)
    BY ActiveStep, <2>22 DEF FinalizeNext, OpsCounted, ActivePcs, IdlePcs
  <2>23. CASE FinalizeRemoveAll(t)
    BY ActiveStep, <2>23 DEF FinalizeRemoveAll, OpsCounted, ActivePcs, IdlePcs
  <2>24. CASE EndOperation(t)
    BY ActiveStep, <2>24 DEF EndOperation, Locked, OpsCounted, ActivePcs,
       IdlePcs
  <2>. QED
    BY MovesSteps, <1>2, <2>1, <2>2, <2>3, <2>4, <2>5, <2>6, <2>7, <2>8, <2>9,
       <2>10, <2>11, <2>12, <2>13, <2>14, <2>15, <2>16, <2>17, <2>18, <2>19,
       <2>20, <2>21, <2>22, <2>23, <2>24 DEF Step, Call, Progress
<1>. QED
  BY <1>1, <1>2 DEF Next

\* Every key's readCount stays the number of its readers.
LEMMA ReadsNext ==
    ASSUME Types, ReadsCounted, KeyHeld, WriterOwnsKey,
           ReadersHaveEntry, DeleterIsAlone, BatchIsAlone, DoorShut,
           [Next]_vars
    PROVE  ReadsCounted'
<1>1. CASE UNCHANGED vars
  BY <1>1 DEF vars, flags, table, disk, batch, locals, ReadsCounted, Readers
<1>2. ASSUME NEW t \in Threads, Step(t)
      PROVE  ReadsCounted'
  <2>1. CASE \/ DestroyBegin(t) \/ GetStats(t)
             \/ CollectRemovableEntries(t)
             \/ (\E n \in Sizes : PrepareForSwapOut(t, n))
             \/ (\E k \in Keys : PrepareForSwapIn(t, k))
             \/ WaitForActiveOps(t) \/ WaitForActiveOpsTimeout(t)
             \/ DestroyBusy(t) \/ WriteTmp(t) \/ RenameTmp(t) \/ UndoTmp(t)
             \/ RemoveSwapFile(t) \/ FinalizeRemoveAll(t)
             \/ EndOperation(t)
    <3>1. readCount' = readCount /\ \A u \in Threads \ {t} : opKey'[u] = opKey[u]
      BY <2>1 DEF DestroyBegin, GetStats, CollectRemovableEntries,
         PrepareForSwapOut, PrepareForSwapIn, WaitForActiveOps,
         WaitForActiveOpsTimeout, DestroyBusy, WriteTmp, RenameTmp, UndoTmp,
         RemoveSwapFile, FinalizeRemoveAll, EndOperation, Types, table, locals
    <3>2. Goto(t, pc[t], pc'[t]) /\ {pc[t], pc'[t]} \cap ReaderPcs = {}
      BY <2>1 DEF DestroyBegin, GetStats, CollectRemovableEntries,
         PrepareForSwapOut, PrepareForSwapIn, WaitForActiveOps,
         WaitForActiveOpsTimeout, DestroyBusy, WriteTmp, RenameTmp, UndoTmp,
         RemoveSwapFile, FinalizeRemoveAll, EndOperation, Locked, Goto,
         ReaderPcs, Types
    <3>3. \A j \in Keys : Readers(j)' = Readers(j)
      BY <3>1, <3>2, ReadersKept
    <3>. QED
      BY <3>1, <3>3 DEF ReadsCounted
  <2>2. CASE Moves(t)
    <3>1. readCount' = readCount /\ opKey' = opKey
      BY <2>2 DEF Moves, table, locals
    <3>2. PICK from, to : Arrows(t, from, to) /\ Goto(t, from, to)
      BY <2>2 DEF Moves
    <3>3. from \in ReaderPcs <=> to \in ReaderPcs
      BY <3>2 DEF Arrows, AfterRefresh, ReaderPcs
    <3>. QED
      BY <3>1, <3>2, <3>3, ReadersStep DEF ReadsCounted
  <2>3. CASE InitManager(t)
    BY <2>3 DEF InitManager, ReadsCounted, Readers, table, locals
  <2>4. ASSUME NEW k \in Keys, PrepareRemoveEntry(t, k)
        PROVE  ReadsCounted'
    <3>1. /\ readCount' = readCount /\ \A u \in Threads \ {t} : opKey'[u] = opKey[u]
          /\ Goto(t, "idle", "unlink") \/ Goto(t, "idle", "idle")
      BY <2>4 DEF PrepareRemoveEntry, Locked, Types
    <3>2. \A j \in Keys : Readers(j)' = Readers(j)
      BY <3>1, ReadersKept DEF ReaderPcs
    <3>. QED
      BY <3>1, <3>2 DEF ReadsCounted
  <2>5. CASE DestroyFinish(t)
    <3>1. /\ opKey' = opKey /\ \A j \in Keys : readCount'[j] = 0
      BY <2>5 DEF DestroyFinish, Erased, locals
    <3>2. \A u \in Threads : pc'[u] \notin ReaderPcs
      BY <2>5 DEF DestroyFinish, Locked, Goto, DoorShut, Active, ActivePcs,
         ReaderPcs, Types
    <3>3. \A j \in Keys : Readers(j)' = {}
      BY <3>2 DEF Readers, ReaderPcs
    <3>. QED
      BY <3>1, <3>3, FS_EmptySet DEF ReadsCounted
  <2>6. CASE CommitSwapOutEntry(t)
    <3>. DEFINE w == opKey[t]
    <3>1. w \in Keys /\ \A u \in Threads : ~(pc[u] \in ReaderPcs /\ opKey[u] = w)
      BY <2>6, NoKeyIsNone DEF CommitSwapOutEntry, Locked, Goto, KeyHeld,
         WriterOwnsKey, ReadersHaveEntry, WriterPcs, SwapOutPcs
    <3>2. \A j \in Keys : readCount'[j] = IF j = w THEN 0 ELSE readCount[j]
      BY <2>6 DEF CommitSwapOutEntry, Types
    <3>3. \A j \in Keys : Readers(j)' = Readers(j)
      BY <2>6, ReadersKept DEF CommitSwapOutEntry, Locked, ReaderPcs, locals
    <3>4. readCount[w] = 0
      BY <3>1, ReaderCounts
    <3>. QED
      BY <3>2, <3>3, <3>4 DEF ReadsCounted
  <2>7. CASE LookupKeyForSwapIn(t)
    <3>1. /\ opKey' = opKey /\ opKey[t] \in Keys
      BY <2>7 DEF LookupKeyForSwapIn, KeyHeld
    <3>2. CASE status[opKey[t]] = "active"
      <4>1. /\ \A j \in Keys :
                readCount'[j] = IF j = opKey[t] THEN readCount[j] + 1 ELSE readCount[j]
            /\ Goto(t, "lookup", "read")
        BY <3>2, <2>7 DEF LookupKeyForSwapIn, Locked, Types
      <4>. QED
        BY <3>1, <4>1, ReadersStep DEF ReadsCounted, ReaderPcs
    <3>3. CASE status[opKey[t]] # "active"
      <4>1. readCount' = readCount /\ Goto(t, "lookup", "end")
        BY <3>3, <2>7 DEF LookupKeyForSwapIn, Locked, Types
      <4>. QED
        BY <3>1, <4>1, ReadersStep DEF ReadsCounted, ReaderPcs
    <3>. QED
      BY <3>2, <3>3
  <2>8. CASE FinishSwapIn(t)
    <3>1. /\ opKey' = opKey /\ opKey[t] \in Keys /\ status[opKey[t]] # "absent"
      BY <2>8 DEF FinishSwapIn, KeyHeld, ReadersHaveEntry, ReaderPcs, locals
    <3>2. /\ \A j \in Keys :
               readCount'[j] = IF j = opKey[t] THEN readCount[j] - 1 ELSE readCount[j]
          /\ Goto(t, "finish", "unlink") \/ Goto(t, "finish", "end")
      BY <3>1, <2>8 DEF FinishSwapIn, Locked, Types
    <3>. QED
      BY <3>1, <3>2, ReadersStep DEF ReadsCounted, ReaderPcs
  <2>9. CASE FinalizeRemoveEntry(t)
    <3>. DEFINE w == opKey[t]
    <3>1. /\ w \in Keys /\ \A u \in Threads : ~(pc[u] \in ReaderPcs /\ opKey[u] = w)
      BY <2>9 DEF FinalizeRemoveEntry, Locked, Goto, KeyHeld, DeleterIsAlone,
         DeleterPcs, ReaderPcs
    <3>2. \A j \in Keys : readCount'[j] = readCount[j] \/ (j = w /\ readCount'[j] = 0)
      BY <3>1, <2>9 DEF FinalizeRemoveEntry, Erased, Types
    <3>3. \A j \in Keys : Readers(j)' = Readers(j)
      BY <2>9, ReadersKept DEF FinalizeRemoveEntry, Locked, ReaderPcs, locals
    <3>4. readCount[w] = 0
      BY <3>1, ReaderCounts
    <3>. QED
      BY <3>2, <3>3, <3>4 DEF ReadsCounted
  <2>10. CASE UnlinkNext(t)
    <3>1. /\ readCount' = readCount /\ opKey' = opKey
          /\ Goto(t, "unlinkAll", "lockAll") \/ Goto(t, "unlinkAll", "unlinkAll")
      BY <2>10 DEF UnlinkNext, table
    <3>. QED
      BY <3>1, ReadersStep DEF ReadsCounted, ReaderPcs
  <2>11. CASE FinalizeNext(t)
    <3>1. \A u \in Threads : pc[u] \notin ReaderPcs
      BY <2>11 DEF FinalizeNext, Goto, BatchIsAlone, BatchPcs, ReaderPcs
    <3>2. \A j \in Keys : readCount[j] = 0
      BY <3>1, ReaderCounts
    <3>3. \A j \in Keys : readCount'[j] = 0
      BY <3>2, <2>11 DEF FinalizeNext, Erased, Types
    <3>4. \A j \in Keys : Readers(j)' = Readers(j)
      BY <2>11, ReadersKept DEF FinalizeNext, ReaderPcs
    <3>. QED
      BY <3>2, <3>3, <3>4 DEF ReadsCounted
  <2>. QED
    BY MovesSteps, <1>2, <2>1, <2>2, <2>3, <2>4, <2>5, <2>6, <2>7, <2>8, <2>9,
       <2>10, <2>11 DEF Step, Call, Progress
<1>. QED
  BY <1>1, <1>2 DEF Next

\* A thread has its key whenever it works on one.
LEMMA KeyHeldNext ==
    ASSUME Types, KeyHeld, [Next]_vars
    PROVE  KeyHeld'
<1>1. CASE UNCHANGED vars
  BY <1>1 DEF vars, flags, table, disk, batch, locals, KeyHeld, ActivePcs,
     IdlePcs, ReaderPcs, DeleterPcs, BatchPcs, WriterPcs, SwapOutPcs
<1>2. ASSUME NEW t \in Threads, Step(t)
      PROVE  KeyHeld'
  <2>1. CASE Moves(t)
    BY <2>1 DEF Moves, Goto, flags, table, disk, batch, locals, AfterRefresh,
       Arrows, Types, ActivePcs, IdlePcs, ReaderPcs, DeleterPcs, WriterPcs,
       KeyHeld, Keys, NoKey
  <2>2. CASE InitManager(t)
    BY <2>2 DEF InitManager, table, disk, batch, locals, Types, ActivePcs,
       IdlePcs, ReaderPcs, DeleterPcs, WriterPcs, KeyHeld, Keys, NoKey
  <2>3. CASE DestroyBegin(t)
    BY <2>3 DEF DestroyBegin, Locked, Goto, table, disk, batch, locals, Types,
       ActivePcs, IdlePcs, ReaderPcs, DeleterPcs, WriterPcs, KeyHeld, Keys, NoKey
  <2>4. CASE GetStats(t)
    BY <2>4 DEF GetStats, Locked, Goto, flags, table, disk, batch, locals,
       Types, ActivePcs, IdlePcs, ReaderPcs, DeleterPcs, WriterPcs, KeyHeld,
       Keys, NoKey
  <2>5. CASE CollectRemovableEntries(t)
    BY <2>5 DEF CollectRemovableEntries, Locked, Goto, disk, Types, ActivePcs,
       IdlePcs, ReaderPcs, DeleterPcs, WriterPcs, KeyHeld, Keys, NoKey
  <2>6. ASSUME NEW n \in Sizes, PrepareForSwapOut(t, n)
        PROVE  KeyHeld'
    BY <2>6 DEF PrepareForSwapOut, Locked, Goto, flags, disk, batch, Types,
       ActivePcs, IdlePcs, ReaderPcs, DeleterPcs, WriterPcs, KeyHeld, Keys, NoKey
  <2>7. ASSUME NEW k \in Keys, PrepareForSwapIn(t, k)
        PROVE  KeyHeld'
    BY <2>7 DEF PrepareForSwapIn, Locked, Goto, flags, table, disk, batch,
       Types, ActivePcs, IdlePcs, ReaderPcs, DeleterPcs, WriterPcs, KeyHeld,
       Keys, NoKey
  <2>8. ASSUME NEW k \in Keys, PrepareRemoveEntry(t, k)
        PROVE  KeyHeld'
    BY <2>8 DEF PrepareRemoveEntry, Locked, Goto, flags, disk, batch, Types,
       ActivePcs, IdlePcs, ReaderPcs, DeleterPcs, WriterPcs, KeyHeld, Keys, NoKey
  <2>9. CASE WaitForActiveOps(t)
    BY <2>9 DEF WaitForActiveOps, Locked, Goto, flags, table, disk, batch,
       locals, Types, ActivePcs, IdlePcs, ReaderPcs, DeleterPcs, WriterPcs,
       KeyHeld, Keys, NoKey
  <2>10. CASE WaitForActiveOpsTimeout(t)
    BY <2>10 DEF WaitForActiveOpsTimeout, Locked, Goto, flags, table, disk,
       batch, locals, Types, ActivePcs, IdlePcs, ReaderPcs, DeleterPcs,
       WriterPcs, KeyHeld, Keys, NoKey
  <2>11. CASE DestroyFinish(t)
    BY <2>11 DEF DestroyFinish, Locked, Goto, batch, locals, Erased, Types,
       ActivePcs, IdlePcs, ReaderPcs, DeleterPcs, WriterPcs, KeyHeld, Keys, NoKey
  <2>12. CASE DestroyBusy(t)
    BY <2>12 DEF DestroyBusy, Locked, Goto, table, disk, batch, locals, Types,
       ActivePcs, IdlePcs, ReaderPcs, DeleterPcs, WriterPcs, KeyHeld, Keys, NoKey
  <2>13. CASE WriteTmp(t)
    BY <2>13 DEF WriteTmp, Goto, flags, table, disk, batch, locals, Types,
       ActivePcs, IdlePcs, ReaderPcs, DeleterPcs, WriterPcs, KeyHeld, Keys, NoKey
  <2>14. CASE RenameTmp(t)
    BY <2>14 DEF RenameTmp, Goto, flags, table, batch, locals, Types,
       ActivePcs, IdlePcs, ReaderPcs, DeleterPcs, WriterPcs, KeyHeld, Keys, NoKey
  <2>15. CASE UndoTmp(t)
    BY <2>15 DEF UndoTmp, Goto, flags, table, disk, batch, locals, Unlinked,
       Types, ActivePcs, IdlePcs, ReaderPcs, DeleterPcs, WriterPcs, KeyHeld,
       Keys, NoKey
  <2>16. CASE CommitSwapOutEntry(t)
    BY <2>16 DEF CommitSwapOutEntry, Locked, Goto, flags, disk, batch, locals,
       Types, ActivePcs, IdlePcs, ReaderPcs, DeleterPcs, WriterPcs, KeyHeld,
       Keys, NoKey
  <2>17. CASE LookupKeyForSwapIn(t)
    BY <2>17 DEF LookupKeyForSwapIn, Locked, Goto, flags, disk, batch, Types,
       ActivePcs, IdlePcs, ReaderPcs, DeleterPcs, WriterPcs, KeyHeld, Keys, NoKey
  <2>18. CASE FinishSwapIn(t)
    BY <2>18 DEF FinishSwapIn, Locked, Goto, flags, disk, batch, locals,
       Types, ActivePcs, IdlePcs, ReaderPcs, DeleterPcs, WriterPcs, KeyHeld,
       Keys, NoKey
  <2>19. CASE RemoveSwapFile(t)
    BY <2>19 DEF RemoveSwapFile, Goto, flags, table, disk, batch, locals,
       Unlinked, Types, ActivePcs, IdlePcs, ReaderPcs, DeleterPcs, WriterPcs,
       KeyHeld, Keys, NoKey
  <2>20. CASE FinalizeRemoveEntry(t)
    BY <2>20 DEF FinalizeRemoveEntry, Locked, Goto, flags, disk, batch,
       locals, Erased, Types, ActivePcs, IdlePcs, ReaderPcs, DeleterPcs,
       WriterPcs, KeyHeld, Keys, NoKey
  <2>21. CASE UnlinkNext(t)
    BY <2>21 DEF UnlinkNext, Goto, flags, table, disk, Unlinked, Types,
       ActivePcs, IdlePcs, ReaderPcs, DeleterPcs, WriterPcs, KeyHeld, Keys, NoKey
  <2>22. CASE FinalizeNext(t)
    BY <2>22 DEF FinalizeNext, Goto, flags, disk, Erased, Types, ActivePcs,
       IdlePcs, ReaderPcs, DeleterPcs, WriterPcs, KeyHeld, Keys, NoKey
  <2>23. CASE FinalizeRemoveAll(t)
    BY <2>23 DEF FinalizeRemoveAll, Goto, table, disk, batch, locals, Types,
       ActivePcs, IdlePcs, ReaderPcs, DeleterPcs, WriterPcs, KeyHeld, Keys, NoKey
  <2>24. CASE EndOperation(t)
    BY <2>24 DEF EndOperation, Locked, Goto, flags, table, disk, batch, Types,
       ActivePcs, IdlePcs, ReaderPcs, DeleterPcs, WriterPcs, KeyHeld, Keys, NoKey
  <2>. QED
    BY MovesSteps, <1>2, <2>1, <2>2, <2>3, <2>4, <2>5, <2>6, <2>7, <2>8, <2>9,
       <2>10, <2>11, <2>12, <2>13, <2>14, <2>15, <2>16, <2>17, <2>18, <2>19,
       <2>20, <2>21, <2>22, <2>23, <2>24 DEF Step, Call, Progress
<1>. QED
  BY <1>1, <1>2 DEF Next

\* A key is handed out once, and has no entry before its SwapOut commits.
LEMMA WriterOwnsKeyNext ==
    ASSUME Types, KeyHeld, WriterOwnsKey, FreshKeysAbsent, BatchIsAlone,
           [Next]_vars
    PROVE  WriterOwnsKey' /\ FreshKeysAbsent'
<1>1. CASE UNCHANGED vars
  BY <1>1 DEF vars, flags, table, disk, batch, locals, WriterOwnsKey,
     FreshKeysAbsent, ActivePcs, IdlePcs, ReaderPcs, DeleterPcs, BatchPcs,
     WriterPcs, SwapOutPcs
<1>2. ASSUME NEW t \in Threads, Step(t)
      PROVE  WriterOwnsKey' /\ FreshKeysAbsent'
  <2>1. CASE Moves(t)
    BY <2>1 DEF Moves, Goto, flags, table, disk, batch, locals, AfterRefresh,
       Arrows, Types, ActivePcs, IdlePcs, ReaderPcs, DeleterPcs, BatchPcs,
       WriterPcs, SwapOutPcs, WriterOwnsKey, FreshKeysAbsent, KeyHeld,
       BatchIsAlone, Keys, NoKey
  <2>2. CASE InitManager(t)
    BY <2>2 DEF InitManager, table, disk, batch, locals, Types, ActivePcs,
       IdlePcs, ReaderPcs, DeleterPcs, BatchPcs, WriterPcs, SwapOutPcs,
       WriterOwnsKey, FreshKeysAbsent, KeyHeld, BatchIsAlone, Keys, NoKey
  <2>3. CASE DestroyBegin(t)
    BY <2>3 DEF DestroyBegin, Locked, Goto, table, disk, batch, locals, Types,
       ActivePcs, IdlePcs, ReaderPcs, DeleterPcs, BatchPcs, WriterPcs,
       SwapOutPcs, WriterOwnsKey, FreshKeysAbsent, KeyHeld, BatchIsAlone, Keys,
       NoKey
  <2>4. CASE GetStats(t)
    BY <2>4 DEF GetStats, Locked, Goto, flags, table, disk, batch, locals,
       Types, ActivePcs, IdlePcs, ReaderPcs, DeleterPcs, BatchPcs, WriterPcs,
       SwapOutPcs, WriterOwnsKey, FreshKeysAbsent, KeyHeld, BatchIsAlone, Keys,
       NoKey
  <2>5. CASE CollectRemovableEntries(t)
    BY <2>5 DEF CollectRemovableEntries, Locked, Goto, disk, Types, ActivePcs,
       IdlePcs, ReaderPcs, DeleterPcs, BatchPcs, WriterPcs, SwapOutPcs,
       WriterOwnsKey, FreshKeysAbsent, KeyHeld, BatchIsAlone, Keys, NoKey
  <2>6. ASSUME NEW n \in Sizes, PrepareForSwapOut(t, n)
        PROVE  WriterOwnsKey' /\ FreshKeysAbsent'
    BY <2>6 DEF PrepareForSwapOut, Locked, Goto, flags, disk, batch, Types,
       ActivePcs, IdlePcs, ReaderPcs, DeleterPcs, BatchPcs, WriterPcs,
       SwapOutPcs, WriterOwnsKey, FreshKeysAbsent, KeyHeld, BatchIsAlone, Keys,
       NoKey
  <2>7. ASSUME NEW k \in Keys, PrepareForSwapIn(t, k)
        PROVE  WriterOwnsKey' /\ FreshKeysAbsent'
    BY <2>7 DEF PrepareForSwapIn, Locked, Goto, flags, table, disk, batch,
       Types, ActivePcs, IdlePcs, ReaderPcs, DeleterPcs, BatchPcs, WriterPcs,
       SwapOutPcs, WriterOwnsKey, FreshKeysAbsent, KeyHeld, BatchIsAlone, Keys,
       NoKey
  <2>8. ASSUME NEW k \in Keys, PrepareRemoveEntry(t, k)
        PROVE  WriterOwnsKey' /\ FreshKeysAbsent'
    <3>1. CASE readCount[k] = 0
      BY <3>1, <2>8, SMTT(30) DEF PrepareRemoveEntry, Locked, Goto, flags,
         disk, batch, Types, ActivePcs, IdlePcs, ReaderPcs, DeleterPcs, BatchPcs,
         WriterPcs, SwapOutPcs, WriterOwnsKey, FreshKeysAbsent, KeyHeld,
         BatchIsAlone, NoKey
    <3>2. CASE readCount[k] # 0
      BY <3>2, <2>8, SMTT(30) DEF PrepareRemoveEntry, Locked, Goto, flags,
         disk, batch, Types, ActivePcs, IdlePcs, ReaderPcs, DeleterPcs, BatchPcs,
         WriterPcs, SwapOutPcs, WriterOwnsKey, FreshKeysAbsent, KeyHeld,
         BatchIsAlone, NoKey
    <3>. QED
      BY <3>1, <3>2
  <2>9. CASE WaitForActiveOps(t)
    BY <2>9 DEF WaitForActiveOps, Locked, Goto, flags, table, disk, batch,
       locals, Types, ActivePcs, IdlePcs, ReaderPcs, DeleterPcs, BatchPcs,
       WriterPcs, SwapOutPcs, WriterOwnsKey, FreshKeysAbsent, KeyHeld,
       BatchIsAlone, Keys, NoKey
  <2>10. CASE WaitForActiveOpsTimeout(t)
    BY <2>10 DEF WaitForActiveOpsTimeout, Locked, Goto, flags, table, disk,
       batch, locals, Types, ActivePcs, IdlePcs, ReaderPcs, DeleterPcs, BatchPcs,
       WriterPcs, SwapOutPcs, WriterOwnsKey, FreshKeysAbsent, KeyHeld,
       BatchIsAlone, Keys, NoKey
  <2>11. CASE DestroyFinish(t)
    BY <2>11 DEF DestroyFinish, Locked, Goto, batch, locals, Erased, Types,
       ActivePcs, IdlePcs, ReaderPcs, DeleterPcs, BatchPcs, WriterPcs,
       SwapOutPcs, WriterOwnsKey, FreshKeysAbsent, KeyHeld, BatchIsAlone, Keys,
       NoKey
  <2>12. CASE DestroyBusy(t)
    BY <2>12 DEF DestroyBusy, Locked, Goto, table, disk, batch, locals, Types,
       ActivePcs, IdlePcs, ReaderPcs, DeleterPcs, BatchPcs, WriterPcs,
       SwapOutPcs, WriterOwnsKey, FreshKeysAbsent, KeyHeld, BatchIsAlone, Keys,
       NoKey
  <2>13. CASE WriteTmp(t)
    BY <2>13 DEF WriteTmp, Goto, flags, table, disk, batch, locals, Types,
       ActivePcs, IdlePcs, ReaderPcs, DeleterPcs, BatchPcs, WriterPcs,
       SwapOutPcs, WriterOwnsKey, FreshKeysAbsent, KeyHeld, BatchIsAlone, Keys,
       NoKey
  <2>14. CASE RenameTmp(t)
    BY <2>14 DEF RenameTmp, Goto, flags, table, batch, locals, Types,
       ActivePcs, IdlePcs, ReaderPcs, DeleterPcs, BatchPcs, WriterPcs,
       SwapOutPcs, WriterOwnsKey, FreshKeysAbsent, KeyHeld, BatchIsAlone, Keys,
       NoKey
  <2>15. CASE UndoTmp(t)
    BY <2>15 DEF UndoTmp, Goto, flags, table, disk, batch, locals, Unlinked,
       Types, ActivePcs, IdlePcs, ReaderPcs, DeleterPcs, BatchPcs, WriterPcs,
       SwapOutPcs, WriterOwnsKey, FreshKeysAbsent, KeyHeld, BatchIsAlone, Keys,
       NoKey
  <2>16. CASE CommitSwapOutEntry(t)
    <3>. DEFINE w == opKey[t]
    <3>1. /\ w \in Keys /\ w # NoKey /\ w < nextKeyId
          /\ \A u \in Threads \ {t} : pc[u] \in SwapOutPcs => opKey[u] # w
      BY <2>16 DEF CommitSwapOutEntry, Locked, Goto, KeyHeld, WriterOwnsKey,
         WriterPcs, SwapOutPcs, Keys, NoKey
    <3>2. /\ nextKeyId' = nextKeyId /\ opKey' = opKey
          /\ \A u \in Threads : pc'[u] = IF u = t THEN "end" ELSE pc[u]
          /\ \A j \in Keys : status'[j] = IF j = w THEN "active" ELSE status[j]
      BY <2>16 DEF CommitSwapOutEntry, Locked, Goto, locals, Types
    <3>3. WriterOwnsKey'
      BY <3>1, <3>2 DEF WriterOwnsKey, SwapOutPcs, WriterPcs, Types
    <3>4. FreshKeysAbsent'
      BY <3>1, <3>2 DEF FreshKeysAbsent, Keys, Types
    <3>. QED
      BY <3>3, <3>4
  <2>17. CASE LookupKeyForSwapIn(t)
    BY <2>17 DEF LookupKeyForSwapIn, Locked, Goto, flags, disk, batch, Types,
       ActivePcs, IdlePcs, ReaderPcs, DeleterPcs, BatchPcs, WriterPcs,
       SwapOutPcs, WriterOwnsKey, FreshKeysAbsent, KeyHeld, BatchIsAlone, Keys,
       NoKey
  <2>18. CASE FinishSwapIn(t)
    BY <2>18 DEF FinishSwapIn, Locked, Goto, flags, disk, batch, locals,
       Types, ActivePcs, IdlePcs, ReaderPcs, DeleterPcs, BatchPcs, WriterPcs,
       SwapOutPcs, WriterOwnsKey, FreshKeysAbsent, KeyHeld, BatchIsAlone, Keys,
       NoKey
  <2>19. CASE RemoveSwapFile(t)
    BY <2>19 DEF RemoveSwapFile, Goto, flags, table, disk, batch, locals,
       Unlinked, Types, ActivePcs, IdlePcs, ReaderPcs, DeleterPcs, BatchPcs,
       WriterPcs, SwapOutPcs, WriterOwnsKey, FreshKeysAbsent, KeyHeld,
       BatchIsAlone, Keys, NoKey
  <2>20. CASE FinalizeRemoveEntry(t)
    BY <2>20, SMTT(60) DEF FinalizeRemoveEntry, Locked, Goto, flags, disk,
       batch, locals, Erased, Types, ActivePcs, IdlePcs, ReaderPcs, DeleterPcs,
       BatchPcs, WriterPcs, SwapOutPcs, WriterOwnsKey, FreshKeysAbsent, KeyHeld,
       BatchIsAlone, NoKey
  <2>21. CASE UnlinkNext(t)
    BY <2>21 DEF UnlinkNext, Goto, flags, table, disk, Unlinked, Types,
       ActivePcs, IdlePcs, ReaderPcs, DeleterPcs, BatchPcs, WriterPcs,
       SwapOutPcs, WriterOwnsKey, FreshKeysAbsent, KeyHeld, BatchIsAlone, Keys,
       NoKey
  <2>22. CASE FinalizeNext(t)
    BY <2>22, SMTT(60) DEF FinalizeNext, Goto, flags, disk, Erased, Types,
       ActivePcs, IdlePcs, ReaderPcs, DeleterPcs, BatchPcs, WriterPcs,
       SwapOutPcs, WriterOwnsKey, FreshKeysAbsent, KeyHeld, BatchIsAlone, NoKey
  <2>23. CASE FinalizeRemoveAll(t)
    BY <2>23 DEF FinalizeRemoveAll, Goto, table, disk, batch, locals, Types,
       ActivePcs, IdlePcs, ReaderPcs, DeleterPcs, BatchPcs, WriterPcs,
       SwapOutPcs, WriterOwnsKey, FreshKeysAbsent, KeyHeld, BatchIsAlone, Keys,
       NoKey
  <2>24. CASE EndOperation(t)
    BY <2>24 DEF EndOperation, Locked, Goto, flags, table, disk, batch, Types,
       ActivePcs, IdlePcs, ReaderPcs, DeleterPcs, BatchPcs, WriterPcs,
       SwapOutPcs, WriterOwnsKey, FreshKeysAbsent, KeyHeld, BatchIsAlone, Keys,
       NoKey
  <2>. QED
    BY MovesSteps, <1>2, <2>1, <2>2, <2>3, <2>4, <2>5, <2>6, <2>7, <2>8, <2>9,
       <2>10, <2>11, <2>12, <2>13, <2>14, <2>15, <2>16, <2>17, <2>18, <2>19,
       <2>20, <2>21, <2>22, <2>23, <2>24 DEF Step, Call, Progress
<1>. QED
  BY <1>1, <1>2 DEF Next

\* An entry is not dropped under a reader.
LEMMA ReadersHaveEntryNext ==
    ASSUME Types, KeyHeld, ReadersHaveEntry, DeleterIsAlone,
           BatchIsAlone, DoorShut, [Next]_vars
    PROVE  ReadersHaveEntry'
<1>1. CASE UNCHANGED vars
  BY <1>1 DEF vars, flags, table, disk, batch, locals, ReadersHaveEntry,
     ActivePcs, IdlePcs, ReaderPcs, DeleterPcs, BatchPcs, WriterPcs, SwapOutPcs
<1>2. ASSUME NEW t \in Threads, Step(t)
      PROVE  ReadersHaveEntry'
  <2>1. CASE Moves(t)
    BY <2>1 DEF Moves, Goto, flags, table, disk, batch, locals, AfterRefresh,
       Arrows, Types, ActivePcs, IdlePcs, ReaderPcs, DeleterPcs, BatchPcs,
       WriterPcs, SwapOutPcs, ReadersHaveEntry, KeyHeld, DeleterIsAlone,
       BatchIsAlone, DoorShut, Active
  <2>2. CASE InitManager(t)
    BY <2>2 DEF InitManager, table, disk, batch, locals, Types, ActivePcs,
       IdlePcs, ReaderPcs, DeleterPcs, BatchPcs, WriterPcs, SwapOutPcs,
       ReadersHaveEntry, KeyHeld, DeleterIsAlone, BatchIsAlone, DoorShut, Active
  <2>3. CASE DestroyBegin(t)
    BY <2>3 DEF DestroyBegin, Locked, Goto, table, disk, batch, locals, Types,
       ActivePcs, IdlePcs, ReaderPcs, DeleterPcs, BatchPcs, WriterPcs,
       SwapOutPcs, ReadersHaveEntry, KeyHeld, DeleterIsAlone, BatchIsAlone,
       DoorShut, Active
  <2>4. CASE GetStats(t)
    BY <2>4 DEF GetStats, Locked, Goto, flags, table, disk, batch, locals,
       Types, ActivePcs, IdlePcs, ReaderPcs, DeleterPcs, BatchPcs, WriterPcs,
       SwapOutPcs, ReadersHaveEntry, KeyHeld, DeleterIsAlone, BatchIsAlone,
       DoorShut, Active
  <2>5. CASE CollectRemovableEntries(t)
    BY <2>5 DEF CollectRemovableEntries, Locked, Goto, disk, Types, ActivePcs,
       IdlePcs, ReaderPcs, DeleterPcs, BatchPcs, WriterPcs, SwapOutPcs,
       ReadersHaveEntry, KeyHeld, DeleterIsAlone, BatchIsAlone, DoorShut, Active
  <2>6. ASSUME NEW n \in Sizes, PrepareForSwapOut(t, n)
        PROVE  ReadersHaveEntry'
    BY <2>6 DEF PrepareForSwapOut, Locked, Goto, flags, disk, batch, Types,
       ActivePcs, IdlePcs, ReaderPcs, DeleterPcs, BatchPcs, WriterPcs,
       SwapOutPcs, ReadersHaveEntry, KeyHeld, DeleterIsAlone, BatchIsAlone,
       DoorShut, Active
  <2>7. ASSUME NEW k \in Keys, PrepareForSwapIn(t, k)
        PROVE  ReadersHaveEntry'
    BY <2>7 DEF PrepareForSwapIn, Locked, Goto, flags, table, disk, batch,
       Types, ActivePcs, IdlePcs, ReaderPcs, DeleterPcs, BatchPcs, WriterPcs,
       SwapOutPcs, ReadersHaveEntry, KeyHeld, DeleterIsAlone, BatchIsAlone,
       DoorShut, Active
  <2>8. ASSUME NEW k \in Keys, PrepareRemoveEntry(t, k)
        PROVE  ReadersHaveEntry'
    BY <2>8 DEF PrepareRemoveEntry, Locked, Goto, flags, disk, batch, Types,
       ActivePcs, IdlePcs, ReaderPcs, DeleterPcs, BatchPcs, WriterPcs,
       SwapOutPcs, ReadersHaveEntry, KeyHeld, DeleterIsAlone, BatchIsAlone,
       DoorShut, Active
  <2>9. CASE WaitForActiveOps(t)
    BY <2>9 DEF WaitForActiveOps, Locked, Goto, flags, table, disk, batch,
       locals, Types, ActivePcs, IdlePcs, ReaderPcs, DeleterPcs, BatchPcs,
       WriterPcs, SwapOutPcs, ReadersHaveEntry, KeyHeld, DeleterIsAlone,
       BatchIsAlone, DoorShut, Active
  <2>10. CASE WaitForActiveOpsTimeout(t)
    BY <2>10 DEF WaitForActiveOpsTimeout, Locked, Goto, flags, table, disk,
       batch, locals, Types, ActivePcs, IdlePcs, ReaderPcs, DeleterPcs, BatchPcs,
       WriterPcs, SwapOutPcs, ReadersHaveEntry, KeyHeld, DeleterIsAlone,
       BatchIsAlone, DoorShut, Active
  <2>11. CASE DestroyFinish(t)
    BY <2>11 DEF DestroyFinish, Locked, Goto, batch, locals, Erased, Types,
       ActivePcs, IdlePcs, ReaderPcs, DeleterPcs, BatchPcs, WriterPcs,
       SwapOutPcs, ReadersHaveEntry, KeyHeld, DeleterIsAlone, BatchIsAlone,
       DoorShut, Active
  <2>12. CASE DestroyBusy(t)
    BY <2>12 DEF DestroyBusy, Locked, Goto, table, disk, batch, locals, Types,
       ActivePcs, IdlePcs, ReaderPcs, DeleterPcs, BatchPcs, WriterPcs,
       SwapOutPcs, ReadersHaveEntry, KeyHeld, DeleterIsAlone, BatchIsAlone,
       DoorShut, Active
  <2>13. CASE WriteTmp(t)
    BY <2>13 DEF WriteTmp, Goto, flags, table, disk, batch, locals, Types,
       ActivePcs, IdlePcs, ReaderPcs, DeleterPcs, BatchPcs, WriterPcs,
       SwapOutPcs, ReadersHaveEntry, KeyHeld, DeleterIsAlone, BatchIsAlone,
       DoorShut, Active
  <2>14. CASE RenameTmp(t)
    BY <2>14 DEF RenameTmp, Goto, flags, table, batch, locals, Types,
       ActivePcs, IdlePcs, ReaderPcs, DeleterPcs, BatchPcs, WriterPcs,
       SwapOutPcs, ReadersHaveEntry, KeyHeld, DeleterIsAlone, BatchIsAlone,
       DoorShut, Active
  <2>15. CASE UndoTmp(t)
    BY <2>15 DEF UndoTmp, Goto, flags, table, disk, batch, locals, Unlinked,
       Types, ActivePcs, IdlePcs, ReaderPcs, DeleterPcs, BatchPcs, WriterPcs,
       SwapOutPcs, ReadersHaveEntry, KeyHeld, DeleterIsAlone, BatchIsAlone,
       DoorShut, Active
  <2>16. CASE CommitSwapOutEntry(t)
    BY <2>16 DEF CommitSwapOutEntry, Locked, Goto, flags, disk, batch, locals,
       Types, ActivePcs, IdlePcs, ReaderPcs, DeleterPcs, BatchPcs, WriterPcs,
       SwapOutPcs, ReadersHaveEntry, KeyHeld, DeleterIsAlone, BatchIsAlone,
       DoorShut, Active
  <2>17. CASE LookupKeyForSwapIn(t)
    BY <2>17 DEF LookupKeyForSwapIn, Locked, Goto, flags, disk, batch, Types,
       ActivePcs, IdlePcs, ReaderPcs, DeleterPcs, BatchPcs, WriterPcs,
       SwapOutPcs, ReadersHaveEntry, KeyHeld, DeleterIsAlone, BatchIsAlone,
       DoorShut, Active
  <2>18. CASE FinishSwapIn(t)
    BY <2>18 DEF FinishSwapIn, Locked, Goto, flags, disk, batch, locals,
       Types, ActivePcs, IdlePcs, ReaderPcs, DeleterPcs, BatchPcs, WriterPcs,
       SwapOutPcs, ReadersHaveEntry, KeyHeld, DeleterIsAlone, BatchIsAlone,
       DoorShut, Active
  <2>19. CASE RemoveSwapFile(t)
    BY <2>19 DEF RemoveSwapFile, Goto, flags, table, disk, batch, locals,
       Unlinked, Types, ActivePcs, IdlePcs, ReaderPcs, DeleterPcs, BatchPcs,
       WriterPcs, SwapOutPcs, ReadersHaveEntry, KeyHeld, DeleterIsAlone,
       BatchIsAlone, DoorShut, Active
  <2>20. CASE FinalizeRemoveEntry(t)
    BY <2>20 DEF FinalizeRemoveEntry, Locked, Goto, flags, disk, batch,
       locals, Erased, Types, ActivePcs, IdlePcs, ReaderPcs, DeleterPcs,
       BatchPcs, WriterPcs, SwapOutPcs, ReadersHaveEntry, KeyHeld,
       DeleterIsAlone, BatchIsAlone, DoorShut, Active
  <2>21. CASE UnlinkNext(t)
    BY <2>21 DEF UnlinkNext, Goto, flags, table, disk, Unlinked, Types,
       ActivePcs, IdlePcs, ReaderPcs, DeleterPcs, BatchPcs, WriterPcs,
       SwapOutPcs, ReadersHaveEntry, KeyHeld, DeleterIsAlone, BatchIsAlone,
       DoorShut, Active
  <2>22. CASE FinalizeNext(t)
    BY <2>22 DEF FinalizeNext, Goto, flags, disk, Erased, Types, ActivePcs,
       IdlePcs, ReaderPcs, DeleterPcs, BatchPcs, WriterPcs, SwapOutPcs,
       ReadersHaveEntry, KeyHeld, DeleterIsAlone, BatchIsAlone, DoorShut, Active
  <2>23. CASE FinalizeRemoveAll(t)
    BY <2>23 DEF FinalizeRemoveAll, Goto, table, disk, batch, locals, Types,
       ActivePcs, IdlePcs, ReaderPcs, DeleterPcs, BatchPcs, WriterPcs,
       SwapOutPcs, ReadersHaveEntry, KeyHeld, DeleterIsAlone, BatchIsAlone,
       DoorShut, Active
  <2>24. CASE EndOperation(t)
    BY <2>24 DEF EndOperation, Locked, Goto, flags, table, disk, batch, Types,
       ActivePcs, IdlePcs, ReaderPcs, DeleterPcs, BatchPcs, WriterPcs,
       SwapOutPcs, ReadersHaveEntry, KeyHeld, DeleterIsAlone, BatchIsAlone,
       DoorShut, Active
  <2>. QED
    BY MovesSteps, <1>2, <2>1, <2>2, <2>3, <2>4, <2>5, <2>6, <2>7, <2>8, <2>9,
       <2>10, <2>11, <2>12, <2>13, <2>14, <2>15, <2>16, <2>17, <2>18, <2>19,
       <2>20, <2>21, <2>22, <2>23, <2>24 DEF Step, Call, Progress
<1>. QED
  BY <1>1, <1>2 DEF Next

\* A deleter stays alone on its key: RemoveData defers to the readers, the
\* last reader takes over, and REMOVING keeps everybody else away.
LEMMA DeleterIsAloneNext ==
    ASSUME Types, KeyHeld, ReadsCounted, WriterOwnsKey,
           ReadersHaveEntry, DeleterIsAlone, BatchIsAlone, DoorShut,
           [Next]_vars
    PROVE  DeleterIsAlone'
<1>1. CASE UNCHANGED vars
  BY <1>1 DEF vars, flags, table, disk, batch, locals, DeleterIsAlone,
     ActivePcs, IdlePcs, ReaderPcs, DeleterPcs, BatchPcs, WriterPcs, SwapOutPcs
<1>2. ASSUME NEW t \in Threads, Step(t)
      PROVE  DeleterIsAlone'
  <2>1. CASE Moves(t)
    BY <2>1 DEF Moves, Goto, flags, table, disk, batch, locals, AfterRefresh,
       Arrows, Types, ActivePcs, IdlePcs, ReaderPcs, DeleterPcs, BatchPcs,
       WriterPcs, SwapOutPcs, DeleterIsAlone, KeyHeld, WriterOwnsKey,
       ReadersHaveEntry, BatchIsAlone, DoorShut, Active
  <2>2. CASE InitManager(t)
    BY <2>2 DEF InitManager, table, disk, batch, locals, Types, ActivePcs,
       IdlePcs, ReaderPcs, DeleterPcs, BatchPcs, WriterPcs, SwapOutPcs,
       DeleterIsAlone, KeyHeld, WriterOwnsKey, ReadersHaveEntry, BatchIsAlone,
       DoorShut, Active
  <2>3. CASE DestroyBegin(t)
    BY <2>3 DEF DestroyBegin, Locked, Goto, table, disk, batch, locals, Types,
       ActivePcs, IdlePcs, ReaderPcs, DeleterPcs, BatchPcs, WriterPcs,
       SwapOutPcs, DeleterIsAlone, KeyHeld, WriterOwnsKey, ReadersHaveEntry,
       BatchIsAlone, DoorShut, Active
  <2>4. CASE GetStats(t)
    BY <2>4 DEF GetStats, Locked, Goto, flags, table, disk, batch, locals,
       Types, ActivePcs, IdlePcs, ReaderPcs, DeleterPcs, BatchPcs, WriterPcs,
       SwapOutPcs, DeleterIsAlone, KeyHeld, WriterOwnsKey, ReadersHaveEntry,
       BatchIsAlone, DoorShut, Active
  <2>5. CASE CollectRemovableEntries(t)
    BY <2>5 DEF CollectRemovableEntries, Locked, Goto, disk, Types, ActivePcs,
       IdlePcs, ReaderPcs, DeleterPcs, BatchPcs, WriterPcs, SwapOutPcs,
       DeleterIsAlone, KeyHeld, WriterOwnsKey, ReadersHaveEntry, BatchIsAlone,
       DoorShut, Active
  <2>6. ASSUME NEW n \in Sizes, PrepareForSwapOut(t, n)
        PROVE  DeleterIsAlone'
    BY <2>6 DEF PrepareForSwapOut, Locked, Goto, flags, disk, batch, Types,
       ActivePcs, IdlePcs, ReaderPcs, DeleterPcs, BatchPcs, WriterPcs,
       SwapOutPcs, DeleterIsAlone, KeyHeld, WriterOwnsKey, ReadersHaveEntry,
       BatchIsAlone, DoorShut, Active
  <2>7. ASSUME NEW k \in Keys, PrepareForSwapIn(t, k)
        PROVE  DeleterIsAlone'
    BY <2>7 DEF PrepareForSwapIn, Locked, Goto, flags, table, disk, batch,
       Types, ActivePcs, IdlePcs, ReaderPcs, DeleterPcs, BatchPcs, WriterPcs,
       SwapOutPcs, DeleterIsAlone, KeyHeld, WriterOwnsKey, ReadersHaveEntry,
       BatchIsAlone, DoorShut, Active
  <2>8. ASSUME NEW k \in Keys, PrepareRemoveEntry(t, k)
        PROVE  DeleterIsAlone'
    <3>1. /\ \A j \in Keys : status'[j] = IF j = k THEN "removing" ELSE status[j]
          /\ status[k] = "active" /\ pc[t] = "idle"
      BY <2>8 DEF PrepareRemoveEntry, Locked, Goto, Types
    <3>2. CASE readCount[k] = 0
      <4>1. \A u \in Threads : ~(pc[u] \in ReaderPcs /\ opKey[u] = k)
        BY <3>2, ReaderCounts
      <4>2. \A u \in Threads : /\ pc'[u] = IF u = t THEN "unlink" ELSE pc[u]
                               /\ opKey'[u] = IF u = t THEN k ELSE opKey[u]
        BY <3>2, <2>8 DEF PrepareRemoveEntry, Locked, Goto, Types
      <4>. QED
        BY <3>1, <4>1, <4>2 DEF DeleterIsAlone, DeleterPcs, ReaderPcs, KeyHeld
    <3>3. CASE readCount[k] # 0
      <4>1. pc' = pc /\ opKey' = opKey
        BY <3>3, <2>8 DEF PrepareRemoveEntry, Locked, Goto, Types
      <4>. QED
        BY <3>1, <4>1 DEF DeleterIsAlone, DeleterPcs, ReaderPcs, KeyHeld
    <3>. QED
      BY <3>2, <3>3
  <2>9. CASE WaitForActiveOps(t)
    BY <2>9 DEF WaitForActiveOps, Locked, Goto, flags, table, disk, batch,
       locals, Types, ActivePcs, IdlePcs, ReaderPcs, DeleterPcs, BatchPcs,
       WriterPcs, SwapOutPcs, DeleterIsAlone, KeyHeld, WriterOwnsKey,
       ReadersHaveEntry, BatchIsAlone, DoorShut, Active
  <2>10. CASE WaitForActiveOpsTimeout(t)
    BY <2>10 DEF WaitForActiveOpsTimeout, Locked, Goto, flags, table, disk,
       batch, locals, Types, ActivePcs, IdlePcs, ReaderPcs, DeleterPcs, BatchPcs,
       WriterPcs, SwapOutPcs, DeleterIsAlone, KeyHeld, WriterOwnsKey,
       ReadersHaveEntry, BatchIsAlone, DoorShut, Active
  <2>11. CASE DestroyFinish(t)
    BY <2>11 DEF DestroyFinish, Locked, Goto, batch, locals, Erased, Types,
       ActivePcs, IdlePcs, ReaderPcs, DeleterPcs, BatchPcs, WriterPcs,
       SwapOutPcs, DeleterIsAlone, KeyHeld, WriterOwnsKey, ReadersHaveEntry,
       BatchIsAlone, DoorShut, Active
  <2>12. CASE DestroyBusy(t)
    BY <2>12 DEF DestroyBusy, Locked, Goto, table, disk, batch, locals, Types,
       ActivePcs, IdlePcs, ReaderPcs, DeleterPcs, BatchPcs, WriterPcs,
       SwapOutPcs, DeleterIsAlone, KeyHeld, WriterOwnsKey, ReadersHaveEntry,
       BatchIsAlone, DoorShut, Active
  <2>13. CASE WriteTmp(t)
    BY <2>13 DEF WriteTmp, Goto, flags, table, disk, batch, locals, Types,
       ActivePcs, IdlePcs, ReaderPcs, DeleterPcs, BatchPcs, WriterPcs,
       SwapOutPcs, DeleterIsAlone, KeyHeld, WriterOwnsKey, ReadersHaveEntry,
       BatchIsAlone, DoorShut, Active
  <2>14. CASE RenameTmp(t)
    BY <2>14 DEF RenameTmp, Goto, flags, table, batch, locals, Types,
       ActivePcs, IdlePcs, ReaderPcs, DeleterPcs, BatchPcs, WriterPcs,
       SwapOutPcs, DeleterIsAlone, KeyHeld, WriterOwnsKey, ReadersHaveEntry,
       BatchIsAlone, DoorShut, Active
  <2>15. CASE UndoTmp(t)
    BY <2>15 DEF UndoTmp, Goto, flags, table, disk, batch, locals, Unlinked,
       Types, ActivePcs, IdlePcs, ReaderPcs, DeleterPcs, BatchPcs, WriterPcs,
       SwapOutPcs, DeleterIsAlone, KeyHeld, WriterOwnsKey, ReadersHaveEntry,
       BatchIsAlone, DoorShut, Active
  <2>16. CASE CommitSwapOutEntry(t)
    <3>. DEFINE w == opKey[t]
    <3>1. w \in Keys /\ w # NoKey /\ pc[t] = "commit" /\ status[w] = "absent"
      BY <2>16, NoKeyIsNone DEF CommitSwapOutEntry, Locked, Goto, KeyHeld,
         WriterOwnsKey, WriterPcs, SwapOutPcs
    <3>2. /\ opKey' = opKey
          /\ \A u \in Threads : pc'[u] = IF u = t THEN "end" ELSE pc[u]
          /\ \A j \in Keys : status'[j] = IF j = w THEN "active" ELSE status[j]
      BY <2>16 DEF CommitSwapOutEntry, Locked, Goto, locals, Types
    <3>. QED
      BY <3>1, <3>2 DEF DeleterIsAlone, DeleterPcs, ReaderPcs, KeyHeld
  <2>17. CASE LookupKeyForSwapIn(t)
    BY <2>17 DEF LookupKeyForSwapIn, Locked, Goto, flags, disk, batch, Types,
       ActivePcs, IdlePcs, ReaderPcs, DeleterPcs, BatchPcs, WriterPcs,
       SwapOutPcs, DeleterIsAlone, KeyHeld, WriterOwnsKey, ReadersHaveEntry,
       BatchIsAlone, DoorShut, Active
  <2>18. CASE FinishSwapIn(t)
    BY ReaderCounts, <2>18, SMTT(60) DEF FinishSwapIn, Locked, Goto, flags,
       disk, batch, locals, Types, ActivePcs, IdlePcs, ReaderPcs, DeleterPcs,
       WriterPcs, DeleterIsAlone, KeyHeld, ReadersHaveEntry
  <2>19. CASE RemoveSwapFile(t)
    BY <2>19 DEF RemoveSwapFile, Goto, flags, table, disk, batch, locals,
       Unlinked, Types, ActivePcs, IdlePcs, ReaderPcs, DeleterPcs, BatchPcs,
       WriterPcs, SwapOutPcs, DeleterIsAlone, KeyHeld, WriterOwnsKey,
       ReadersHaveEntry, BatchIsAlone, DoorShut, Active
  <2>20. CASE FinalizeRemoveEntry(t)
    BY <2>20 DEF FinalizeRemoveEntry, Locked, Goto, flags, disk, batch,
       locals, Erased, Types, ActivePcs, IdlePcs, ReaderPcs, DeleterPcs,
       BatchPcs, WriterPcs, SwapOutPcs, DeleterIsAlone, KeyHeld, WriterOwnsKey,
       ReadersHaveEntry, BatchIsAlone, DoorShut, Active
  <2>21. CASE UnlinkNext(t)
    BY <2>21 DEF UnlinkNext, Goto, flags, table, disk, Unlinked, Types,
       ActivePcs, IdlePcs, ReaderPcs, DeleterPcs, BatchPcs, WriterPcs,
       SwapOutPcs, DeleterIsAlone, KeyHeld, WriterOwnsKey, ReadersHaveEntry,
       BatchIsAlone, DoorShut, Active
  <2>22. CASE FinalizeNext(t)
    BY <2>22 DEF FinalizeNext, Goto, flags, disk, Erased, Types, ActivePcs,
       IdlePcs, ReaderPcs, DeleterPcs, BatchPcs, WriterPcs, SwapOutPcs,
       DeleterIsAlone, KeyHeld, WriterOwnsKey, ReadersHaveEntry, BatchIsAlone,
       DoorShut, Active
  <2>23. CASE FinalizeRemoveAll(t)
    BY <2>23 DEF FinalizeRemoveAll, Goto, table, disk, batch, locals, Types,
       ActivePcs, IdlePcs, ReaderPcs, DeleterPcs, BatchPcs, WriterPcs,
       SwapOutPcs, DeleterIsAlone, KeyHeld, WriterOwnsKey, ReadersHaveEntry,
       BatchIsAlone, DoorShut, Active
  <2>24. CASE EndOperation(t)
    BY <2>24 DEF EndOperation, Locked, Goto, flags, table, disk, batch, Types,
       ActivePcs, IdlePcs, ReaderPcs, DeleterPcs, BatchPcs, WriterPcs,
       SwapOutPcs, DeleterIsAlone, KeyHeld, WriterOwnsKey, ReadersHaveEntry,
       BatchIsAlone, DoorShut, Active
  <2>. QED
    BY MovesSteps, <1>2, <2>1, <2>2, <2>3, <2>4, <2>5, <2>6, <2>7, <2>8, <2>9,
       <2>10, <2>11, <2>12, <2>13, <2>14, <2>15, <2>16, <2>17, <2>18, <2>19,
       <2>20, <2>21, <2>22, <2>23, <2>24 DEF Step, Call, Progress
<1>. QED
  BY <1>1, <1>2 DEF Next

\* RemoveAllData starts with nobody inside and nobody joins it on a key.
LEMMA BatchIsAloneNext ==
    ASSUME Types, KeyHeld, OpsCounted, RemovingHasOwner, WriterOwnsKey,
           DeleterIsAlone, BatchIsAlone, DoorShut, [Next]_vars
    PROVE  BatchIsAlone'
<1>1. CASE UNCHANGED vars
  BY <1>1 DEF vars, flags, table, disk, batch, locals, BatchIsAlone,
     ActivePcs, IdlePcs, ReaderPcs, DeleterPcs, BatchPcs, WriterPcs, SwapOutPcs
<1>2. ASSUME NEW t \in Threads, Step(t)
      PROVE  BatchIsAlone'
  <2>1. CASE Moves(t)
    BY <2>1 DEF Moves, Goto, flags, table, disk, batch, locals, AfterRefresh,
       Arrows, Types, ActivePcs, IdlePcs, ReaderPcs, DeleterPcs, BatchPcs,
       WriterPcs, SwapOutPcs, BatchIsAlone, KeyHeld, WriterOwnsKey,
       DeleterIsAlone, DoorShut, Active, NoKey
  <2>2. CASE InitManager(t)
    BY <2>2 DEF InitManager, table, disk, batch, locals, Types, ActivePcs,
       IdlePcs, ReaderPcs, DeleterPcs, BatchPcs, WriterPcs, SwapOutPcs,
       BatchIsAlone, KeyHeld, WriterOwnsKey, DeleterIsAlone, DoorShut, Active,
       NoKey
  <2>3. CASE DestroyBegin(t)
    BY <2>3 DEF DestroyBegin, Locked, Goto, table, disk, batch, locals, Types,
       ActivePcs, IdlePcs, ReaderPcs, DeleterPcs, BatchPcs, WriterPcs,
       SwapOutPcs, BatchIsAlone, KeyHeld, WriterOwnsKey, DeleterIsAlone,
       DoorShut, Active, NoKey
  <2>4. CASE GetStats(t)
    BY <2>4 DEF GetStats, Locked, Goto, flags, table, disk, batch, locals,
       Types, ActivePcs, IdlePcs, ReaderPcs, DeleterPcs, BatchPcs, WriterPcs,
       SwapOutPcs, BatchIsAlone, KeyHeld, WriterOwnsKey, DeleterIsAlone,
       DoorShut, Active, NoKey
  <2>5. CASE CollectRemovableEntries(t)
    <3>1. /\ \A u \in Threads : pc[u] \notin ActivePcs
          /\ \A u \in Threads : todo[u] = {} /\ gone[u] = {} /\ kept[u] = {}
      BY <2>5, NobodyInside DEF CollectRemovableEntries, BatchIsAlone,
         ActivePcs,
         BatchPcs
    <3>2. \A j \in Keys : status[j] # "removing"
      BY <3>1 DEF RemovingHasOwner, ActivePcs, ReaderPcs, DeleterPcs, BatchPcs
    <3>3. /\ \A u \in Threads : pc'[u] = IF u = t THEN "unlinkAll" ELSE pc[u]
          /\ \A u \in Threads : u # t => todo'[u] = {}
          /\ \A j \in Keys : j \in todo'[t] <=> status[j] # "absent"
          /\ todo'[t] \subseteq Keys
          /\ gone' = gone /\ kept' = kept /\ removeAllInProgress' = TRUE
          /\ \A j \in Keys :
               status'[j] = IF status[j] # "absent" THEN "removing" ELSE status[j]
      BY <3>1, <2>5 DEF CollectRemovableEntries, Locked, Goto, Types
    <3>4. \A u \in Threads \ {t} :
            pc'[u] \notin ReaderPcs \cup DeleterPcs \cup BatchPcs \cup SwapOutPcs
      BY <3>1, <3>3 DEF BatchPcs, ReaderPcs, DeleterPcs, SwapOutPcs,
         WriterPcs,
         ActivePcs
    <3>5. /\ pc'[t] = "unlinkAll" /\ gone'[t] = {} /\ kept'[t] = {}
          /\ \A j \in Keys : status'[j] = "removing" <=> j \in todo'[t]
          /\ \A j \in Keys : status'[j] # "active"
      BY <3>1, <3>2, <3>3 DEF Types
    <3>. QED
      BY <3>1, <3>3, <3>4, <3>5 DEF BatchIsAlone, BatchPcs
  <2>6. ASSUME NEW n \in Sizes, PrepareForSwapOut(t, n)
        PROVE  BatchIsAlone'
    BY <2>6 DEF PrepareForSwapOut, Locked, Goto, flags, disk, batch, Types,
       ActivePcs, IdlePcs, ReaderPcs, DeleterPcs, BatchPcs, WriterPcs,
       SwapOutPcs, BatchIsAlone, KeyHeld, WriterOwnsKey, DeleterIsAlone,
       DoorShut, Active, NoKey
  <2>7. ASSUME NEW k \in Keys, PrepareForSwapIn(t, k)
        PROVE  BatchIsAlone'
    BY <2>7 DEF PrepareForSwapIn, Locked, Goto, flags, table, disk, batch,
       Types, ActivePcs, IdlePcs, ReaderPcs, DeleterPcs, BatchPcs, WriterPcs,
       SwapOutPcs, BatchIsAlone, KeyHeld, WriterOwnsKey, DeleterIsAlone,
       DoorShut, Active, NoKey
  <2>8. ASSUME NEW k \in Keys, PrepareRemoveEntry(t, k)
        PROVE  BatchIsAlone'
    <3>1. /\ MutexFree /\ status[k] = "active"
          /\ UNCHANGED batch /\ \A u \in Threads : pc'[u] \in {pc[u], "unlink"}
      BY <2>8 DEF PrepareRemoveEntry, Locked, Goto, Types
    <3>2. \A u \in Threads : pc[u] \notin BatchPcs
      BY <3>1 DEF BatchIsAlone, MutexFree
    <3>. QED
      BY <3>1, <3>2 DEF BatchIsAlone, BatchPcs, batch
  <2>9. CASE WaitForActiveOps(t)
    BY <2>9 DEF WaitForActiveOps, Locked, Goto, flags, table, disk, batch,
       locals, Types, ActivePcs, IdlePcs, ReaderPcs, DeleterPcs, BatchPcs,
       WriterPcs, SwapOutPcs, BatchIsAlone, KeyHeld, WriterOwnsKey,
       DeleterIsAlone, DoorShut, Active, NoKey
  <2>10. CASE WaitForActiveOpsTimeout(t)
    BY <2>10 DEF WaitForActiveOpsTimeout, Locked, Goto, flags, table, disk,
       batch, locals, Types, ActivePcs, IdlePcs, ReaderPcs, DeleterPcs, BatchPcs,
       WriterPcs, SwapOutPcs, BatchIsAlone, KeyHeld, WriterOwnsKey,
       DeleterIsAlone, DoorShut, Active, NoKey
  <2>11. CASE DestroyFinish(t)
    BY <2>11 DEF DestroyFinish, Locked, Goto, batch, locals, Erased, Types,
       ActivePcs, IdlePcs, ReaderPcs, DeleterPcs, BatchPcs, WriterPcs,
       SwapOutPcs, BatchIsAlone, KeyHeld, WriterOwnsKey, DeleterIsAlone,
       DoorShut, Active, NoKey
  <2>12. CASE DestroyBusy(t)
    BY <2>12 DEF DestroyBusy, Locked, Goto, table, disk, batch, locals, Types,
       ActivePcs, IdlePcs, ReaderPcs, DeleterPcs, BatchPcs, WriterPcs,
       SwapOutPcs, BatchIsAlone, KeyHeld, WriterOwnsKey, DeleterIsAlone,
       DoorShut, Active, NoKey
  <2>13. CASE WriteTmp(t)
    BY <2>13 DEF WriteTmp, Goto, flags, table, disk, batch, locals, Types,
       ActivePcs, IdlePcs, ReaderPcs, DeleterPcs, BatchPcs, WriterPcs,
       SwapOutPcs, BatchIsAlone, KeyHeld, WriterOwnsKey, DeleterIsAlone,
       DoorShut, Active, NoKey
  <2>14. CASE RenameTmp(t)
    BY <2>14 DEF RenameTmp, Goto, flags, table, batch, locals, Types,
       ActivePcs, IdlePcs, ReaderPcs, DeleterPcs, BatchPcs, WriterPcs,
       SwapOutPcs, BatchIsAlone, KeyHeld, WriterOwnsKey, DeleterIsAlone,
       DoorShut, Active, NoKey
  <2>15. CASE UndoTmp(t)
    BY <2>15 DEF UndoTmp, Goto, flags, table, disk, batch, locals, Unlinked,
       Types, ActivePcs, IdlePcs, ReaderPcs, DeleterPcs, BatchPcs, WriterPcs,
       SwapOutPcs, BatchIsAlone, KeyHeld, WriterOwnsKey, DeleterIsAlone,
       DoorShut, Active, NoKey
  <2>16. CASE CommitSwapOutEntry(t)
    <3>. DEFINE w == opKey[t]
    <3>1. w \in Keys /\ w # NoKey /\ pc[t] = "commit" /\ status[w] = "absent"
      BY <2>16, NoKeyIsNone DEF CommitSwapOutEntry, Locked, Goto, KeyHeld,
         WriterOwnsKey, WriterPcs, SwapOutPcs
    <3>2. /\ opKey' = opKey
          /\ \A u \in Threads : pc'[u] = IF u = t THEN "end" ELSE pc[u]
          /\ \A j \in Keys : status'[j] = IF j = w THEN "active" ELSE status[j]
      BY <2>16 DEF CommitSwapOutEntry, Locked, Goto, locals, Types
    <3>3. \A u \in Threads : pc[u] \notin BatchPcs
      BY <3>1 DEF BatchIsAlone, BatchPcs, SwapOutPcs, WriterPcs
    <3>. QED
      BY <3>2, <3>3, <2>16 DEF BatchIsAlone, CommitSwapOutEntry, batch,
         locals, BatchPcs
  <2>17. CASE LookupKeyForSwapIn(t)
    <3>1. /\ opKey' = opKey /\ status' = status /\ UNCHANGED batch
          /\ removeAllInProgress' = removeAllInProgress
          /\ pc[t] = "lookup" /\ opKey[t] \in Keys
          /\ \A u \in Threads : u # t => pc'[u] = pc[u]
          /\ pc'[t] = IF status[opKey[t]] = "active" THEN "read" ELSE "end"
      BY <2>17 DEF LookupKeyForSwapIn, Locked, Goto, flags, KeyHeld, Types
    <3>2. \A u \in Threads : pc[u] # "finalizeAll"
      BY <2>17 DEF LookupKeyForSwapIn, Locked, MutexFree
    <3>3. (\E u \in Threads : pc[u] \in BatchPcs) => pc'[t] = "end"
      BY <3>1, <3>2 DEF BatchIsAlone
    <3>. QED
      BY <3>1, <3>3 DEF BatchIsAlone, BatchPcs, ReaderPcs, DeleterPcs,
         SwapOutPcs,
         WriterPcs, batch
  <2>18. CASE FinishSwapIn(t)
    BY <2>18 DEF FinishSwapIn, Locked, Goto, flags, disk, batch, locals,
       Types, ActivePcs, IdlePcs, ReaderPcs, DeleterPcs, BatchPcs, WriterPcs,
       SwapOutPcs, BatchIsAlone, KeyHeld, WriterOwnsKey, DeleterIsAlone,
       DoorShut, Active, NoKey
  <2>19. CASE RemoveSwapFile(t)
    BY <2>19 DEF RemoveSwapFile, Goto, flags, table, disk, batch, locals,
       Unlinked, Types, ActivePcs, IdlePcs, ReaderPcs, DeleterPcs, BatchPcs,
       WriterPcs, SwapOutPcs, BatchIsAlone, KeyHeld, WriterOwnsKey,
       DeleterIsAlone, DoorShut, Active, NoKey
  <2>20. CASE FinalizeRemoveEntry(t)
    BY <2>20 DEF FinalizeRemoveEntry, Locked, Goto, flags, disk, batch,
       locals, Erased, Types, ActivePcs, IdlePcs, ReaderPcs, DeleterPcs,
       BatchPcs, WriterPcs, SwapOutPcs, BatchIsAlone, KeyHeld, WriterOwnsKey,
       DeleterIsAlone, DoorShut, Active, NoKey
  <2>21. CASE UnlinkNext(t)
    BY <2>21 DEF UnlinkNext, Goto, flags, table, disk, Unlinked, Types,
       ActivePcs, IdlePcs, ReaderPcs, DeleterPcs, BatchPcs, WriterPcs,
       SwapOutPcs, BatchIsAlone, KeyHeld, WriterOwnsKey, DeleterIsAlone,
       DoorShut, Active, NoKey
  <2>22. CASE FinalizeNext(t)
    BY <2>22 DEF FinalizeNext, Goto, flags, disk, Erased, Types, ActivePcs,
       IdlePcs, ReaderPcs, DeleterPcs, BatchPcs, WriterPcs, SwapOutPcs,
       BatchIsAlone, KeyHeld, WriterOwnsKey, DeleterIsAlone, DoorShut, Active,
       NoKey
  <2>23. CASE FinalizeRemoveAll(t)
    BY <2>23 DEF FinalizeRemoveAll, Goto, table, disk, batch, locals, Types,
       ActivePcs, IdlePcs, ReaderPcs, DeleterPcs, BatchPcs, WriterPcs,
       SwapOutPcs, BatchIsAlone, KeyHeld, WriterOwnsKey, DeleterIsAlone,
       DoorShut, Active, NoKey
  <2>24. CASE EndOperation(t)
    BY <2>24 DEF EndOperation, Locked, Goto, flags, table, disk, batch, Types,
       ActivePcs, IdlePcs, ReaderPcs, DeleterPcs, BatchPcs, WriterPcs,
       SwapOutPcs, BatchIsAlone, KeyHeld, WriterOwnsKey, DeleterIsAlone,
       DoorShut, Active, NoKey
  <2>. QED
    BY MovesSteps, <1>2, <2>1, <2>2, <2>3, <2>4, <2>5, <2>6, <2>7, <2>8, <2>9,
       <2>10, <2>11, <2>12, <2>13, <2>14, <2>15, <2>16, <2>17, <2>18, <2>19,
       <2>20, <2>21, <2>22, <2>23, <2>24 DEF Step, Call, Progress
<1>. QED
  BY <1>1, <1>2 DEF Next

\* A key marked REMOVING is never left without somebody to delete it.
LEMMA RemovingHasOwnerNext ==
    ASSUME Types, KeyHeld, ReadsCounted, ReadersHaveEntry,
           DeleterIsAlone, BatchIsAlone, RemovingHasOwner, DoorShut,
           [Next]_vars
    PROVE  RemovingHasOwner'
<1>1. CASE UNCHANGED vars
  BY <1>1 DEF vars, flags, table, disk, batch, locals, RemovingHasOwner,
     ActivePcs, IdlePcs, ReaderPcs, DeleterPcs, BatchPcs, WriterPcs, SwapOutPcs
<1>2. ASSUME NEW t \in Threads, Step(t)
      PROVE  RemovingHasOwner'
  <2>1. CASE Moves(t)
    BY <2>1 DEF Moves, Goto, flags, table, disk, batch, locals, AfterRefresh,
       Arrows, Types, ActivePcs, IdlePcs, ReaderPcs, DeleterPcs, BatchPcs,
       WriterPcs, SwapOutPcs, RemovingHasOwner, KeyHeld, ReadersHaveEntry,
       DeleterIsAlone, BatchIsAlone, DoorShut, Active
  <2>2. CASE InitManager(t)
    BY <2>2 DEF InitManager, table, disk, batch, locals, Types, ActivePcs,
       IdlePcs, ReaderPcs, DeleterPcs, BatchPcs, WriterPcs, SwapOutPcs,
       RemovingHasOwner, KeyHeld, ReadersHaveEntry, DeleterIsAlone, BatchIsAlone,
       DoorShut, Active
  <2>3. CASE DestroyBegin(t)
    BY <2>3 DEF DestroyBegin, Locked, Goto, table, disk, batch, locals, Types,
       ActivePcs, IdlePcs, ReaderPcs, DeleterPcs, BatchPcs, WriterPcs,
       SwapOutPcs, RemovingHasOwner, KeyHeld, ReadersHaveEntry, DeleterIsAlone,
       BatchIsAlone, DoorShut, Active
  <2>4. CASE GetStats(t)
    BY <2>4 DEF GetStats, Locked, Goto, flags, table, disk, batch, locals,
       Types, ActivePcs, IdlePcs, ReaderPcs, DeleterPcs, BatchPcs, WriterPcs,
       SwapOutPcs, RemovingHasOwner, KeyHeld, ReadersHaveEntry, DeleterIsAlone,
       BatchIsAlone, DoorShut, Active
  <2>5. CASE CollectRemovableEntries(t)
    BY <2>5 DEF CollectRemovableEntries, Locked, Goto, disk, Types, ActivePcs,
       IdlePcs, ReaderPcs, DeleterPcs, BatchPcs, WriterPcs, SwapOutPcs,
       RemovingHasOwner, KeyHeld, ReadersHaveEntry, DeleterIsAlone, BatchIsAlone,
       DoorShut, Active
  <2>6. ASSUME NEW n \in Sizes, PrepareForSwapOut(t, n)
        PROVE  RemovingHasOwner'
    BY <2>6 DEF PrepareForSwapOut, Locked, Goto, flags, disk, batch, Types,
       ActivePcs, IdlePcs, ReaderPcs, DeleterPcs, BatchPcs, WriterPcs,
       SwapOutPcs, RemovingHasOwner, KeyHeld, ReadersHaveEntry, DeleterIsAlone,
       BatchIsAlone, DoorShut, Active
  <2>7. ASSUME NEW k \in Keys, PrepareForSwapIn(t, k)
        PROVE  RemovingHasOwner'
    BY <2>7 DEF PrepareForSwapIn, Locked, Goto, flags, table, disk, batch,
       Types, ActivePcs, IdlePcs, ReaderPcs, DeleterPcs, BatchPcs, WriterPcs,
       SwapOutPcs, RemovingHasOwner, KeyHeld, ReadersHaveEntry, DeleterIsAlone,
       BatchIsAlone, DoorShut, Active
  <2>8. ASSUME NEW k \in Keys, PrepareRemoveEntry(t, k)
        PROVE  RemovingHasOwner'
    <3>1. CASE readCount[k] = 0
      BY ReaderCounts, <3>1, <2>8, SMTT(30) DEF PrepareRemoveEntry, Locked,
         Goto, flags, disk, batch, Types, ActivePcs, IdlePcs, ReaderPcs,
         DeleterPcs, BatchPcs, WriterPcs, RemovingHasOwner, KeyHeld
    <3>2. CASE readCount[k] # 0
      BY ReaderCounts, <3>2, <2>8, SMTT(30) DEF PrepareRemoveEntry, Locked,
         Goto, flags, disk, batch, Types, ActivePcs, IdlePcs, ReaderPcs,
         DeleterPcs, BatchPcs, WriterPcs, RemovingHasOwner, KeyHeld
    <3>. QED
      BY <3>1, <3>2
  <2>9. CASE WaitForActiveOps(t)
    BY <2>9 DEF WaitForActiveOps, Locked, Goto, flags, table, disk, batch,
       locals, Types, ActivePcs, IdlePcs, ReaderPcs, DeleterPcs, BatchPcs,
       WriterPcs, SwapOutPcs, RemovingHasOwner, KeyHeld, ReadersHaveEntry,
       DeleterIsAlone, BatchIsAlone, DoorShut, Active
  <2>10. CASE WaitForActiveOpsTimeout(t)
    BY <2>10 DEF WaitForActiveOpsTimeout, Locked, Goto, flags, table, disk,
       batch, locals, Types, ActivePcs, IdlePcs, ReaderPcs, DeleterPcs, BatchPcs,
       WriterPcs, SwapOutPcs, RemovingHasOwner, KeyHeld, ReadersHaveEntry,
       DeleterIsAlone, BatchIsAlone, DoorShut, Active
  <2>11. CASE DestroyFinish(t)
    BY <2>11 DEF DestroyFinish, Locked, Goto, batch, locals, Erased, Types,
       ActivePcs, IdlePcs, ReaderPcs, DeleterPcs, BatchPcs, WriterPcs,
       SwapOutPcs, RemovingHasOwner, KeyHeld, ReadersHaveEntry, DeleterIsAlone,
       BatchIsAlone, DoorShut, Active
  <2>12. CASE DestroyBusy(t)
    BY <2>12 DEF DestroyBusy, Locked, Goto, table, disk, batch, locals, Types,
       ActivePcs, IdlePcs, ReaderPcs, DeleterPcs, BatchPcs, WriterPcs,
       SwapOutPcs, RemovingHasOwner, KeyHeld, ReadersHaveEntry, DeleterIsAlone,
       BatchIsAlone, DoorShut, Active
  <2>13. CASE WriteTmp(t)
    BY <2>13 DEF WriteTmp, Goto, flags, table, disk, batch, locals, Types,
       ActivePcs, IdlePcs, ReaderPcs, DeleterPcs, BatchPcs, WriterPcs,
       SwapOutPcs, RemovingHasOwner, KeyHeld, ReadersHaveEntry, DeleterIsAlone,
       BatchIsAlone, DoorShut, Active
  <2>14. CASE RenameTmp(t)
    BY <2>14 DEF RenameTmp, Goto, flags, table, batch, locals, Types,
       ActivePcs, IdlePcs, ReaderPcs, DeleterPcs, BatchPcs, WriterPcs,
       SwapOutPcs, RemovingHasOwner, KeyHeld, ReadersHaveEntry, DeleterIsAlone,
       BatchIsAlone, DoorShut, Active
  <2>15. CASE UndoTmp(t)
    BY <2>15 DEF UndoTmp, Goto, flags, table, disk, batch, locals, Unlinked,
       Types, ActivePcs, IdlePcs, ReaderPcs, DeleterPcs, BatchPcs, WriterPcs,
       SwapOutPcs, RemovingHasOwner, KeyHeld, ReadersHaveEntry, DeleterIsAlone,
       BatchIsAlone, DoorShut, Active
  <2>16. CASE CommitSwapOutEntry(t)
    BY <2>16 DEF CommitSwapOutEntry, Locked, Goto, flags, disk, batch, locals,
       Types, ActivePcs, IdlePcs, ReaderPcs, DeleterPcs, BatchPcs, WriterPcs,
       SwapOutPcs, RemovingHasOwner, KeyHeld, ReadersHaveEntry, DeleterIsAlone,
       BatchIsAlone, DoorShut, Active
  <2>17. CASE LookupKeyForSwapIn(t)
    BY <2>17 DEF LookupKeyForSwapIn, Locked, Goto, flags, disk, batch, Types,
       ActivePcs, IdlePcs, ReaderPcs, DeleterPcs, BatchPcs, WriterPcs,
       SwapOutPcs, RemovingHasOwner, KeyHeld, ReadersHaveEntry, DeleterIsAlone,
       BatchIsAlone, DoorShut, Active
  <2>18. CASE FinishSwapIn(t)
    BY ReaderCounts, <2>18, SMTT(60) DEF FinishSwapIn, Locked, Goto, flags,
       disk, batch, locals, Types, ActivePcs, IdlePcs, ReaderPcs, DeleterPcs,
       BatchPcs, WriterPcs, RemovingHasOwner, KeyHeld, ReadersHaveEntry
  <2>19. CASE RemoveSwapFile(t)
    BY <2>19 DEF RemoveSwapFile, Goto, flags, table, disk, batch, locals,
       Unlinked, Types, ActivePcs, IdlePcs, ReaderPcs, DeleterPcs, BatchPcs,
       WriterPcs, SwapOutPcs, RemovingHasOwner, KeyHeld, ReadersHaveEntry,
       DeleterIsAlone, BatchIsAlone, DoorShut, Active
  <2>20. CASE FinalizeRemoveEntry(t)
    BY <2>20 DEF FinalizeRemoveEntry, Locked, Goto, flags, disk, batch,
       locals, Erased, Types, ActivePcs, IdlePcs, ReaderPcs, DeleterPcs,
       BatchPcs, WriterPcs, SwapOutPcs, RemovingHasOwner, KeyHeld,
       ReadersHaveEntry, DeleterIsAlone, BatchIsAlone, DoorShut, Active
  <2>21. CASE UnlinkNext(t)
    BY <2>21 DEF UnlinkNext, Goto, flags, table, disk, Unlinked, Types,
       ActivePcs, IdlePcs, ReaderPcs, DeleterPcs, BatchPcs, WriterPcs,
       SwapOutPcs, RemovingHasOwner, KeyHeld, ReadersHaveEntry, DeleterIsAlone,
       BatchIsAlone, DoorShut, Active
  <2>22. CASE FinalizeNext(t)
    BY <2>22 DEF FinalizeNext, Goto, flags, disk, Erased, Types, ActivePcs,
       IdlePcs, ReaderPcs, DeleterPcs, BatchPcs, WriterPcs, SwapOutPcs,
       RemovingHasOwner, KeyHeld, ReadersHaveEntry, DeleterIsAlone, BatchIsAlone,
       DoorShut, Active
  <2>23. CASE FinalizeRemoveAll(t)
    BY <2>23 DEF FinalizeRemoveAll, Goto, table, disk, batch, locals, Types,
       ActivePcs, IdlePcs, ReaderPcs, DeleterPcs, BatchPcs, WriterPcs,
       SwapOutPcs, RemovingHasOwner, KeyHeld, ReadersHaveEntry, DeleterIsAlone,
       BatchIsAlone, DoorShut, Active
  <2>24. CASE EndOperation(t)
    BY <2>24 DEF EndOperation, Locked, Goto, flags, table, disk, batch, Types,
       ActivePcs, IdlePcs, ReaderPcs, DeleterPcs, BatchPcs, WriterPcs,
       SwapOutPcs, RemovingHasOwner, KeyHeld, ReadersHaveEntry, DeleterIsAlone,
       BatchIsAlone, DoorShut, Active
  <2>. QED
    BY MovesSteps, <1>2, <2>1, <2>2, <2>3, <2>4, <2>5, <2>6, <2>7, <2>8, <2>9,
       <2>10, <2>11, <2>12, <2>13, <2>14, <2>15, <2>16, <2>17, <2>18, <2>19,
       <2>20, <2>21, <2>22, <2>23, <2>24 DEF Step, Call, Progress
<1>. QED
  BY <1>1, <1>2 DEF Next

\* The swap file is there while the key can be read or is being read.
LEMMA FilesFollowNext ==
    ASSUME Types, KeyHeld, WriterOwnsKey, ReadersHaveEntry,
           DeleterIsAlone, BatchIsAlone, RemovingHasOwner, OpsCounted,
           FilesFollow, DoorShut, [Next]_vars
    PROVE  FilesFollow'
<1>1. CASE UNCHANGED vars
  BY <1>1 DEF vars, flags, table, disk, batch, locals, FilesFollow, ActivePcs,
     IdlePcs, ReaderPcs, DeleterPcs, BatchPcs, WriterPcs, SwapOutPcs
<1>2. ASSUME NEW t \in Threads, Step(t)
      PROVE  FilesFollow'
  <2>1. CASE Moves(t)
    BY <2>1 DEF Moves, Goto, flags, table, disk, batch, locals, AfterRefresh,
       Arrows, Types, ActivePcs, IdlePcs, ReaderPcs, DeleterPcs, BatchPcs,
       WriterPcs, SwapOutPcs, FilesFollow, KeyHeld, WriterOwnsKey,
       ReadersHaveEntry, DeleterIsAlone, BatchIsAlone, DoorShut, Active, NoKey
  <2>2. CASE InitManager(t)
    BY <2>2 DEF InitManager, table, disk, batch, locals, Types, ActivePcs,
       IdlePcs, ReaderPcs, DeleterPcs, BatchPcs, WriterPcs, SwapOutPcs,
       FilesFollow, KeyHeld, WriterOwnsKey, ReadersHaveEntry, DeleterIsAlone,
       BatchIsAlone, DoorShut, Active, NoKey
  <2>3. CASE DestroyBegin(t)
    BY <2>3 DEF DestroyBegin, Locked, Goto, table, disk, batch, locals, Types,
       ActivePcs, IdlePcs, ReaderPcs, DeleterPcs, BatchPcs, WriterPcs,
       SwapOutPcs, FilesFollow, KeyHeld, WriterOwnsKey, ReadersHaveEntry,
       DeleterIsAlone, BatchIsAlone, DoorShut, Active, NoKey
  <2>4. CASE GetStats(t)
    BY <2>4 DEF GetStats, Locked, Goto, flags, table, disk, batch, locals,
       Types, ActivePcs, IdlePcs, ReaderPcs, DeleterPcs, BatchPcs, WriterPcs,
       SwapOutPcs, FilesFollow, KeyHeld, WriterOwnsKey, ReadersHaveEntry,
       DeleterIsAlone, BatchIsAlone, DoorShut, Active, NoKey
  <2>5. CASE CollectRemovableEntries(t)
    <3>1. /\ \A u \in Threads : pc[u] \notin ActivePcs
          /\ \A u \in Threads : todo[u] = {} /\ kept[u] = {}
      BY <2>5, NobodyInside DEF CollectRemovableEntries, BatchIsAlone,
         ActivePcs,
         BatchPcs
    <3>2. \A j \in Keys : status[j] # "removing"
      BY <3>1 DEF RemovingHasOwner, ActivePcs, ReaderPcs, DeleterPcs, BatchPcs
    <3>3. /\ \A u \in Threads : pc'[u] = IF u = t THEN "unlinkAll" ELSE pc[u]
          /\ \A u \in Threads : u # t => todo'[u] = {}
          /\ \A j \in Keys : j \in todo'[t] <=> status[j] # "absent"
          /\ todo'[t] \subseteq Keys
          /\ kept' = kept /\ UNCHANGED <<disk, dataSize, opKey, opSize>>
          /\ \A j \in Keys : status'[j] # "active"
      BY <3>1, <2>5 DEF CollectRemovableEntries, Locked, Goto, Types
    <3>4. \A u \in Threads : pc'[u] \notin ReaderPcs \cup {"unlink", "revive", "rename", "commit"}
      BY <3>1, <3>3 DEF ReaderPcs, ActivePcs
    <3>5. \A j \in todo'[t] : file'[j] = "swap" /\ fileSize'[j] = dataSize'[j]
      BY <3>2, <3>3 DEF FilesFollow, Types, disk
    <3>. QED
      BY <3>1, <3>3, <3>4, <3>5 DEF FilesFollow
  <2>6. ASSUME NEW n \in Sizes, PrepareForSwapOut(t, n)
        PROVE  FilesFollow'
    BY <2>6 DEF PrepareForSwapOut, Locked, Goto, flags, disk, batch, Types,
       ActivePcs, IdlePcs, ReaderPcs, DeleterPcs, BatchPcs, WriterPcs,
       SwapOutPcs, FilesFollow, KeyHeld, WriterOwnsKey, ReadersHaveEntry,
       DeleterIsAlone, BatchIsAlone, DoorShut, Active, NoKey
  <2>7. ASSUME NEW k \in Keys, PrepareForSwapIn(t, k)
        PROVE  FilesFollow'
    BY <2>7 DEF PrepareForSwapIn, Locked, Goto, flags, table, disk, batch,
       Types, ActivePcs, IdlePcs, ReaderPcs, DeleterPcs, BatchPcs, WriterPcs,
       SwapOutPcs, FilesFollow, KeyHeld, WriterOwnsKey, ReadersHaveEntry,
       DeleterIsAlone, BatchIsAlone, DoorShut, Active, NoKey
  <2>8. ASSUME NEW k \in Keys, PrepareRemoveEntry(t, k)
        PROVE  FilesFollow'
    BY <2>8 DEF PrepareRemoveEntry, Locked, Goto, flags, disk, batch, Types,
       ActivePcs, IdlePcs, ReaderPcs, DeleterPcs, BatchPcs, WriterPcs,
       SwapOutPcs, FilesFollow, KeyHeld, WriterOwnsKey, ReadersHaveEntry,
       DeleterIsAlone, BatchIsAlone, DoorShut, Active, NoKey
  <2>9. CASE WaitForActiveOps(t)
    BY <2>9 DEF WaitForActiveOps, Locked, Goto, flags, table, disk, batch,
       locals, Types, ActivePcs, IdlePcs, ReaderPcs, DeleterPcs, BatchPcs,
       WriterPcs, SwapOutPcs, FilesFollow, KeyHeld, WriterOwnsKey,
       ReadersHaveEntry, DeleterIsAlone, BatchIsAlone, DoorShut, Active, NoKey
  <2>10. CASE WaitForActiveOpsTimeout(t)
    BY <2>10 DEF WaitForActiveOpsTimeout, Locked, Goto, flags, table, disk,
       batch, locals, Types, ActivePcs, IdlePcs, ReaderPcs, DeleterPcs, BatchPcs,
       WriterPcs, SwapOutPcs, FilesFollow, KeyHeld, WriterOwnsKey,
       ReadersHaveEntry, DeleterIsAlone, BatchIsAlone, DoorShut, Active, NoKey
  <2>11. CASE DestroyFinish(t)
    BY <2>11 DEF DestroyFinish, Locked, Goto, batch, locals, Erased, Types,
       ActivePcs, IdlePcs, ReaderPcs, DeleterPcs, BatchPcs, WriterPcs,
       SwapOutPcs, FilesFollow, KeyHeld, WriterOwnsKey, ReadersHaveEntry,
       DeleterIsAlone, BatchIsAlone, DoorShut, Active, NoKey
  <2>12. CASE DestroyBusy(t)
    BY <2>12 DEF DestroyBusy, Locked, Goto, table, disk, batch, locals, Types,
       ActivePcs, IdlePcs, ReaderPcs, DeleterPcs, BatchPcs, WriterPcs,
       SwapOutPcs, FilesFollow, KeyHeld, WriterOwnsKey, ReadersHaveEntry,
       DeleterIsAlone, BatchIsAlone, DoorShut, Active, NoKey
  <2>13. CASE WriteTmp(t)
    <3>. DEFINE w == opKey[t]
    <3>1. /\ w \in Keys /\ pc[t] = "write" /\ status[w] # "active"
          /\ \A u \in Threads \ {t} :
               pc[u] \in ReaderPcs \cup DeleterPcs \cup {"rename", "commit"} => opKey[u] # w
          /\ \A u \in Threads : w \notin todo[u] \cup gone[u] \cup kept[u]
      BY <2>13, NoKeyIsNone DEF WriteTmp, Goto, KeyHeld, WriterOwnsKey,
         ReadersHaveEntry,
         DeleterIsAlone, BatchIsAlone, ReaderPcs, DeleterPcs, BatchPcs, WriterPcs,
         SwapOutPcs, Types
    <3>2. /\ UNCHANGED <<status, dataSize, opKey, opSize, todo, kept>>
          /\ \A u \in Threads : u # t => pc'[u] = pc[u]
          /\ \A j \in Keys : j # w => file'[j] = file[j] /\ fileSize'[j] = fileSize[j]
          /\ \/ pc'[t] = "undo"
             \/ pc'[t] = "rename" /\ fileSize'[w] = opSize[t]
      BY <3>1, <2>13 DEF WriteTmp, Goto, Types, locals, batch, table, disk
    <3>. QED
      BY <3>1, <3>2 DEF FilesFollow, KeyHeld, ReaderPcs, DeleterPcs,
         WriterPcs, Types
  <2>14. CASE RenameTmp(t)
    BY <2>14 DEF RenameTmp, Goto, flags, table, batch, locals, Types,
       ActivePcs, IdlePcs, ReaderPcs, DeleterPcs, BatchPcs, WriterPcs,
       SwapOutPcs, FilesFollow, KeyHeld, WriterOwnsKey, ReadersHaveEntry,
       DeleterIsAlone, BatchIsAlone, DoorShut, Active, NoKey
  <2>15. CASE UndoTmp(t)
    <3>. DEFINE w == opKey[t]
    <3>1. /\ w \in Keys /\ pc[t] = "undo" /\ status[w] # "active"
          /\ \A u \in Threads \ {t} :
               pc[u] \in ReaderPcs \cup DeleterPcs \cup {"rename", "commit"} => opKey[u] # w
          /\ \A u \in Threads : w \notin todo[u] \cup gone[u] \cup kept[u]
      BY <2>15, NoKeyIsNone DEF UndoTmp, Goto, KeyHeld, WriterOwnsKey,
         ReadersHaveEntry,
         DeleterIsAlone, BatchIsAlone, ReaderPcs, DeleterPcs, BatchPcs, WriterPcs,
         SwapOutPcs, Types
    <3>2. /\ UNCHANGED <<status, dataSize, opKey, opSize, todo, kept>>
          /\ \A u \in Threads : u # t => pc'[u] = pc[u]
          /\ \A j \in Keys : j # w => file'[j] = file[j] /\ fileSize'[j] = fileSize[j]
          /\ pc'[t] = "cancel"
      BY <3>1, <2>15 DEF UndoTmp, Goto, Unlinked, Types, locals, batch, table,
         disk
    <3>. QED
      BY <3>1, <3>2 DEF FilesFollow, KeyHeld, ReaderPcs, DeleterPcs,
         WriterPcs, Types
  <2>16. CASE CommitSwapOutEntry(t)
    BY <2>16 DEF CommitSwapOutEntry, Locked, Goto, flags, disk, batch, locals,
       Types, ActivePcs, IdlePcs, ReaderPcs, DeleterPcs, BatchPcs, WriterPcs,
       SwapOutPcs, FilesFollow, KeyHeld, WriterOwnsKey, ReadersHaveEntry,
       DeleterIsAlone, BatchIsAlone, DoorShut, Active, NoKey
  <2>17. CASE LookupKeyForSwapIn(t)
    BY <2>17 DEF LookupKeyForSwapIn, Locked, Goto, flags, disk, batch, Types,
       ActivePcs, IdlePcs, ReaderPcs, DeleterPcs, BatchPcs, WriterPcs,
       SwapOutPcs, FilesFollow, KeyHeld, WriterOwnsKey, ReadersHaveEntry,
       DeleterIsAlone, BatchIsAlone, DoorShut, Active, NoKey
  <2>18. CASE FinishSwapIn(t)
    BY <2>18 DEF FinishSwapIn, Locked, Goto, flags, disk, batch, locals,
       Types, ActivePcs, IdlePcs, ReaderPcs, DeleterPcs, BatchPcs, WriterPcs,
       SwapOutPcs, FilesFollow, KeyHeld, WriterOwnsKey, ReadersHaveEntry,
       DeleterIsAlone, BatchIsAlone, DoorShut, Active, NoKey
  <2>19. CASE RemoveSwapFile(t)
    <3>. DEFINE w == opKey[t]
    <3>1. /\ w \in Keys /\ pc[t] = "unlink" /\ status[w] # "active"
          /\ \A u \in Threads \ {t} :
               pc[u] \in ReaderPcs \cup DeleterPcs \cup {"rename", "commit"} => opKey[u] # w
          /\ \A u \in Threads : w \notin todo[u] \cup gone[u] \cup kept[u]
      BY <2>19, NoKeyIsNone DEF RemoveSwapFile, Goto, KeyHeld, WriterOwnsKey,
         ReadersHaveEntry,
         DeleterIsAlone, BatchIsAlone, ReaderPcs, DeleterPcs, BatchPcs, WriterPcs,
         SwapOutPcs, Types
    <3>2. /\ UNCHANGED <<status, dataSize, opKey, opSize, todo, kept>>
          /\ \A u \in Threads : u # t => pc'[u] = pc[u]
          /\ \A j \in Keys : j # w => file'[j] = file[j] /\ fileSize'[j] = fileSize[j]
          /\ \/ pc'[t] = "erase"
             \/ pc'[t] = "revive" /\ file' = file /\ fileSize' = fileSize
      BY <3>1, <2>19 DEF RemoveSwapFile, Goto, Unlinked, Types, locals, batch,
         table, disk
    <3>. QED
      BY <3>1, <3>2 DEF FilesFollow, KeyHeld, ReaderPcs, DeleterPcs,
         WriterPcs, Types
  <2>20. CASE FinalizeRemoveEntry(t)
    BY <2>20 DEF FinalizeRemoveEntry, Locked, Goto, flags, disk, batch,
       locals, Erased, Types, ActivePcs, IdlePcs, ReaderPcs, DeleterPcs,
       BatchPcs, WriterPcs, SwapOutPcs, FilesFollow, KeyHeld, WriterOwnsKey,
       ReadersHaveEntry, DeleterIsAlone, BatchIsAlone, DoorShut, Active, NoKey
  <2>21. CASE UnlinkNext(t)
    <3>1. PICK w \in todo[t] :
            /\ pc[t] = "unlinkAll" /\ pc'[t] \in {"unlinkAll", "lockAll"}
            /\ \A u \in Threads : u # t => pc'[u] = pc[u]
            /\ UNCHANGED <<status, dataSize, opKey, opSize>>
            /\ \A j \in Keys : j # w => file'[j] = file[j] /\ fileSize'[j] = fileSize[j]
            /\ \A u \in Threads : u # t => todo'[u] = todo[u] /\ kept'[u] = kept[u]
            /\ todo'[t] = todo[t] \ {w}
            /\ \/ kept'[t] = kept[t]
               \/ kept'[t] = kept[t] \cup {w} /\ file' = file /\ fileSize' = fileSize
      BY <2>21, SMTT(30) DEF UnlinkNext, Goto, Unlinked, Types, table, disk
    <3>2. /\ w \in Keys /\ status[w] = "removing" /\ w \notin kept[t]
          /\ \A u \in Threads \ {t} :
               /\ pc[u] \notin ReaderPcs \cup DeleterPcs \cup BatchPcs
               /\ pc[u] \notin {"rename", "commit"}
               /\ todo[u] = {} /\ kept[u] = {}
      BY <3>1, NoKeyIsNone DEF BatchIsAlone, KeyHeld, BatchPcs, WriterPcs,
         SwapOutPcs,
         Types
    <3>. QED
      BY <3>1, <3>2 DEF FilesFollow, ReaderPcs, DeleterPcs, BatchPcs, Types
  <2>22. CASE FinalizeNext(t)
    BY <2>22 DEF FinalizeNext, Goto, flags, disk, Erased, Types, ActivePcs,
       IdlePcs, ReaderPcs, DeleterPcs, BatchPcs, WriterPcs, SwapOutPcs,
       FilesFollow, KeyHeld, WriterOwnsKey, ReadersHaveEntry, DeleterIsAlone,
       BatchIsAlone, DoorShut, Active, NoKey
  <2>23. CASE FinalizeRemoveAll(t)
    BY <2>23 DEF FinalizeRemoveAll, Goto, table, disk, batch, locals, Types,
       ActivePcs, IdlePcs, ReaderPcs, DeleterPcs, BatchPcs, WriterPcs,
       SwapOutPcs, FilesFollow, KeyHeld, WriterOwnsKey, ReadersHaveEntry,
       DeleterIsAlone, BatchIsAlone, DoorShut, Active, NoKey
  <2>24. CASE EndOperation(t)
    BY <2>24 DEF EndOperation, Locked, Goto, flags, table, disk, batch, Types,
       ActivePcs, IdlePcs, ReaderPcs, DeleterPcs, BatchPcs, WriterPcs,
       SwapOutPcs, FilesFollow, KeyHeld, WriterOwnsKey, ReadersHaveEntry,
       DeleterIsAlone, BatchIsAlone, DoorShut, Active, NoKey
  <2>. QED
    BY MovesSteps, <1>2, <2>1, <2>2, <2>3, <2>4, <2>5, <2>6, <2>7, <2>8, <2>9,
       <2>10, <2>11, <2>12, <2>13, <2>14, <2>15, <2>16, <2>17, <2>18, <2>19,
       <2>20, <2>21, <2>22, <2>23, <2>24 DEF Step, Call, Progress
<1>. QED
  BY <1>1, <1>2 DEF Next

\* Destroy takes the session away only behind a closed door.
LEMMA DoorShutNext ==
    ASSUME Types, OpsCounted, DoorShut, OneDestroying, [Next]_vars
    PROVE  DoorShut'
<1>1. CASE UNCHANGED vars
  BY <1>1 DEF vars, flags, table, disk, batch, locals, DoorShut, Active
<1>2. ASSUME NEW t \in Threads, Step(t)
      PROVE  DoorShut'
  <2>1. CASE Moves(t)
    BY <2>1 DEF Moves, Goto, flags, table, disk, batch, locals, Types,
       DoorShut, Active, ActivePcs, IdlePcs, AfterRefresh, Arrows,
       OneDestroying, DestroyPcs
  <2>2. CASE InitManager(t)
    BY <2>2 DEF InitManager, table, disk, batch, locals, Types, DoorShut,
       Active, ActivePcs, IdlePcs, OneDestroying, DestroyPcs
  <2>3. CASE DestroyBegin(t)
    BY <2>3 DEF DestroyBegin, Locked, Goto, table, disk, batch, locals, Types,
       DoorShut, Active, ActivePcs, IdlePcs, OneDestroying, DestroyPcs
  <2>4. CASE GetStats(t)
    BY <2>4 DEF GetStats, Locked, Goto, flags, table, disk, batch, locals,
       Types, DoorShut, Active, ActivePcs, IdlePcs, Accepting, OneDestroying, DestroyPcs
  <2>5. CASE CollectRemovableEntries(t)
    BY <2>5 DEF CollectRemovableEntries, Locked, Goto, disk, Types, DoorShut,
       Active, ActivePcs, IdlePcs, Accepting, OneDestroying, DestroyPcs
  <2>6. ASSUME NEW n \in Sizes, PrepareForSwapOut(t, n)
        PROVE  DoorShut'
    BY <2>6 DEF PrepareForSwapOut, Locked, Goto, flags, disk, batch, Types,
       DoorShut, Active, ActivePcs, IdlePcs, Accepting, OneDestroying, DestroyPcs
  <2>7. ASSUME NEW k \in Keys, PrepareForSwapIn(t, k)
        PROVE  DoorShut'
    BY <2>7 DEF PrepareForSwapIn, Locked, Goto, flags, table, disk, batch,
       Types, DoorShut, Active, ActivePcs, IdlePcs, Accepting, OneDestroying, DestroyPcs
  <2>8. ASSUME NEW k \in Keys, PrepareRemoveEntry(t, k)
        PROVE  DoorShut'
    BY <2>8 DEF PrepareRemoveEntry, Locked, Goto, flags, disk, batch, Types,
       DoorShut, Active, ActivePcs, IdlePcs, Accepting, OneDestroying, DestroyPcs
  <2>9. CASE WaitForActiveOps(t)
    BY <2>9, NobodyInside DEF DestroyPcs, WaitForActiveOps, Locked, Goto, flags,
       table,
       disk, batch, locals, Types, DoorShut, Active, ActivePcs, IdlePcs
  <2>10. CASE WaitForActiveOpsTimeout(t)
    BY <2>10 DEF WaitForActiveOpsTimeout, Locked, Goto, flags, table, disk,
       batch, locals, Types, DoorShut, Active, ActivePcs, IdlePcs,
       OneDestroying, DestroyPcs
  <2>11. CASE DestroyFinish(t)
    BY <2>11 DEF DestroyFinish, Locked, Goto, batch, locals, Types, DoorShut,
       Active, ActivePcs, IdlePcs, OneDestroying, DestroyPcs
  <2>12. CASE DestroyBusy(t)
    BY <2>12 DEF DestroyBusy, Locked, Goto, table, disk, batch, locals, Types,
       DoorShut, Active, ActivePcs, IdlePcs, OneDestroying, DestroyPcs
  <2>13. CASE WriteTmp(t)
    BY <2>13 DEF WriteTmp, Goto, flags, table, disk, batch, locals, Types,
       DoorShut, Active, ActivePcs, IdlePcs, OneDestroying, DestroyPcs
  <2>14. CASE RenameTmp(t)
    BY <2>14 DEF RenameTmp, Goto, flags, table, batch, locals, Types,
       DoorShut, Active, ActivePcs, IdlePcs, OneDestroying, DestroyPcs
  <2>15. CASE UndoTmp(t)
    BY <2>15 DEF UndoTmp, Goto, flags, table, disk, batch, locals, Types,
       DoorShut, Active, ActivePcs, IdlePcs, OneDestroying, DestroyPcs
  <2>16. CASE CommitSwapOutEntry(t)
    BY <2>16 DEF CommitSwapOutEntry, Locked, Goto, flags, disk, batch, locals,
       Types, DoorShut, Active, ActivePcs, IdlePcs, OneDestroying, DestroyPcs
  <2>17. CASE LookupKeyForSwapIn(t)
    BY <2>17 DEF LookupKeyForSwapIn, Locked, Goto, flags, disk, batch, Types,
       DoorShut, Active, ActivePcs, IdlePcs, OneDestroying, DestroyPcs
  <2>18. CASE FinishSwapIn(t)
    BY <2>18 DEF FinishSwapIn, Locked, Goto, flags, disk, batch, locals,
       Types, DoorShut, Active, ActivePcs, IdlePcs, OneDestroying, DestroyPcs
  <2>19. CASE RemoveSwapFile(t)
    BY <2>19 DEF RemoveSwapFile, Goto, flags, table, disk, batch, locals,
       Types, DoorShut, Active, ActivePcs, IdlePcs, OneDestroying, DestroyPcs
  <2>20. CASE FinalizeRemoveEntry(t)
    BY <2>20 DEF FinalizeRemoveEntry, Locked, Goto, flags, disk, batch,
       locals, Types, DoorShut, Active, ActivePcs, IdlePcs, OneDestroying, DestroyPcs
  <2>21. CASE UnlinkNext(t)
    BY <2>21 DEF UnlinkNext, Goto, flags, table, disk, Types, DoorShut,
       Active, ActivePcs, IdlePcs, OneDestroying, DestroyPcs
  <2>22. CASE FinalizeNext(t)
    BY <2>22 DEF FinalizeNext, Goto, flags, disk, Types, DoorShut, Active,
       ActivePcs, IdlePcs, OneDestroying, DestroyPcs
  <2>23. CASE FinalizeRemoveAll(t)
    BY <2>23 DEF FinalizeRemoveAll, Goto, table, disk, batch, locals, Types,
       DoorShut, Active, ActivePcs, IdlePcs, OneDestroying, DestroyPcs
  <2>24. CASE EndOperation(t)
    BY <2>24 DEF EndOperation, Locked, Goto, flags, table, disk, batch, Types,
       DoorShut, Active, ActivePcs, IdlePcs, OneDestroying, DestroyPcs
  <2>. QED
    BY MovesSteps, <1>2, <2>1, <2>2, <2>3, <2>4, <2>5, <2>6, <2>7, <2>8, <2>9,
       <2>10, <2>11, <2>12, <2>13, <2>14, <2>15, <2>16, <2>17, <2>18, <2>19,
       <2>20, <2>21, <2>22, <2>23, <2>24 DEF Step, Call, Progress
<1>. QED
  BY <1>1, <1>2 DEF Next

-----------------------------------------------------------------------------
(* The theorems.                                                           *)

\* The initial state satisfies every part of the invariant.
LEMMA InitIInv == Init => IInv
<1>. SUFFICES ASSUME Init PROVE IInv
  OBVIOUS
<1>0. nextKeyId \in 1 .. MaxKey + 1
  BY ManagerConstants DEF Init
<1>1. Types
  <2>1. pc \in [Threads -> ActivePcs \cup IdlePcs]
    BY DEF Init, IdlePcs
  <2>2. /\ opKey \in [Threads -> Keys \cup {NoKey}] /\ opSize \in [Threads -> Nat]
        /\ todo \in [Threads -> SUBSET Keys] /\ gone \in [Threads -> SUBSET Keys]
        /\ kept \in [Threads -> SUBSET Keys]
    BY DEF Init
  <2>3. /\ status \in [Keys -> {"absent", "active", "removing"}]
        /\ readCount \in [Keys -> Int] /\ dataSize \in [Keys -> Nat]
        /\ file \in [Keys -> {"none", "tmp", "swap"}] /\ fileSize \in [Keys -> Nat]
    BY DEF Init
  <2>4. /\ initialized \in BOOLEAN /\ shuttingDown \in BOOLEAN
        /\ removeAllInProgress \in BOOLEAN
    BY Zenon DEF Init
  <2>5. activeOps \in Int
    BY DEF Init
  <2>6. session \in [dir: BOOLEAN, lock: BOOLEAN]
    BY DEF Init
  <2>. QED
    BY <1>0, <2>1, <2>2, <2>3, <2>4, <2>5, <2>6 DEF Types
<1>2. ControlTypes
  BY InitTypes DEF Init, ControlTypes, NotRefreshing
<1>3. Active = {} /\ \A k \in Keys : Readers(k) = {}
  BY DEF Init, Active, ActivePcs, Readers
<1>4. OpsCounted /\ ReadsCounted
  BY <1>3, FS_EmptySet DEF Init, OpsCounted, ReadsCounted
<1>5. Discipline
  BY DEF Init, Discipline, KeyHeld, WriterOwnsKey, FreshKeysAbsent,
     ReadersHaveEntry, DeleterIsAlone, BatchIsAlone, RemovingHasOwner, ReaderPcs,
     DeleterPcs, BatchPcs, WriterPcs, SwapOutPcs
<1>6. FilesFollow
  BY DEF Init, FilesFollow, ReaderPcs
<1>7. DoorShut
  BY <1>3 DEF Init, DoorShut, DestroyPcs
<1>. QED
  BY <1>1, <1>2, <1>4, <1>5, <1>6, <1>7 DEF IInv

\* Every step preserves the invariant.
LEMMA NextIInv ==
    ASSUME IInv, OneDestroying, [Next]_vars
    PROVE  IInv'
<1>. USE DEF IInv, Discipline
<1>1. Types' /\ ControlTypes'
  BY TypesNext, ControlTypesNext
<1>2. OpsCounted' /\ ReadsCounted'
  BY OpsNext, ReadsNext
<1>3. KeyHeld' /\ WriterOwnsKey' /\ FreshKeysAbsent' /\ ReadersHaveEntry'
  BY KeyHeldNext, WriterOwnsKeyNext, ReadersHaveEntryNext
<1>4. DeleterIsAlone' /\ BatchIsAlone' /\ RemovingHasOwner'
  BY DeleterIsAloneNext, BatchIsAloneNext, RemovingHasOwnerNext
<1>5. FilesFollow'
  BY FilesFollowNext
<1>6. DoorShut'
  BY DoorShutNext
<1>. QED
  BY <1>1, <1>2, <1>3, <1>4, <1>5, <1>6

\* With one destroyer no two threads are inside Destroy.
LEMMA DestroyersAlone ==
    ASSUME AtMostOneDestroyer, DoorShut
    PROVE  OneDestroying
BY DEF AtMostOneDestroyer, DoorShut, OneDestroying

\* The invariant holds in every reachable state.
LEMMA InvariantHolds ==
    ASSUME AtMostOneDestroyer
    PROVE  Spec => []IInv
<1>1. IInv /\ [Next]_vars => IInv'
  BY DestroyersAlone, NextIInv DEF IInv
<1>. QED
  BY InitIInv, <1>1, PTL DEF Spec

\* The invariant implies each of the properties.
LEMMA TypeOKFromIInv == IInv => TypeOK
<1>. SUFFICES ASSUME IInv PROVE TypeOK
  OBVIOUS
<1>1. activeOps \in Nat
  BY ThreadSetsFinite DEF IInv, OpsCounted, Active
<1>2. \A k \in Keys : readCount[k] \in Nat
  BY ReaderCounts DEF IInv
<1>3. readCount \in [Keys -> Nat]
  BY <1>2 DEF IInv, Types
<1>. QED
  BY <1>1, <1>3 DEF IInv, Types, ControlTypes, TypeOK

\* A key marked REMOVING has one deleter, or readers and no deleter.
LEMMA RemovingIsOwnedFromIInv == IInv => RemovingIsOwned
<1>1. ASSUME IInv, NEW k \in Keys, status[k] = "removing"
      PROVE  \/ Readers(k) # {} /\ Deleters(k) = {}
             \/ Readers(k) = {} /\ Cardinality(Deleters(k)) = 1
  <2>. USE <1>1
  <2>1. PICK t \in Threads :
            \/ pc[t] \in ReaderPcs \cup DeleterPcs /\ opKey[t] = k
            \/ pc[t] \in BatchPcs
    BY DEF IInv, Discipline, RemovingHasOwner
  <2>2. CASE pc[t] \in BatchPcs
    <3>1. Readers(k) = {} /\ Deleters(k) = {t}
      BY <2>2 DEF IInv, Discipline, BatchIsAlone, BatchPcs, ReaderPcs, DeleterPcs,
         Readers, Deleters
    <3>. QED
      BY <3>1, FS_Singleton
  <2>3. CASE pc[t] \notin BatchPcs /\ \A u \in Threads : pc[u] \notin BatchPcs
    <3>1. \A u \in Threads : todo[u] = {} /\ gone[u] = {} /\ kept[u] = {}
      BY <2>3 DEF IInv, Discipline, BatchIsAlone
    <3>2. CASE pc[t] \in ReaderPcs
      <4>1. t \in Readers(k)
        BY <2>1, <2>3, <3>2 DEF Readers, ReaderPcs, DeleterPcs
      <4>2. Deleters(k) = {}
        BY <2>1, <2>3, <3>1, <3>2 DEF IInv, Discipline, DeleterIsAlone, ReaderPcs,
           DeleterPcs, Deleters
      <4>. QED
        BY <4>1, <4>2
    <3>3. CASE pc[t] \in DeleterPcs
      <4>1. Readers(k) = {} /\ Deleters(k) = {t}
        BY <2>1, <2>3, <3>1, <3>3 DEF IInv, Discipline, DeleterIsAlone, ReaderPcs,
           DeleterPcs, Deleters, Readers
      <4>. QED
        BY <4>1, FS_Singleton
    <3>. QED
      BY <2>1, <2>3, <3>2, <3>3
  <2>4. ASSUME NEW u \in Threads, pc[u] \in BatchPcs
        PROVE  pc[t] \in BatchPcs
    BY <2>1, <2>4 DEF IInv, Discipline, BatchIsAlone
  <2>. QED
    BY <2>2, <2>3, <2>4
<1>. QED
  BY <1>1 DEF RemovingIsOwned

\* With nobody inside, no key is marked and none is read.
LEMMA QuiescentFromIInv == IInv => QuiescentConsistent
<1>1. ASSUME IInv, activeOps = 0
      PROVE  /\ ~removeAllInProgress
             /\ \A k \in Keys :
                \/ status[k] = "absent"
                \/ status[k] = "active" /\ readCount[k] = 0 /\ file[k] = "swap"
  <2>1. \A u \in Threads : pc[u] \notin ReaderPcs \cup DeleterPcs \cup BatchPcs
    BY <1>1, NobodyInside DEF IInv, ActivePcs, ReaderPcs, DeleterPcs, BatchPcs
  <2>2. ~removeAllInProgress /\ \A k \in Keys : status[k] # "removing"
    BY <1>1, <2>1 DEF IInv, Discipline, RemovingHasOwner
  <2>3. \A k \in Keys : readCount[k] = 0
    BY <1>1, <2>1, ReaderCounts DEF IInv
  <2>. QED
    BY <1>1, <2>2, <2>3 DEF IInv, Types, FilesFollow
<1>. QED
  BY <1>1 DEF QuiescentConsistent

\* All of them together, for the specifications that use the manager.
LEMMA IInvImplies ==
    IInv => TypeOK /\ SessionOutlivesOps /\ ReadersKeepFile
            /\ RemovingIsOwned /\ QuiescentConsistent
<1>1. IInv => SessionOutlivesOps
  BY DEF IInv, DoorShut, SessionOutlivesOps
<1>2. IInv => ReadersKeepFile
  BY DEF IInv, FilesFollow, ReadersKeepFile, Readers, ReaderPcs
<1>. QED
  BY <1>1, <1>2, TypeOKFromIInv, RemovingIsOwnedFromIInv, QuiescentFromIInv

\* The variables keep their types; in particular the unsigned activeOps_ and
\* readCount are never decremented below zero.
THEOREM TypeCorrect ==
    ASSUME AtMostOneDestroyer
    PROVE  Spec => []TypeOK
BY InvariantHolds, IInvImplies, PTL

\* Destroy takes the session directory, its lock and the entry table away only
\* when no call is inside the manager, however many threads there are.
THEOREM SessionSafe ==
    ASSUME AtMostOneDestroyer
    PROVE  Spec => []SessionOutlivesOps
BY InvariantHolds, IInvImplies, PTL

\* A swap file is whole and in place while its key can be read or a SwapIn is on
\* it, whatever RemoveData, RemoveAllData and other SwapIns do meanwhile.
THEOREM ReadersSafe ==
    ASSUME AtMostOneDestroyer
    PROVE  Spec => []ReadersKeepFile
BY InvariantHolds, IInvImplies, PTL

\* A key marked REMOVING always has exactly one thread that will delete it, or
\* readers of which the last one will.
THEOREM RemovalOwned ==
    ASSUME AtMostOneDestroyer
    PROVE  Spec => []RemovingIsOwned
BY InvariantHolds, IInvImplies, PTL

\* With no call under way nothing is half done: every key is active, unread and
\* on disk, and RemoveAllData has ended.
THEOREM QuiescentSafe ==
    ASSUME AtMostOneDestroyer
    PROVE  Spec => []QuiescentConsistent
BY InvariantHolds, IInvImplies, PTL

-----------------------------------------------------------------------------
(* The manager implements SwapStore: every step of a thread is a step of   *)
(* the store or leaves it alone.                                           *)

\* The keys nobody has seen yet, and what the store makes of a key.
Unborn ==
    {k \in Keys : \/ k >= nextKeyId
                  \/ \E u \in Threads : opKey[u] = k /\ pc[u] \in SwapOutPcs}

StoreState(s, unborn) ==
    IF s = "active" THEN "live"
    ELSE IF s = "removing" THEN "doomed"
    ELSE IF unborn THEN "unborn" ELSE "gone"

-----------------------------------------------------------------------------
\* The refinement mapping in terms of the entry's status.
LEMMA StateOfIs ==
    ASSUME Types, NEW k \in Keys
    PROVE  StateOf(k) = StoreState(status[k], k \in Unborn)
BY DEF Types, StateOf, StoreState, Unborn

\* The same in the next state.
LEMMA StateOfIsNext ==
    ASSUME Types', NEW k \in Keys
    PROVE  StateOf(k)' = StoreState(status'[k], k \in Unborn')
BY DEF Types, StateOf, StoreState, Unborn

\* A step that changes neither a status nor the unborn keys nor the readers is
\* none of the store's.
LEMMA StoreKept ==
    ASSUME Types, Types', status' = status, Unborn' = Unborn,
           \A k \in Keys : Readers(k)' = Readers(k)
    PROVE  UNCHANGED Store!storeVars
<1>1. \A k \in Keys : StateOf(k)' = StateOf(k)
  BY StateOfIs, StateOfIsNext
<1>. QED
  BY <1>1 DEF Store!storeVars

\* The keys of S become s, the others stay what they are.
LEMMA StoreBecomes ==
    ASSUME Types, Types', NEW S \in SUBSET Keys, NEW s,
           \A k \in S : StoreState(status'[k], k \in Unborn') = s,
           \A k \in Keys \ S : status'[k] = status[k] /\ (k \in Unborn' <=> k \in Unborn),
           \A k \in Keys : Readers(k)' = Readers(k)
    PROVE  /\ Store!Become(S, s)
           /\ [k \in Keys |-> Readers(k)]' = [k \in Keys |-> Readers(k)]
<1>1. \A k \in S : StateOf(k)' = s
  BY StateOfIsNext
<1>2. \A k \in Keys \ S : StateOf(k)' = StateOf(k)
  <2>. SUFFICES ASSUME NEW k \in Keys \ S PROVE StateOf(k)' = StateOf(k)
    OBVIOUS
  <2>1. StateOf(k) = StoreState(status[k], k \in Unborn) /\ StateOf(k)' = StoreState(status'[k], k \in Unborn')
    BY StateOfIs, StateOfIsNext
  <2>. QED
    BY <2>1 DEF StoreState
<1>. QED
  BY <1>1, <1>2 DEF Store!Become

-----------------------------------------------------------------------------
(* One step of a thread.                                                   *)

\* A step that moves its thread and keeps its key, and stays outside SwapOut or
\* inside, keeps the unborn keys; leaving SwapOut takes the thread's key off them.
LEMMA UnbornMove ==
    ASSUME Types, NEW t \in Threads, NEW from, NEW to, Goto(t, from, to),
           opKey' = opKey, nextKeyId' = nextKeyId
    PROVE  /\ (from \in SwapOutPcs <=> to \in SwapOutPcs) => Unborn' = Unborn
           /\ opKey[t] \notin Keys => Unborn' = Unborn
           /\ \A k \in Keys : k # opKey[t] => (k \in Unborn' <=> k \in Unborn)
BY DEF Types, Goto, Unborn

\* The key of a SwapOut is unborn as long as the SwapOut is under way, and nobody
\* else's afterwards.
LEMMA UnbornLeave ==
    ASSUME Types, WriterOwnsKey, NEW t \in Threads, NEW from, NEW to,
           Goto(t, from, to), opKey' = opKey, nextKeyId' = nextKeyId,
           from \in SwapOutPcs, to \notin SwapOutPcs, opKey[t] \in Keys
    PROVE  opKey[t] \in Unborn /\ opKey[t] \notin Unborn' /\ status[opKey[t]] = "absent"
BY NoKeyIsNone DEF Types, Goto, Unborn, WriterOwnsKey, Keys, NoKey

\* Moves of a thread are the store's stuttering steps, or a SwapOut that fails.
LEMMA MovesRefine ==
    ASSUME IInv, Types', NEW t \in Threads, Moves(t)
    PROVE  [Store!StoreNext]_Store!storeVars
<1>. USE DEF IInv, Discipline
<1>1. PICK from, to : Arrows(t, from, to) /\ Goto(t, from, to)
  BY DEF Moves
<1>2. /\ status' = status /\ nextKeyId' = nextKeyId /\ opKey' = opKey
      /\ opKey[t] \in Keys \cup {NoKey}
  BY DEF Moves, table, locals, Types
<1>3. \A k \in Keys : Readers(k)' = Readers(k)
  BY <1>1, <1>2 DEF Arrows, AfterRefresh, Goto, Types, Readers
<1>4. CASE from \in {"reserve", "cancel"} /\ to = "end"
  <2>. DEFINE k == opKey[t]
  <2>1. k \in Keys
    BY <1>1, <1>4 DEF KeyHeld, WriterPcs, Goto
  <2>2. k \in Unborn /\ k \notin Unborn' /\ status[k] = "absent"
    BY <1>1, <1>2, <1>4, <2>1, UnbornLeave DEF SwapOutPcs, WriterPcs
  <2>3. \A j \in Keys \ {k} : j \in Unborn' <=> j \in Unborn
    BY <1>1, <1>2, UnbornMove
  <2>. HIDE DEF k
  <2>4. StateOf(k) = "unborn" /\ StoreState(status'[k], k \in Unborn') = "gone"
    BY <1>2, <2>1, <2>2, StateOfIs DEF StoreState
  <2>5. Store!Become({k}, "gone") /\ [j \in Keys |-> Readers(j)]' = [j \in Keys |-> Readers(j)]
    BY <1>2, <1>3, <2>1, <2>3, <2>4, StoreBecomes
  <2>6. Store!Abandon(k)
    BY <2>1, <2>4, <2>5 DEF Store!Abandon
  <2>. QED
    BY <2>1, <2>6 DEF Store!StoreNext
<1>5. CASE ~(from \in {"reserve", "cancel"} /\ to = "end")
  <2>1. Unborn' = Unborn
    <3>1. \/ from \in SwapOutPcs <=> to \in SwapOutPcs
          \/ opKey[t] \notin Keys
      BY <1>1, <1>2, <1>5, NoKeyIsNone DEF Arrows, AfterRefresh, SwapOutPcs, WriterPcs
    <3>. QED
      BY <1>1, <1>2, <3>1, UnbornMove
  <2>. QED
    BY <1>2, <1>3, <2>1, StoreKept
<1>. QED
  BY <1>4, <1>5

\* A thread that moves without touching a key's status, neither into nor out of a
\* SwapOut or a read, is not seen by the store.
LEMMA PlainStep ==
    ASSUME Types, Types', NEW t \in Threads, NEW from, NEW to, Goto(t, from, to),
           status' = status, opKey' = opKey, nextKeyId' = nextKeyId,
           from \in SwapOutPcs <=> to \in SwapOutPcs,
           from \notin ReaderPcs, to \notin ReaderPcs
    PROVE  UNCHANGED Store!storeVars
BY UnbornMove, ReadersKept, StoreKept

\* The calls that do not work on a key, Destroy up to its last section, and the
\* steps on files.
LEMMA StutterSteps ==
    ASSUME IInv, Types', NEW t \in Threads
    PROVE  /\ InitManager(t) => UNCHANGED Store!storeVars
           /\ DestroyBegin(t) => UNCHANGED Store!storeVars
           /\ WaitForActiveOps(t) => UNCHANGED Store!storeVars
           /\ WaitForActiveOpsTimeout(t) => UNCHANGED Store!storeVars
           /\ DestroyBusy(t) => UNCHANGED Store!storeVars
           /\ WriteTmp(t) => UNCHANGED Store!storeVars
           /\ RenameTmp(t) => UNCHANGED Store!storeVars
           /\ UndoTmp(t) => UNCHANGED Store!storeVars
           /\ RemoveSwapFile(t) => UNCHANGED Store!storeVars
           /\ UnlinkNext(t) => UNCHANGED Store!storeVars
           /\ FinalizeRemoveAll(t) => UNCHANGED Store!storeVars
<1>. USE DEF IInv
<1>. DEFINE Plain(from, to) ==
        /\ Goto(t, from, to)
        /\ status' = status /\ opKey' = opKey /\ nextKeyId' = nextKeyId
<1>1. ASSUME InitManager(t) PROVE UNCHANGED Store!storeVars
  <2>1. status' = status /\ Unborn' = Unborn /\ \A k \in Keys : Readers(k)' = Readers(k)
    BY <1>1 DEF InitManager, table, locals, Unborn, Readers
  <2>. QED
    BY <2>1, StoreKept
<1>2. ASSUME NEW from, NEW to, Plain(from, to),
             \/ from \in IdlePcs /\ to \in IdlePcs
             \/ from \in {"write", "rename", "undo"} /\ to \in WriterPcs
             \/ from \in DeleterPcs /\ to \in DeleterPcs
             \/ from \in BatchPcs /\ to \in BatchPcs \cup {"end"}
      PROVE  UNCHANGED Store!storeVars
  <2>1. /\ from \in SwapOutPcs <=> to \in SwapOutPcs
        /\ from \notin ReaderPcs /\ to \notin ReaderPcs
    BY <1>2 DEF IdlePcs, WriterPcs, DeleterPcs, BatchPcs, SwapOutPcs, ReaderPcs
  <2>. QED
    BY <1>2, <2>1, PlainStep
<1>. HIDE DEF IInv
<1>3. ASSUME DestroyBegin(t) PROVE UNCHANGED Store!storeVars
  <2>1. Plain("idle", "waitOps")
    BY <1>3 DEF DestroyBegin, Locked, table, locals
  <2>. QED
    BY <2>1, <1>2 DEF IdlePcs
<1>4. ASSUME WaitForActiveOps(t) PROVE UNCHANGED Store!storeVars
  <2>1. Plain("waitOps", "teardown")
    BY <1>4 DEF WaitForActiveOps, Locked, table, locals
  <2>. QED
    BY <2>1, <1>2 DEF IdlePcs
<1>5. ASSUME WaitForActiveOpsTimeout(t) PROVE UNCHANGED Store!storeVars
  <2>1. Plain("waitOps", "busy")
    BY <1>5 DEF WaitForActiveOpsTimeout, Locked, table, locals
  <2>. QED
    BY <2>1, <1>2 DEF IdlePcs
<1>6. ASSUME DestroyBusy(t) PROVE UNCHANGED Store!storeVars
  <2>1. Plain("busy", "idle")
    BY <1>6 DEF DestroyBusy, Locked, table, locals
  <2>. QED
    BY <2>1, <1>2 DEF IdlePcs
<1>7. ASSUME WriteTmp(t) PROVE UNCHANGED Store!storeVars
  <2>1. Plain("write", "rename") \/ Plain("write", "undo")
    BY <1>7 DEF WriteTmp, table, locals
  <2>. QED
    BY <2>1, <1>2 DEF WriterPcs
<1>8. ASSUME RenameTmp(t) PROVE UNCHANGED Store!storeVars
  <2>1. Plain("rename", "commit") \/ Plain("rename", "undo")
    BY <1>8 DEF RenameTmp, table, locals
  <2>. QED
    BY <2>1, <1>2 DEF WriterPcs
<1>9. ASSUME UndoTmp(t) PROVE UNCHANGED Store!storeVars
  <2>1. Plain("undo", "cancel")
    BY <1>9 DEF UndoTmp, table, locals
  <2>. QED
    BY <2>1, <1>2 DEF WriterPcs
<1>10. ASSUME RemoveSwapFile(t) PROVE UNCHANGED Store!storeVars
  <2>1. Plain("unlink", "erase") \/ Plain("unlink", "revive")
    BY <1>10 DEF RemoveSwapFile, table, locals
  <2>. QED
    BY <2>1, <1>2 DEF DeleterPcs
<1>11. ASSUME UnlinkNext(t) PROVE UNCHANGED Store!storeVars
  <2>1. Plain("unlinkAll", "lockAll") \/ Plain("unlinkAll", "unlinkAll")
    BY <1>11 DEF UnlinkNext, table
  <2>. QED
    BY <2>1, <1>2 DEF BatchPcs
<1>12. ASSUME FinalizeRemoveAll(t) PROVE UNCHANGED Store!storeVars
  <2>1. Plain("finalizeAll", "end")
    BY <1>12 DEF FinalizeRemoveAll, table, locals
  <2>. QED
    BY <2>1, <1>2 DEF BatchPcs
<1>. QED
  BY <1>1, <1>3, <1>4, <1>5, <1>6, <1>7, <1>8, <1>9, <1>10, <1>11, <1>12

\* A call begins or ends, or a SwapIn finds its key gone: the thread's key changes
\* while it is neither reading nor in a SwapOut of a key.
LEMMA BeginEndSteps ==
    ASSUME IInv, Types', NEW t \in Threads
    PROVE  /\ GetStats(t) => UNCHANGED Store!storeVars
           /\ EndOperation(t) => UNCHANGED Store!storeVars
           /\ \A n \in Sizes : PrepareForSwapOut(t, n) => UNCHANGED Store!storeVars
           /\ \A k \in Keys : PrepareForSwapIn(t, k) => UNCHANGED Store!storeVars
<1>. USE DEF IInv, Discipline
<1>1. ASSUME GetStats(t) PROVE UNCHANGED Store!storeVars
  <2>1. /\ Goto(t, "idle", "refresh") /\ opKey' = opKey /\ nextKeyId' = nextKeyId
        /\ status' = status /\ opKey[t] = NoKey
    BY <1>1 DEF GetStats, Locked, table, locals, KeyHeld, IdlePcs, Goto
  <2>2. Unborn' = Unborn
    BY <2>1, NoKeyIsNone, UnbornMove
  <2>3. \A k \in Keys : Readers(k)' = Readers(k)
    BY <2>1, ReadersKept DEF ReaderPcs
  <2>. QED
    BY <2>1, <2>2, <2>3, StoreKept
<1>2. ASSUME EndOperation(t) PROVE UNCHANGED Store!storeVars
  <2>1. /\ Goto(t, "end", "idle") /\ nextKeyId' = nextKeyId /\ status' = status
        /\ opKey' = [opKey EXCEPT ![t] = NoKey]
    BY <1>2 DEF EndOperation, Locked, table
  <2>2. Unborn' = Unborn
    BY <2>1, NoKeyIsNone DEF Unborn, Goto, Types, SwapOutPcs, WriterPcs
  <2>3. \A k \in Keys : Readers(k)' = Readers(k)
    BY <2>1, ReadersKept DEF ReaderPcs, Types
  <2>. QED
    BY <2>1, <2>2, <2>3, StoreKept
<1>3. ASSUME NEW n \in Sizes, PrepareForSwapOut(t, n) PROVE UNCHANGED Store!storeVars
  <2>1. /\ Goto(t, "idle", "refresh") /\ nextKeyId' = nextKeyId + 1
        /\ nextKeyId \in Keys /\ status' = status
        /\ opKey' = [opKey EXCEPT ![t] = nextKeyId]
        /\ opKey[t] = NoKey
    BY <1>3 DEF PrepareForSwapOut, Locked, KeyHeld, IdlePcs, Goto
  <2>2. Unborn' = Unborn
    <3>1. pc'[t] \in SwapOutPcs /\ pc[t] \notin SwapOutPcs /\ opKey'[t] = nextKeyId
      BY <2>1 DEF Goto, Types, SwapOutPcs, WriterPcs
    <3>2. \A u \in Threads \ {t} : pc'[u] = pc[u] /\ opKey'[u] = opKey[u]
      BY <2>1 DEF Goto, Types
    <3>3. \A k \in Keys : k >= nextKeyId <=> k >= nextKeyId' \/ k = nextKeyId
      BY <2>1 DEF Keys, Types
    <3>. QED
      BY <3>1, <3>2, <3>3 DEF Unborn
  <2>3. \A k \in Keys : Readers(k)' = Readers(k)
    BY <2>1, ReadersKept DEF ReaderPcs, Types
  <2>. QED
    BY <2>1, <2>2, <2>3, StoreKept
<1>4. ASSUME NEW k \in Keys, PrepareForSwapIn(t, k) PROVE UNCHANGED Store!storeVars
  <2>1. /\ Goto(t, "idle", "lookup") /\ nextKeyId' = nextKeyId /\ status' = status
        /\ opKey' = [opKey EXCEPT ![t] = k]
    BY <1>4 DEF PrepareForSwapIn, Locked, table
  <2>2. Unborn' = Unborn
    BY <2>1 DEF Unborn, Goto, Types, SwapOutPcs, WriterPcs
  <2>3. \A j \in Keys : Readers(j)' = Readers(j)
    BY <2>1, ReadersKept DEF ReaderPcs, Types
  <2>. QED
    BY <2>1, <2>2, <2>3, StoreKept
<1>. QED
  BY <1>1, <1>2, <1>3, <1>4

-----------------------------------------------------------------------------
(* The steps that the store sees.                                          *)

\* A SwapOut that succeeds creates its key.
LEMMA CommitCreates ==
    ASSUME IInv, Types', NEW t \in Threads, CommitSwapOutEntry(t)
    PROVE  Store!StoreNext
<1>. USE DEF IInv, Discipline
<1>. DEFINE k == opKey[t]
<1>1. /\ Goto(t, "commit", "end") /\ opKey' = opKey /\ nextKeyId' = nextKeyId
      /\ status' = [status EXCEPT ![k] = "active"]
  BY DEF CommitSwapOutEntry, Locked, locals
<1>2. k \in Keys
  BY <1>1 DEF KeyHeld, WriterPcs, Goto
<1>3. k \in Unborn /\ status[k] = "absent"
  BY <1>1, <1>2, UnbornLeave DEF SwapOutPcs, WriterPcs
<1>4. /\ \A j \in Keys \ {k} : status'[j] = status[j] /\ (j \in Unborn' <=> j \in Unborn)
      /\ \A j \in Keys : Readers(j)' = Readers(j)
  BY <1>1, UnbornMove, ReadersKept DEF ReaderPcs, Types
<1>. HIDE DEF k
<1>5. StateOf(k) = "unborn" /\ StoreState(status'[k], k \in Unborn') = "live"
  BY <1>1, <1>2, <1>3, StateOfIs DEF StoreState, Types
<1>6. Store!Create(k)
  BY <1>2, <1>4, <1>5, StoreBecomes DEF Store!Create
<1>. QED
  BY <1>2, <1>6 DEF Store!StoreNext

\* A SwapIn takes its key while it lives, or ends without it.
LEMMA LookupReads ==
    ASSUME IInv, Types', NEW t \in Threads, LookupKeyForSwapIn(t)
    PROVE  [Store!StoreNext]_Store!storeVars
<1>. USE DEF IInv, Discipline
<1>. DEFINE k == opKey[t]
<1>0. /\ pc[t] = "lookup" /\ opKey' = opKey /\ nextKeyId' = nextKeyId /\ status' = status
      /\ IF status[k] = "active" THEN Goto(t, "lookup", "read") ELSE Goto(t, "lookup", "end")
  BY DEF LookupKeyForSwapIn, Locked
<1>1. k \in Keys
  BY <1>0 DEF KeyHeld
<1>2. CASE status[k] = "active"
  <2>1. Goto(t, "lookup", "read")
    BY <1>0, <1>2
  <2>2. Unborn' = Unborn
    BY <1>0, <2>1, UnbornMove DEF SwapOutPcs, WriterPcs
  <2>3. \A j \in Keys : StateOf(j)' = StateOf(j)
    BY <1>0, <2>2, StateOfIs, StateOfIsNext
  <2>4. StateOf(k) = "live"
    BY <1>1, <1>2, StateOfIs DEF StoreState
  <2>5. t \notin Readers(k)
    BY <1>0 DEF Readers
  <2>6. \A j \in Keys : Readers(j)' = IF j = k THEN Readers(j) \cup {t} ELSE Readers(j)
    BY <1>0, <2>1 DEF Readers, Goto, Types
  <2>7. Store!ReadBegin(t, k)
    BY <1>1, <2>3, <2>4, <2>5, <2>6 DEF Store!ReadBegin
  <2>. QED
    BY <1>1, <2>7 DEF Store!StoreNext
<1>3. CASE status[k] # "active"
  BY <1>0, <1>3, PlainStep DEF SwapOutPcs, WriterPcs, ReaderPcs
<1>. QED
  BY <1>2, <1>3

\* A SwapIn gives its key back.
LEMMA FinishEndsRead ==
    ASSUME IInv, Types', NEW t \in Threads, FinishSwapIn(t)
    PROVE  Store!StoreNext
<1>. USE DEF IInv, Discipline
<1>. DEFINE k == opKey[t]
<1>1. PICK to \in {"unlink", "end"} :
        /\ Goto(t, "finish", to)
        /\ opKey' = opKey /\ nextKeyId' = nextKeyId /\ status' = status
  BY DEF FinishSwapIn, Locked, locals
<1>2. k \in Keys
  BY <1>1 DEF KeyHeld, ReaderPcs, Goto
<1>3. Unborn' = Unborn
  BY <1>1, UnbornMove DEF SwapOutPcs, WriterPcs
<1>4. \A j \in Keys : StateOf(j)' = StateOf(j)
  BY <1>1, <1>3, StateOfIs, StateOfIsNext
<1>5. t \in Readers(k)
  BY <1>1 DEF Readers, Goto
<1>6. \A j \in Keys : Readers(j)' = IF j = k THEN Readers(j) \ {t} ELSE Readers(j)
  BY <1>1 DEF Readers, Goto, Types
<1>7. Store!ReadEnd(t, k)
  BY <1>2, <1>4, <1>5, <1>6 DEF Store!ReadEnd
<1>. QED
  BY <1>2, <1>7 DEF Store!StoreNext

\* RemoveData dooms its key, with readers on it or without.
LEMMA RemoveDooms ==
    ASSUME IInv, Types', NEW t \in Threads, NEW k \in Keys, PrepareRemoveEntry(t, k)
    PROVE  Store!StoreNext
<1>. USE DEF IInv, Discipline
<1>1. PICK to \in {"unlink", "idle"} :
        /\ Goto(t, "idle", to)
        /\ \A u \in Threads \ {t} : opKey'[u] = opKey[u]
        /\ nextKeyId' = nextKeyId /\ status[k] = "active"
        /\ status' = [status EXCEPT ![k] = "removing"]
  BY DEF PrepareRemoveEntry, Locked, Types
<1>2. /\ \A j \in Keys \ {k} : status'[j] = status[j] /\ (j \in Unborn' <=> j \in Unborn)
      /\ \A j \in Keys : Readers(j)' = Readers(j)
  <2>1. \A j \in Keys : Readers(j)' = Readers(j)
    BY <1>1, ReadersKept DEF ReaderPcs
  <2>2. \A j \in Keys \ {k} : status'[j] = status[j]
    BY <1>1 DEF Types
  <2>3. Unborn' = Unborn
    BY <1>1 DEF Unborn, Goto, Types, SwapOutPcs, WriterPcs
  <2>. QED
    BY <2>1, <2>2, <2>3
<1>3. StateOf(k) = "live" /\ StoreState(status'[k], k \in Unborn') = "doomed"
  BY <1>1, StateOfIs DEF StoreState, Types
<1>4. Store!Doom({k})
  BY <1>2, <1>3, StoreBecomes DEF Store!Doom
<1>. QED
  BY <1>4 DEF Store!StoreNext

\* A key marked REMOVING was handed out and is in no SwapOut.
LEMMA RemovingIsBorn ==
    ASSUME IInv, NEW k \in Keys, status[k] # "absent"
    PROVE  k \notin Unborn
BY NoKeyIsNone DEF IInv, Discipline, Types, WriterOwnsKey, FreshKeysAbsent, Unborn, NoKey, Keys

\* A doomed key without readers is deleted or lives again.
LEMMA Settles ==
    ASSUME IInv, Types', NEW k \in Keys, status[k] = "removing", Readers(k) = {},
           \A j \in Keys : Readers(j)' = Readers(j),
           Unborn' = Unborn,
           \A j \in Keys \ {k} : status'[j] = status[j],
           status'[k] \in {"absent", "active"}
    PROVE  Store!StoreNext
<1>1. k \notin Unborn
  BY RemovingIsBorn
<1>2. StateOf(k) = "doomed"
  BY StateOfIs DEF StoreState, IInv
<1>3. CASE status'[k] = "absent"
  <2>1. StoreState(status'[k], k \in Unborn') = "gone"
    BY <1>1, <1>3 DEF StoreState
  <2>2. Store!Delete(k)
    BY <1>2, <2>1, StoreBecomes DEF Store!Delete, IInv
  <2>. QED
    BY <2>2 DEF Store!StoreNext
<1>4. CASE status'[k] = "active"
  <2>1. StoreState(status'[k], k \in Unborn') = "live"
    BY <1>4 DEF StoreState
  <2>2. Store!Revive(k)
    BY <1>2, <2>1, StoreBecomes DEF Store!Revive, IInv
  <2>. QED
    BY <2>2 DEF Store!StoreNext
<1>. QED
  BY <1>3, <1>4

\* The locked tail of RemoveData and FinishSwapIn.
LEMMA FinalizeSettles ==
    ASSUME IInv, Types', NEW t \in Threads, FinalizeRemoveEntry(t)
    PROVE  Store!StoreNext
<1>. USE DEF IInv, Discipline
<1>. DEFINE k == opKey[t]
<1>1. PICK from \in {"erase", "revive"} :
        /\ Goto(t, from, "end") /\ opKey' = opKey /\ nextKeyId' = nextKeyId
  BY DEF FinalizeRemoveEntry, Locked, locals
<1>2. k \in Keys /\ status[k] = "removing"
  BY <1>1 DEF KeyHeld, DeleterIsAlone, DeleterPcs, Goto
<1>3. Readers(k) = {}
  BY <1>1 DEF DeleterIsAlone, DeleterPcs, ReaderPcs, Readers, Goto
<1>4. /\ \A j \in Keys \ {k} : status'[j] = status[j]
      /\ status'[k] \in {"absent", "active"}
  BY <1>2 DEF FinalizeRemoveEntry, Erased, Types
<1>5. Unborn' = Unborn /\ \A j \in Keys : Readers(j)' = Readers(j)
  BY <1>1, UnbornMove, ReadersKept DEF ReaderPcs, SwapOutPcs, WriterPcs
<1>. HIDE DEF k
<1>. QED
  BY <1>2, <1>3, <1>4, <1>5, Settles

\* One turn of RemoveAllData's last loop.
LEMMA FinalizeNextSettles ==
    ASSUME IInv, Types', NEW t \in Threads, FinalizeNext(t)
    PROVE  Store!StoreNext
<1>. USE DEF IInv, Discipline
<1>1. /\ Goto(t, "finalizeAll", "finalizeAll") /\ opKey' = opKey /\ nextKeyId' = nextKeyId
  BY DEF FinalizeNext
<1>2. PICK k \in gone[t] \cup kept[t] :
        \/ status[k] = "absent" /\ status' = status
        \/ status[k] # "absent" /\ Erased({k})
        \/ status' = [status EXCEPT ![k] = IF @ = "absent" THEN "absent" ELSE "active"]
  BY DEF FinalizeNext
<1>3. k \in Keys /\ status[k] = "removing"
  BY <1>1, <1>2 DEF BatchIsAlone, BatchPcs, Goto, Types
<1>4. Readers(k) = {}
  BY <1>1 DEF BatchIsAlone, BatchPcs, ReaderPcs, Readers, Goto
<1>5. /\ \A j \in Keys \ {k} : status'[j] = status[j]
      /\ status'[k] \in {"absent", "active"}
  BY <1>2, <1>3 DEF Erased, Types
<1>6. Unborn' = Unborn /\ \A j \in Keys : Readers(j)' = Readers(j)
  BY <1>1, UnbornMove, ReadersKept DEF ReaderPcs, SwapOutPcs, WriterPcs
<1>. QED
  BY <1>3, <1>4, <1>5, <1>6, Settles

\* RemoveAllData dooms every key there is, none of which is half removed.
LEMMA CollectDooms ==
    ASSUME IInv, Types', NEW t \in Threads, CollectRemovableEntries(t)
    PROVE  Store!StoreNext
<1>. USE DEF IInv, Discipline
<1>. DEFINE all == {k \in Keys : status[k] # "absent"}
<1>1. /\ Goto(t, "idle", "unlinkAll") /\ opKey' = opKey /\ nextKeyId' = nextKeyId
      /\ activeOps = 0 /\ all # {}
      /\ status' = [k \in Keys |-> IF k \in all THEN "removing" ELSE status[k]]
  BY DEF CollectRemovableEntries, Locked
<1>2. \A u \in Threads : pc[u] \notin ReaderPcs \cup DeleterPcs \cup BatchPcs
  BY <1>1, NobodyInside DEF ActivePcs, ReaderPcs, DeleterPcs, BatchPcs
<1>3. \A k \in all : status[k] = "active"
  BY <1>2 DEF RemovingHasOwner, Types
<1>4. \A k \in all : StateOf(k) = "live" /\ StoreState(status'[k], k \in Unborn') = "doomed"
  BY <1>1, <1>3, StateOfIs DEF StoreState
<1>5. Unborn' = Unborn /\ \A j \in Keys : Readers(j)' = Readers(j)
  BY <1>1, UnbornMove, ReadersKept DEF ReaderPcs, SwapOutPcs, WriterPcs
<1>6. \A k \in Keys \ all : status'[k] = status[k]
  BY <1>1
<1>7. all \in SUBSET Keys
  OBVIOUS
<1>. HIDE DEF all
<1>8. Store!Doom(all)
  BY <1>1, <1>4, <1>5, <1>6, <1>7, StoreBecomes DEF Store!Doom
<1>. QED
  BY <1>7, <1>8 DEF Store!StoreNext

\* Destroy discards the keys that live; nobody reads or removes one then.
LEMMA DestroyDiscards ==
    ASSUME IInv, Types', NEW t \in Threads, DestroyFinish(t)
    PROVE  Store!StoreNext
<1>. USE DEF IInv, Discipline
<1>. DEFINE live == {k \in Keys : StateOf(k) = "live"}
<1>1. /\ Goto(t, "teardown", "idle") /\ opKey' = opKey /\ nextKeyId' = nextKeyId
      /\ \A k \in Keys : status'[k] = "absent"
  BY DEF DestroyFinish, Locked, locals, Erased
<1>2. Active = {}
  BY <1>1 DEF DoorShut, Goto
<1>3. \A u \in Threads : pc[u] \notin ReaderPcs \cup DeleterPcs \cup BatchPcs
  BY <1>2 DEF Active, ActivePcs, ReaderPcs, DeleterPcs, BatchPcs
<1>4. \A k \in Keys : Readers(k) = {} /\ status[k] # "removing"
  BY <1>3 DEF RemovingHasOwner, Readers, ReaderPcs
<1>5. Unborn' = Unborn /\ \A j \in Keys : Readers(j)' = Readers(j)
  BY <1>1, UnbornMove, ReadersKept DEF ReaderPcs, SwapOutPcs, WriterPcs
<1>6. \A k \in Keys : StateOf(k) = StoreState(status[k], k \in Unborn)
  BY StateOfIs
<1>7. \A k \in live : StoreState(status'[k], k \in Unborn') = "gone"
  <2>. SUFFICES ASSUME NEW k \in live PROVE StoreState(status'[k], k \in Unborn') = "gone"
    OBVIOUS
  <2>1. k \in Keys /\ status[k] = "active"
    BY <1>6 DEF StoreState, Types
  <2>2. k \notin Unborn
    BY <2>1, RemovingIsBorn
  <2>. QED
    BY <1>1, <1>5, <2>1, <2>2 DEF StoreState
<1>8. \A k \in Keys \ live : status'[k] = status[k]
  BY <1>1, <1>4, <1>6 DEF StoreState, Types
<1>9. \A k \in Keys : StateOf(k) # "doomed"
  BY <1>4, <1>6 DEF StoreState
<1>10. live \in SUBSET Keys
  OBVIOUS
<1>11. {k \in Keys : [j \in Keys |-> StateOf(j)][k] = "live"} = live
  OBVIOUS
<1>. HIDE DEF live
<1>12. Store!Discard
  BY <1>4, <1>5, <1>7, <1>8, <1>9, <1>10, <1>11, StoreBecomes DEF Store!Discard
<1>. QED
  BY <1>12 DEF Store!StoreNext

-----------------------------------------------------------------------------
(* The theorem.                                                            *)

\* The manager starts as an empty store.
LEMMA InitRefines == Init => Store!StoreInit
<1>. SUFFICES ASSUME Init PROVE Store!StoreInit
  OBVIOUS
<1>1. Types
  BY InitIInv DEF IInv
<1>2. \A k \in Keys : StateOf(k) = "unborn" /\ Readers(k) = {}
  BY <1>1, StateOfIs DEF StoreState, Unborn, Readers, Init, Keys
<1>. QED
  BY <1>2 DEF Store!StoreInit

\* Every step of the manager is a step of the store, or none.
LEMMA StepRefines ==
    ASSUME IInv, Types', [Next]_vars
    PROVE  [Store!StoreNext]_Store!storeVars
<1>1. CASE UNCHANGED vars
  <2>1. status' = status /\ Unborn' = Unborn /\ \A k \in Keys : Readers(k)' = Readers(k)
    BY <1>1 DEF vars, table, locals, Unborn, Readers
  <2>. QED
    BY <2>1, StoreKept DEF IInv
<1>2. ASSUME NEW t \in Threads, Step(t)
      PROVE  [Store!StoreNext]_Store!storeVars
  BY <1>2, MovesSteps, MovesRefine, StutterSteps, BeginEndSteps, CommitCreates,
     LookupReads, FinishEndsRead, RemoveDooms, FinalizeSettles,
     FinalizeNextSettles, CollectDooms, DestroyDiscards DEF Step, Call, Progress
<1>. QED
  BY <1>1, <1>2 DEF Next

\* Whatever the interleaving of SwapOut, SwapIn, RemoveData, RemoveAllData and one
\* Destroy, and whatever fails in them, callers of a manager see the store of
\* SwapStore: keys are born once, a removed key takes no new reader, and a key is
\* deleted only when no SwapIn is on it.
THEOREM StoreImplemented ==
    ASSUME AtMostOneDestroyer
    PROVE  Spec => ImplementsStore
<1>1. IInv /\ IInv' /\ [Next]_vars => [Store!StoreNext]_Store!storeVars
  BY StepRefines DEF IInv
<1>. QED
  BY InitRefines, InvariantHolds, <1>1, PTL DEF Spec, ImplementsStore, Store!StoreSpec

-----------------------------------------------------------------------------
(* The accounts: an addition to the inductive invariant.                   *)

\* The keys with an entry, what each thread has reserved for the file it writes,
\* and the bytes on disk of the keys with an entry.
Held == {k \in Keys : status[k] # "absent"}
Reserved == [t \in Threads |-> IF pc[t] \in WriterPcs THEN opSize[t] ELSE 0]
Stored == [k \in Keys |-> IF status[k] = "absent" THEN 0 ELSE fileSize[k]]

\* A key without an entry has no size, and a manager that is not initialised has
\* no entries.
EntriesEmpty ==
    /\ \A k \in Keys : status[k] = "absent" => dataSize[k] = 0
    /\ ~initialized => \A k \in Keys : status[k] = "absent"

\* No file is larger than what was reserved or is counted for it.
FilesBounded ==
    /\ \A k \in Keys : file[k] = "none" => fileSize[k] = 0
    /\ \A k \in Keys : status[k] # "absent" => fileSize[k] <= dataSize[k]
    /\ \A k \in Keys : k >= nextKeyId => fileSize[k] = 0
    /\ \A t \in Threads :
        /\ pc[t] \in SwapOutPcs \ WriterPcs /\ opKey[t] # NoKey => fileSize[opKey[t]] = 0
        /\ pc[t] \in WriterPcs => fileSize[opKey[t]] <= opSize[t]

\* refreshMutex_ is held by the thread that refreshes.
RefreshHeld ==
    /\ \A t \in Threads : pc[t] \in {"query", "apply"} <=> refresh.holder = t
    /\ refresh.answered => refresh.holder # NoThread

\* The counters.
Counted ==
    /\ ctl.totalKeys = Cardinality(Held)
    /\ ctl.totalOccupied = Sum(dataSize, Keys)
    /\ ctl.pending = Sum(Reserved, Threads)

\* What is stored or reserved fits the quota.
WithinQuota == ctl.totalOccupied + ctl.pending <= SpaceLimit

\* The free size the accountant works with, less what was committed since it
\* was asked for, is not more than what the entries leave of the device; nor is
\* the answer a refresh is about to apply, less what was committed since it
\* began.  So what is stored or reserved leaves the device its floor.
WithinDevice ==
    /\ ctl.available + Sum(Stored, Keys) <= DeviceSize + ctl.committed
    /\ refresh.holder # NoThread => refresh.base <= ctl.committed
    /\ refresh.answered =>
        refresh.space + Sum(Stored, Keys) <= DeviceSize + (ctl.committed - refresh.base)
    /\ DeviceSize >= MinAvailable =>
        Sum(Stored, Keys) + ctl.pending <= DeviceSize - MinAvailable

Books == Counted /\ WithinQuota /\ WithinDevice

AccountsInv == EntriesEmpty /\ FilesBounded /\ RefreshHeld /\ Books

-----------------------------------------------------------------------------
(* Entries and files.                                                      *)

\* There are finitely many keys.
LEMMA KeysFinite == IsFiniteSet(Keys)
BY FS_Interval, ManagerConstants DEF Keys

\* A key without an entry never has a size.
LEMMA EntriesEmptyNext ==
    ASSUME Types, KeyHeld, DoorShut, EntriesEmpty, [Next]_vars
    PROVE  EntriesEmpty'
<1>1. CASE UNCHANGED <<status, dataSize, initialized>>
  BY <1>1 DEF EntriesEmpty
<1>2. ASSUME NEW t \in Threads, Step(t), ~ UNCHANGED <<status, dataSize, initialized>>
      PROVE  EntriesEmpty'
  <2>1. CASE InitManager(t)
    BY <2>1 DEF InitManager, EntriesEmpty, table
  <2>2. CASE DestroyFinish(t)
    BY <2>2 DEF DestroyFinish, Erased, EntriesEmpty
  <2>3. CASE CommitSwapOutEntry(t)
    <3>1. initialized /\ initialized' = initialized
      BY <2>3 DEF CommitSwapOutEntry, Locked, Goto, flags, DoorShut, Active, ActivePcs
    <3>. QED
      BY <2>3, <3>1 DEF CommitSwapOutEntry, EntriesEmpty, Types
  <2>4. CASE \E k \in Keys : PrepareRemoveEntry(t, k)
    BY <2>4 DEF PrepareRemoveEntry, EntriesEmpty, Types, flags, Accepting
  <2>5. CASE FinalizeRemoveEntry(t)
    BY <2>5 DEF FinalizeRemoveEntry, Erased, EntriesEmpty, Types, flags
  <2>6. CASE FinalizeNext(t)
    BY <2>6 DEF FinalizeNext, Erased, EntriesEmpty, Types, flags
  <2>7. CASE CollectRemovableEntries(t)
    BY <2>7 DEF CollectRemovableEntries, EntriesEmpty, Types
  <2>8. CASE \/ DestroyBegin(t) \/ GetStats(t)
             \/ (\E n \in Sizes : PrepareForSwapOut(t, n))
             \/ (\E k \in Keys : PrepareForSwapIn(t, k))
             \/ WaitForActiveOps(t) \/ WaitForActiveOpsTimeout(t)
             \/ DestroyBusy(t) \/ Moves(t) \/ WriteTmp(t) \/ RenameTmp(t)
             \/ UndoTmp(t) \/ LookupKeyForSwapIn(t) \/ FinishSwapIn(t)
             \/ RemoveSwapFile(t) \/ UnlinkNext(t) \/ FinalizeRemoveAll(t)
             \/ EndOperation(t)
    BY <1>2, <2>8 DEF DestroyBegin, GetStats, PrepareForSwapOut, PrepareForSwapIn,
       WaitForActiveOps, WaitForActiveOpsTimeout, DestroyBusy, Moves, WriteTmp,
       RenameTmp, UndoTmp, LookupKeyForSwapIn, FinishSwapIn, RemoveSwapFile,
       UnlinkNext, FinalizeRemoveAll, EndOperation, table, flags
  <2>. QED
    BY MovesSteps, <1>2, <2>1, <2>2, <2>3, <2>4, <2>5, <2>6, <2>7, <2>8
       DEF Step, Call, Progress
<1>. QED
  BY <1>1, <1>2 DEF Next, vars, table, flags

\* No file outgrows what was reserved or is counted for it.
LEMMA FilesBoundedNext ==
    ASSUME Types, Discipline, FilesFollow, DoorShut, FilesBounded, [Next]_vars
    PROVE  FilesBounded'
<1>. USE DEF Discipline
<1>1. CASE UNCHANGED vars
  BY <1>1 DEF vars, table, disk, locals, FilesBounded
<1>2. ASSUME NEW t \in Threads, Step(t)
      PROVE  FilesBounded'
  <2>1. CASE \/ DestroyBegin(t) \/ GetStats(t) \/ InitManager(t)
             \/ WaitForActiveOps(t) \/ WaitForActiveOpsTimeout(t)
             \/ DestroyBusy(t) \/ FinalizeRemoveAll(t)
    <3>1. UNCHANGED <<nextKeyId, status, dataSize, file, fileSize, opKey, opSize>>
      BY <2>1 DEF DestroyBegin, GetStats, InitManager, WaitForActiveOps,
         WaitForActiveOpsTimeout, DestroyBusy, FinalizeRemoveAll, table, disk, locals
    <3>2. /\ \A u \in Threads \ {t} : pc'[u] = pc[u]
          /\ pc'[t] \in SwapOutPcs => pc'[t] \notin WriterPcs /\ opKey[t] = NoKey
      BY <2>1 DEF DestroyBegin, GetStats, InitManager, WaitForActiveOps,
         WaitForActiveOpsTimeout, DestroyBusy, FinalizeRemoveAll, Locked, Goto,
         Types, SwapOutPcs, WriterPcs, KeyHeld, IdlePcs
    <3>. QED
      BY <3>1, <3>2 DEF FilesBounded, SwapOutPcs
  <2>2. CASE Moves(t)
    <3>1. UNCHANGED <<nextKeyId, status, dataSize, file, fileSize, opKey, opSize>>
      BY <2>2 DEF Moves, table, disk, locals
    <3>2. \A u \in Threads \ {t} : pc'[u] = pc[u]
      BY <2>2 DEF Moves, Goto, Types
    <3>3. /\ pc'[t] \in SwapOutPcs \ WriterPcs => pc[t] \in SwapOutPcs \ WriterPcs
          /\ pc'[t] \in WriterPcs => pc[t] = "reserve"
      BY <2>2 DEF Moves, Arrows, AfterRefresh, Goto, Types, SwapOutPcs, WriterPcs
    <3>4. pc[t] = "reserve" => opKey[t] \in Keys /\ pc[t] \in SwapOutPcs \ WriterPcs
      BY DEF KeyHeld, SwapOutPcs, WriterPcs
    <3>. QED
      BY <3>1, <3>2, <3>3, <3>4, NoKeyIsNone DEF FilesBounded, Types
  <2>3. CASE DestroyFinish(t)
    <3>1. \A u \in Threads : pc'[u] \notin SwapOutPcs
      BY <2>3 DEF DestroyFinish, Locked, Goto, DoorShut, Active, ActivePcs,
         SwapOutPcs, WriterPcs, Types
    <3>2. /\ \A k \in Keys : status'[k] = "absent" /\ nextKeyId' = nextKeyId
          /\ \A k \in Keys : fileSize'[k] \in {0, fileSize[k]}
          /\ \A k \in Keys : file'[k] = "none" => fileSize'[k] = 0
      BY <2>3 DEF DestroyFinish, Erased, FilesBounded, Types
    <3>. QED
      BY <3>1, <3>2 DEF FilesBounded, SwapOutPcs
  <2>4. CASE \E n \in Sizes : PrepareForSwapOut(t, n)
    BY <2>4 DEF PrepareForSwapOut, Locked, Goto, disk, batch, FilesBounded, Types,
       SwapOutPcs, WriterPcs, Keys
  <2>5. CASE \E k \in Keys : PrepareForSwapIn(t, k)
    BY <2>5 DEF PrepareForSwapIn, Locked, Goto, table, disk, batch, FilesBounded,
       Types, SwapOutPcs, WriterPcs
  <2>6. CASE \E k \in Keys : PrepareRemoveEntry(t, k)
    BY <2>6 DEF PrepareRemoveEntry, Locked, Goto, disk, batch, FilesBounded,
       Types, SwapOutPcs, WriterPcs
  <2>7. CASE CollectRemovableEntries(t)
    BY <2>7 DEF CollectRemovableEntries, Locked, Goto, disk, FilesBounded,
       Types, SwapOutPcs, WriterPcs
  <2>8. CASE WriteTmp(t)
    <3>. DEFINE w == opKey[t]
    <3>1. /\ w \in Keys /\ status[w] = "absent" /\ w < nextKeyId
          /\ \A u \in Threads \ {t} : pc[u] \in SwapOutPcs => opKey[u] # w
      BY <2>8, NoKeyIsNone DEF WriteTmp, Goto, KeyHeld, WriterOwnsKey, WriterPcs,
         SwapOutPcs
    <3>2. /\ UNCHANGED <<nextKeyId, status, dataSize, opKey, opSize>>
          /\ pc'[t] \in WriterPcs /\ pc[t] \in WriterPcs
          /\ \A u \in Threads \ {t} : pc'[u] = pc[u]
          /\ \A k \in Keys \ {w} : file'[k] = file[k] /\ fileSize'[k] = fileSize[k]
          /\ \/ UNCHANGED disk
             \/ file'[w] # "none" /\ fileSize'[w] \in Nat /\ fileSize'[w] <= opSize[t]
      BY <2>8, <3>1 DEF WriteTmp, Goto, Types, WriterPcs, table, disk, locals
    <3>3. /\ \A k \in Keys : file'[k] = "none" => fileSize'[k] = 0
          /\ \A k \in Keys : status'[k] # "absent" => fileSize'[k] <= dataSize'[k]
          /\ \A k \in Keys : k >= nextKeyId' => fileSize'[k] = 0
      <4>. SUFFICES ASSUME NEW k \in Keys
                    PROVE  /\ file'[k] = "none" => fileSize'[k] = 0
                           /\ status'[k] # "absent" => fileSize'[k] <= dataSize'[k]
                           /\ k >= nextKeyId' => fileSize'[k] = 0
        OBVIOUS
      <4>1. CASE k = w
        <5>1. ~ (w >= nextKeyId)
          BY <3>1 DEF Types, Keys
        <5>. QED
          BY <3>1, <3>2, <4>1, <5>1 DEF FilesBounded, disk
      <4>2. CASE k # w
        BY <3>2, <4>2 DEF FilesBounded
      <4>. QED
        BY <4>1, <4>2
    <3>4. fileSize'[w] <= opSize[t]
      BY <3>2 DEF FilesBounded, disk
    <3>5. \A u \in Threads \ {t} :
            pc[u] \in SwapOutPcs /\ opKey[u] # NoKey =>
                opKey[u] \in Keys \ {w} /\ fileSize'[opKey[u]] = fileSize[opKey[u]]
      BY <3>1, <3>2 DEF Types
    <3>6. \A u \in Threads : pc[u] \in WriterPcs => opKey[u] # NoKey /\ pc[u] \in SwapOutPcs
      BY NoKeyIsNone DEF KeyHeld, SwapOutPcs
    <3>. QED
      BY <3>2, <3>3, <3>4, <3>5, <3>6 DEF FilesBounded
  <2>9. CASE RenameTmp(t)
    BY <2>9 DEF RenameTmp, Goto, table, locals, FilesBounded, Types, SwapOutPcs,
       WriterPcs, KeyHeld
  <2>10. CASE UndoTmp(t)
    BY <2>10 DEF UndoTmp, Unlinked, Goto, table, disk, locals, FilesBounded, Types,
       SwapOutPcs, WriterPcs, KeyHeld
  <2>11. CASE CommitSwapOutEntry(t)
    <3>1. opKey[t] \in Keys /\ opKey[t] < nextKeyId /\ fileSize[opKey[t]] = opSize[t]
      BY <2>11, NoKeyIsNone DEF CommitSwapOutEntry, Locked, Goto, KeyHeld,
         WriterOwnsKey, WriterPcs, SwapOutPcs, FilesFollow
    <3>. QED
      BY <2>11, <3>1 DEF CommitSwapOutEntry, Locked, Goto, disk, locals,
         FilesBounded, Types, SwapOutPcs, WriterPcs
  <2>12. CASE LookupKeyForSwapIn(t)
    BY <2>12 DEF LookupKeyForSwapIn, Locked, Goto, disk, batch, FilesBounded,
       Types, SwapOutPcs, WriterPcs
  <2>13. CASE FinishSwapIn(t)
    BY <2>13 DEF FinishSwapIn, Locked, Goto, disk, locals, FilesBounded, Types,
       SwapOutPcs, WriterPcs
  <2>14. CASE RemoveSwapFile(t)
    BY <2>14 DEF RemoveSwapFile, Unlinked, Goto, table, disk, locals,
       FilesBounded, Types, SwapOutPcs, WriterPcs, KeyHeld, DeleterPcs
  <2>15. CASE FinalizeRemoveEntry(t)
    BY <2>15 DEF FinalizeRemoveEntry, Erased, Locked, Goto, disk, locals,
       FilesBounded, Types, SwapOutPcs, WriterPcs, KeyHeld, DeleterPcs
  <2>16. CASE UnlinkNext(t)
    BY <2>16, SMTT(30) DEF UnlinkNext, Unlinked, Goto, table, disk, FilesBounded,
       Types, SwapOutPcs, WriterPcs, KeyHeld
  <2>17. CASE FinalizeNext(t)
    BY <2>17 DEF FinalizeNext, Erased, Goto, disk, FilesBounded, Types,
       SwapOutPcs, WriterPcs
  <2>18. CASE EndOperation(t)
    BY <2>18 DEF EndOperation, Locked, Goto, table, disk, batch, FilesBounded,
       Types, SwapOutPcs, WriterPcs
  <2>. QED
    BY MovesSteps, <1>2, <2>1, <2>2, <2>3, <2>4, <2>5, <2>6, <2>7, <2>8, <2>9,
       <2>10, <2>11, <2>12, <2>13, <2>14, <2>15, <2>16, <2>17, <2>18
       DEF Step, Call, Progress
<1>. QED
  BY <1>1, <1>2 DEF Next

\* refreshMutex_ has the holder it should have.
LEMMA RefreshHeldNext ==
    ASSUME Types, ControlTypes, RefreshHeld, [Next]_vars
    PROVE  RefreshHeld'
<1>. DEFINE Mine == {"query", "apply"}
<1>1. CASE UNCHANGED vars
  BY <1>1 DEF vars, RefreshHeld
<1>2. ASSUME NEW t \in Threads, Step(t)
      PROVE  RefreshHeld'
  <2>1. CASE RefreshBegin(t)
    BY <2>1, ManagerConstants DEF RefreshBegin, Goto, RefreshHeld, Types
  <2>2. CASE GetFreeSize(t)
    BY <2>2, ManagerConstants DEF GetFreeSize, Goto, RefreshHeld, Types
  <2>3. CASE RefreshEnd(t)
    BY <2>3, ManagerConstants DEF RefreshEnd, AfterRefresh, Goto, RefreshHeld, Types,
       NotRefreshing
  <2>4. CASE \/ InitManager(t) \/ DestroyBegin(t) \/ GetStats(t)
             \/ CollectRemovableEntries(t)
             \/ (\E n \in Sizes : PrepareForSwapOut(t, n))
             \/ (\E k \in Keys : PrepareForSwapIn(t, k))
             \/ (\E k \in Keys : PrepareRemoveEntry(t, k))
             \/ WaitForActiveOps(t) \/ WaitForActiveOpsTimeout(t)
             \/ DestroyBusy(t) \/ DestroyFinish(t) \/ RefreshSkip(t)
    <3>1. /\ refresh' = refresh /\ \A u \in Threads \ {t} : pc'[u] = pc[u]
          /\ pc[t] \notin Mine /\ pc'[t] \notin Mine
      BY <2>4 DEF InitManager, DestroyBegin, GetStats, CollectRemovableEntries,
         PrepareForSwapOut, PrepareForSwapIn, PrepareRemoveEntry, WaitForActiveOps,
         WaitForActiveOpsTimeout, DestroyBusy, DestroyFinish, RefreshSkip,
         AfterRefresh, Locked, Goto, Types
    <3>. QED
      BY <3>1 DEF RefreshHeld
  <2>5. CASE \/ ReserveSwapOut(t) \/ WriteTmp(t) \/ RenameTmp(t) \/ UndoTmp(t)
             \/ CancelSwapOut(t) \/ CommitSwapOutEntry(t) \/ SwapInMisaligned(t)
             \/ LookupKeyForSwapIn(t) \/ ExecuteSwapInRead(t) \/ FinishSwapIn(t)
             \/ FillStats(t) \/ RemoveSwapFile(t) \/ FinalizeRemoveEntry(t)
             \/ UnlinkNext(t) \/ LockForFinalize(t) \/ FinalizeNext(t)
             \/ FinalizeRemoveAll(t) \/ EndOperation(t)
    <3>1. /\ refresh' = refresh /\ \A u \in Threads \ {t} : pc'[u] = pc[u]
          /\ pc[t] \notin Mine /\ pc'[t] \notin Mine
      BY <2>5 DEF ReserveSwapOut, WriteTmp, RenameTmp, UndoTmp, CancelSwapOut,
         CommitSwapOutEntry, SwapInMisaligned, LookupKeyForSwapIn,
         ExecuteSwapInRead, FinishSwapIn, FillStats, RemoveSwapFile,
         FinalizeRemoveEntry, UnlinkNext, LockForFinalize, FinalizeNext,
         FinalizeRemoveAll, EndOperation, Locked, Goto, Types
    <3>. QED
      BY <3>1 DEF RefreshHeld
  <2>. QED
    BY <1>2, <2>1, <2>2, <2>3, <2>4, <2>5 DEF Step, Call, Progress
<1>. QED
  BY <1>1, <1>2 DEF Next

-----------------------------------------------------------------------------
(* What a step does to the accounts: nothing, except that a file may go or *)
(* that the accountant may look at the device; or one of a few things.     *)

Shrinks == \A k \in Keys : Stored'[k] <= Stored[k]
Steady == Held' = Held /\ dataSize' = dataSize /\ Reserved' = Reserved /\ Shrinks
Quiet == Steady /\ ctl' = ctl /\ refresh' = refresh
Erases(k) ==
    /\ k \in Held /\ Held' = Held \ {k}
    /\ dataSize' = [dataSize EXCEPT ![k] = 0]
    /\ Reserved' = Reserved /\ Shrinks
    /\ ctl' = OnEntryRemoved(ctl, dataSize[k]) /\ refresh' = refresh

\* What is reserved changes only where a thread begins or ends to write.
LEMMA ReservedKept ==
    ASSUME Types, NEW t \in Threads, \A u \in Threads \ {t} : pc'[u] = pc[u],
           \A u \in Threads \ {t} : opSize'[u] = opSize[u],
           pc[t] \in WriterPcs <=> pc'[t] \in WriterPcs,
           pc[t] \in WriterPcs => opSize'[t] = opSize[t]
    PROVE  Reserved' = Reserved
<1>1. ASSUME NEW u \in Threads PROVE Reserved'[u] = Reserved[u]
  BY DEF Reserved
<1>. QED
  BY <1>1, Zenon DEF Reserved

\* What is stored shrinks where a file does.
LEMMA StoredShrinks ==
    ASSUME Types, Held' = Held, \A k \in Held : fileSize'[k] <= fileSize[k]
    PROVE  Shrinks
<1>. SUFFICES ASSUME NEW k \in Keys PROVE Stored'[k] <= Stored[k]
  BY DEF Shrinks
<1>1. (status'[k] = "absent") <=> (status[k] = "absent")
  BY DEF Held
<1>. QED
  BY <1>1 DEF Stored, Held

\* Calls that begin or end, and the waiting of Destroy.
LEMMA QuietCalls ==
    ASSUME Types, NEW t \in Threads,
           \/ DestroyBegin(t) \/ GetStats(t) \/ CollectRemovableEntries(t)
           \/ (\E n \in Sizes : PrepareForSwapOut(t, n))
           \/ (\E k \in Keys : PrepareForSwapIn(t, k))
           \/ (\E k \in Keys : PrepareRemoveEntry(t, k))
           \/ WaitForActiveOps(t) \/ WaitForActiveOpsTimeout(t)
           \/ DestroyBusy(t) \/ EndOperation(t) \/ LookupKeyForSwapIn(t)
           \/ FinishSwapIn(t) \/ FinalizeRemoveAll(t)
    PROVE  Quiet
<1>. USE DEF DestroyBegin, GetStats, CollectRemovableEntries, PrepareForSwapOut,
     PrepareForSwapIn, PrepareRemoveEntry, WaitForActiveOps,
     WaitForActiveOpsTimeout, DestroyBusy, EndOperation, LookupKeyForSwapIn,
     FinishSwapIn, FinalizeRemoveAll
<1>1. UNCHANGED <<dataSize, fileSize, ctl, refresh>>
  BY DEF table, disk
<1>2. \A k \in Keys : status'[k] = "absent" <=> status[k] = "absent"
  BY DEF table, Types
<1>3. /\ \A u \in Threads \ {t} : pc'[u] = pc[u]
      /\ pc[t] \notin WriterPcs /\ pc'[t] \notin WriterPcs
  BY DEF Locked, Goto, Types, WriterPcs
<1>4. \A u \in Threads \ {t} : opSize'[u] = opSize[u]
  BY DEF Types, locals
<1>5. Held' = Held
  BY <1>2 DEF Held
<1>6. Shrinks
  BY <1>1, <1>5, StoredShrinks DEF Held, Types
<1>7. Reserved' = Reserved
  BY <1>3, <1>4, ReservedKept
<1>. QED
  BY <1>1, <1>5, <1>6, <1>7 DEF Quiet, Steady

\* Work on files.
LEMMA QuietWork ==
    ASSUME Types, KeyHeld, WriterOwnsKey, NEW t \in Threads,
           \/ WriteTmp(t) \/ RenameTmp(t) \/ UndoTmp(t) \/ RemoveSwapFile(t)
           \/ UnlinkNext(t)
    PROVE  Quiet
<1>. USE DEF WriteTmp, RenameTmp, UndoTmp, RemoveSwapFile, UnlinkNext
<1>1. UNCHANGED <<dataSize, status, ctl, refresh, opSize>>
  BY DEF table, locals
<1>2. /\ \A u \in Threads \ {t} : pc'[u] = pc[u]
      /\ pc[t] \in WriterPcs <=> pc'[t] \in WriterPcs
  BY DEF Goto, Types, WriterPcs
<1>3. Held' = Held
  BY <1>1 DEF Held
<1>4. \A k \in Held : fileSize'[k] <= fileSize[k]
  <2>1. CASE WriteTmp(t)
    <3>1. opKey[t] \in Keys /\ status[opKey[t]] = "absent"
      BY <2>1, NoKeyIsNone DEF Goto, KeyHeld, WriterOwnsKey, WriterPcs, SwapOutPcs
    <3>2. \A k \in Keys \ {opKey[t]} : fileSize'[k] = fileSize[k]
      BY <2>1, <3>1 DEF disk, Types
    <3>. QED
      BY <3>1, <3>2 DEF Held, Types
  <2>2. CASE RenameTmp(t)
    BY <2>2 DEF Types, Held
  <2>3. CASE UndoTmp(t) \/ RemoveSwapFile(t)
    <3>1. opKey[t] \in Keys
      BY <2>3 DEF Goto, KeyHeld, WriterPcs, DeleterPcs
    <3>. QED
      BY <2>3, <3>1 DEF Unlinked, disk, Types, Held
  <2>4. CASE UnlinkNext(t)
    BY <2>4 DEF Unlinked, disk, Types, Held
  <2>. QED
    BY <2>1, <2>2, <2>3, <2>4
<1>5. Shrinks
  BY <1>3, <1>4, StoredShrinks
<1>6. Reserved' = Reserved
  BY <1>1, <1>2, ReservedKept
<1>. QED
  BY <1>1, <1>3, <1>5, <1>6 DEF Quiet, Steady

\* Steps that only move their thread.
LEMMA SteadyMoves ==
    ASSUME Types, NEW t \in Threads, Moves(t),
           pc[t] \in WriterPcs <=> pc'[t] \in WriterPcs
    PROVE  Steady
<1>1. UNCHANGED <<dataSize, status, fileSize, opSize>>
  BY DEF Moves, table, disk, locals
<1>2. \A u \in Threads \ {t} : pc'[u] = pc[u]
  BY DEF Moves, Goto, Types
<1>3. Held' = Held
  BY <1>1 DEF Held
<1>4. Shrinks
  BY <1>1, <1>3, StoredShrinks DEF Held, Types
<1>5. Reserved' = Reserved
  BY <1>1, <1>2, ReservedKept
<1>. QED
  BY <1>1, <1>3, <1>4, <1>5 DEF Steady

LEMMA QuietMoves ==
    ASSUME Types, NEW t \in Threads,
           \/ RefreshSkip(t) \/ SwapInMisaligned(t) \/ ExecuteSwapInRead(t)
           \/ FillStats(t) \/ LockForFinalize(t)
    PROVE  Quiet
<1>1. Moves(t)
  BY MovesSteps
<1>2. /\ pc[t] \notin WriterPcs /\ pc'[t] \notin WriterPcs
      /\ ctl' = ctl /\ refresh' = refresh
  BY DEF RefreshSkip, SwapInMisaligned, ExecuteSwapInRead, FillStats,
     LockForFinalize, Locked, Goto, AfterRefresh, Types, WriterPcs
<1>. QED
  BY <1>1, <1>2, SteadyMoves DEF Quiet

LEMMA RefreshMoves ==
    ASSUME Types, NEW t \in Threads,
           RefreshBegin(t) \/ GetFreeSize(t) \/ RefreshEnd(t)
    PROVE  Steady
<1>1. Moves(t)
  BY MovesSteps
<1>2. pc[t] \notin WriterPcs /\ pc'[t] \notin WriterPcs
  BY DEF RefreshBegin, GetFreeSize, RefreshEnd, Goto, AfterRefresh, Types, WriterPcs
<1>. QED
  BY <1>1, <1>2, SteadyMoves

\* An entry is dropped and its size taken off the accounts, or nothing of them
\* changes.
LEMMA EraseSteps ==
    ASSUME Types, KeyHeld, NEW t \in Threads,
           FinalizeRemoveEntry(t) \/ FinalizeNext(t)
    PROVE  Quiet \/ \E k \in Keys : Erases(k)
<1>1. UNCHANGED <<fileSize, refresh, opSize>>
  BY DEF FinalizeRemoveEntry, FinalizeNext, disk, locals
<1>2. Reserved' = Reserved
  <2>1. /\ \A u \in Threads \ {t} : pc'[u] = pc[u]
        /\ pc[t] \notin WriterPcs /\ pc'[t] \notin WriterPcs
    BY DEF FinalizeRemoveEntry, FinalizeNext, Locked, Goto, Types, WriterPcs
  <2>. QED
    BY <1>1, <2>1, ReservedKept
<1>3. \/ /\ UNCHANGED <<dataSize, ctl>>
         /\ \A k \in Keys : status'[k] = "absent" <=> status[k] = "absent"
      \/ \E k \in Keys : /\ status[k] # "absent" /\ Erased({k})
                         /\ ctl' = OnEntryRemoved(ctl, dataSize[k])
  <2>1. CASE FinalizeRemoveEntry(t)
    <3>1. opKey[t] \in Keys
      BY <2>1 DEF FinalizeRemoveEntry, Locked, Goto, KeyHeld, DeleterPcs
    <3>. QED
      BY <2>1, <3>1 DEF FinalizeRemoveEntry, Types
  <2>2. CASE FinalizeNext(t)
    BY <2>2 DEF FinalizeNext, Types
  <2>. QED
    BY <2>1, <2>2
<1>4. CASE /\ UNCHANGED <<dataSize, ctl>>
           /\ \A k \in Keys : status'[k] = "absent" <=> status[k] = "absent"
  <2>1. Held' = Held
    BY <1>4 DEF Held
  <2>2. Shrinks
    BY <1>1, <2>1, StoredShrinks DEF Held, Types
  <2>. QED
    BY <1>1, <1>2, <1>4, <2>1, <2>2 DEF Quiet, Steady
<1>5. ASSUME NEW k \in Keys, status[k] # "absent", Erased({k}),
             ctl' = OnEntryRemoved(ctl, dataSize[k])
      PROVE  Erases(k)
  <2>1. k \in Held /\ Held' = Held \ {k}
    BY <1>5 DEF Held, Erased
  <2>2. dataSize' = [dataSize EXCEPT ![k] = 0]
    BY <1>5 DEF Erased, Types
  <2>3. Shrinks
    BY <1>1, <1>5 DEF Shrinks, Stored, Erased, Types
  <2>. QED
    BY <1>1, <1>2, <1>5, <2>1, <2>2, <2>3 DEF Erases
<1>. QED
  BY <1>3, <1>4, <1>5

\* Every step is one of these.
LEMMA StepKinds ==
    ASSUME Types, KeyHeld, WriterOwnsKey, [Next]_vars
    PROVE  \/ Quiet
           \/ \E k \in Keys : Erases(k)
           \/ \E t \in Threads :
                \/ InitManager(t) \/ DestroyFinish(t)
                \/ RefreshBegin(t) \/ GetFreeSize(t) \/ RefreshEnd(t)
                \/ ReserveSwapOut(t) \/ CancelSwapOut(t) \/ CommitSwapOutEntry(t)
<1>1. CASE UNCHANGED vars
  <2>1. UNCHANGED <<status, dataSize, fileSize, pc, opSize, ctl, refresh>>
    BY <1>1 DEF vars, table, disk, locals
  <2>2. Held' = Held /\ Reserved' = Reserved
    BY <2>1 DEF Held, Reserved
  <2>3. Shrinks
    BY <2>1, <2>2, StoredShrinks DEF Held, Types
  <2>. QED
    BY <2>1, <2>2, <2>3 DEF Quiet, Steady
<1>2. ASSUME NEW t \in Threads, Step(t)
      PROVE  \/ Quiet \/ (\E k \in Keys : Erases(k))
             \/ InitManager(t) \/ DestroyFinish(t)
             \/ RefreshBegin(t) \/ GetFreeSize(t) \/ RefreshEnd(t)
             \/ ReserveSwapOut(t) \/ CancelSwapOut(t) \/ CommitSwapOutEntry(t)
  BY <1>2, QuietCalls, QuietWork, QuietMoves, EraseSteps DEF Step, Call, Progress
<1>. QED
  BY <1>1, <1>2 DEF Next

\* The sums are natural numbers.
LEMMA SumTypes ==
    ASSUME Types
    PROVE  /\ Stored \in [Keys -> Nat] /\ Sum(Stored, Keys) \in Nat
           /\ Reserved \in [Threads -> Nat] /\ Sum(Reserved, Threads) \in Nat
           /\ Sum(dataSize, Keys) \in Nat
<1>1. Stored \in [Keys -> Nat] /\ Reserved \in [Threads -> Nat]
  BY DEF Types, Stored, Reserved
<1>2. dataSize \in [Keys -> Nat]
  BY DEF Types
<1>. QED
  BY <1>1, <1>2, KeysFinite, ManagerConstants, SumNat

LEMMA SumTypesNext ==
    ASSUME Types'
    PROVE  /\ Stored' \in [Keys -> Nat] /\ Sum(Stored', Keys) \in Nat
           /\ Reserved' \in [Threads -> Nat] /\ Sum(Reserved', Threads) \in Nat
           /\ Sum(dataSize', Keys) \in Nat
<1>1. Stored' \in [Keys -> Nat] /\ Reserved' \in [Threads -> Nat]
  BY DEF Types, Stored, Reserved
<1>2. dataSize' \in [Keys -> Nat]
  BY DEF Types
<1>. QED
  BY <1>1, <1>2, KeysFinite, ManagerConstants, SumNat

\* What is stored sums up to less when it shrinks.
LEMMA LessStored ==
    ASSUME Types, Types', Shrinks
    PROVE  Sum(Stored', Keys) <= Sum(Stored, Keys)
<1>1. Stored \in [Keys -> Int] /\ Stored' \in [Keys -> Int]
  BY SumTypes, SumTypesNext
<1>. QED
  BY <1>1, KeysFinite, SumMonotone DEF Shrinks

\* One thread begins or ends to write: the reservations change by its own.
LEMMA ReservedChanges ==
    ASSUME Types, Types', NEW t \in Threads, \A u \in Threads \ {t} : pc'[u] = pc[u],
           opSize' = opSize
    PROVE  Sum(Reserved', Threads) = Sum(Reserved, Threads) - Reserved[t] + Reserved'[t]
<1>1. Reserved \in [Threads -> Int] /\ Reserved' \in [Threads -> Int]
  BY SumTypes, SumTypesNext
<1>2. \A u \in Threads \ {t} : Reserved[u] = Reserved'[u]
  BY DEF Reserved
<1>. QED
  BY <1>1, <1>2, ManagerConstants, SumChanges

\* What one thread has reserved is part of what is pending.
LEMMA ReservedPart ==
    ASSUME Types, NEW t \in Threads, pc[t] \in WriterPcs
    PROVE  Reserved[t] = opSize[t] /\ opSize[t] \in Nat /\ opSize[t] <= Sum(Reserved, Threads)
<1>1. Reserved[t] = opSize[t] /\ opSize[t] \in Nat
  BY DEF Reserved, Types
<1>. QED
  BY <1>1, SumTypes, SumNat, ManagerConstants

\* The number of entries.
LEMMA HeldFinite ==
    IsFiniteSet(Held) /\ Cardinality(Held) \in Nat
BY KeysFinite, FS_Subset, FS_CardinalityType DEF Held

-----------------------------------------------------------------------------
(* The books, one kind of step at a time.                                  *)

\* The fields of the accountant's next state.
LEMMA ControlFields ==
    ASSUME NEW c \in ControlState, NEW n \in Nat
    PROVE  /\ Reserve(c, n).pending = c.pending + n
           /\ Reserve(c, n).totalKeys = c.totalKeys
           /\ Reserve(c, n).totalOccupied = c.totalOccupied
           /\ Reserve(c, n).committed = c.committed
           /\ Reserve(c, n).available = c.available
           /\ CancelReservedSwapOut(c, n).pending = SubOrZero(c.pending, n)
           /\ CancelReservedSwapOut(c, n).totalKeys = c.totalKeys
           /\ CancelReservedSwapOut(c, n).totalOccupied = c.totalOccupied
           /\ CancelReservedSwapOut(c, n).committed = c.committed
           /\ CancelReservedSwapOut(c, n).available = c.available
           /\ OnSwapOutCommitted(c, n).pending = SubOrZero(c.pending, n)
           /\ OnSwapOutCommitted(c, n).totalKeys = c.totalKeys + 1
           /\ OnSwapOutCommitted(c, n).totalOccupied = c.totalOccupied + n
           /\ OnSwapOutCommitted(c, n).committed = c.committed + n
           /\ OnSwapOutCommitted(c, n).available = c.available
           /\ OnEntryRemoved(c, n).pending = c.pending
           /\ OnEntryRemoved(c, n).totalKeys = SubOrZero(c.totalKeys, 1)
           /\ OnEntryRemoved(c, n).totalOccupied = SubOrZero(c.totalOccupied, n)
           /\ OnEntryRemoved(c, n).committed = c.committed
           /\ OnEntryRemoved(c, n).available = c.available
           /\ OnAllEntriesRemoved(c).pending = c.pending
           /\ OnAllEntriesRemoved(c).totalKeys = 0
           /\ OnAllEntriesRemoved(c).totalOccupied = 0
           /\ OnAllEntriesRemoved(c).committed = c.committed
           /\ OnAllEntriesRemoved(c).available = c.available
BY DEF Reserve, CancelReservedSwapOut, OnSwapOutCommitted, OnEntryRemoved,
   OnAllEntriesRemoved, ControlState

\* A quiet step.
LEMMA QuietBooks ==
    ASSUME Types, Types', ControlTypes, Books, Quiet
    PROVE  Books'
<1>1. Sum(Stored', Keys) <= Sum(Stored, Keys) /\ Sum(Stored', Keys) \in Nat /\ Sum(Stored, Keys) \in Nat
  BY LessStored, SumTypes, SumTypesNext DEF Quiet, Steady
<1>2. /\ ctl.available \in Nat /\ ctl.committed \in Nat /\ ctl.pending \in Nat
      /\ refresh.base \in Nat /\ refresh.space \in Nat
  BY FieldTypes DEF ControlTypes
<1>3. Counted' /\ WithinQuota'
  BY DEF Quiet, Steady, Books, Counted, WithinQuota
<1>4. WithinDevice'
  BY <1>1, <1>2, ControlConstants, ManagerConstants DEF Quiet, Books, WithinDevice
<1>. QED
  BY <1>3, <1>4 DEF Books

\* RefreshBegin, GetFreeSize and RefreshEnd.
LEMMA RefreshBooks ==
    ASSUME Types, Types', ControlTypes, RefreshHeld, Books, NEW t \in Threads,
           RefreshBegin(t) \/ GetFreeSize(t) \/ RefreshEnd(t)
    PROVE  Books'
<1>1. Sum(Stored', Keys) <= Sum(Stored, Keys) /\ Sum(Stored', Keys) \in Nat /\ Sum(Stored, Keys) \in Nat
  BY RefreshMoves, LessStored, SumTypes, SumTypesNext DEF Steady
<1>2. /\ ctl.available \in Nat /\ ctl.committed \in Nat /\ ctl.pending \in Nat
      /\ refresh.base \in Nat /\ refresh.space \in Nat /\ refresh.answered \in BOOLEAN
  BY FieldTypes DEF ControlTypes
<1>3. /\ ctl'.totalKeys = ctl.totalKeys /\ ctl'.totalOccupied = ctl.totalOccupied
      /\ ctl'.pending = ctl.pending
  BY DEF RefreshBegin, GetFreeSize, RefreshEnd, RefreshApply, ControlTypes, ControlState
<1>4. Counted' /\ WithinQuota'
  BY <1>3, RefreshMoves DEF Steady, Books, Counted, WithinQuota
<1>5. WithinDevice'
  <2>. USE <1>1, <1>2, <1>3, ControlConstants, ManagerConstants DEF Books
  <2>1. CASE RefreshBegin(t)
    <3>1. ctl' = ctl /\ refresh'.base = ctl.committed /\ ~ refresh'.answered
      BY <2>1 DEF RefreshBegin
    <3>. QED
      BY <3>1 DEF WithinDevice
  <2>2. CASE GetFreeSize(t)
    <3>1. ctl' = ctl /\ refresh.holder # NoThread /\ refresh'.base = refresh.base
      BY <2>2 DEF GetFreeSize, Goto, RefreshHeld
    <3>2. CASE refresh' = refresh
      BY <3>1, <3>2 DEF WithinDevice
    <3>3. CASE refresh' # refresh
      <4>1. \E space \in FreeSizeAnswers :
              refresh' = [holder |-> t, base |-> refresh.base, answered |-> TRUE, space |-> space]
        BY <2>2, <3>3 DEF GetFreeSize
      <4>2. refresh'.space \in FreeSizeAnswers
        BY <4>1
      <4>3. DeviceFree = DeviceSize - Sum(fileSize, Keys)
        BY Zenon DEF DeviceFree, BytesOf, Sum
      <4>4. refresh'.space = DeviceSize - Sum(fileSize, Keys)
        BY <4>2, <4>3 DEF FreeSizeAnswers
      <4>5. Sum(Stored, Keys) <= Sum(fileSize, Keys) /\ Sum(fileSize, Keys) \in Nat
        <5>1. /\ Stored \in [Keys -> Int] /\ fileSize \in [Keys -> Int] /\ fileSize \in [Keys -> Nat]
              /\ \A k \in Keys : Stored[k] <= fileSize[k]
          BY DEF Stored, Types
        <5>. QED
          BY <5>1, KeysFinite, SumMonotone, SumNat
      <4>. QED
        BY <3>1, <4>4, <4>5 DEF WithinDevice
    <3>. QED
      BY <3>2, <3>3
  <2>3. CASE RefreshEnd(t)
    <3>1. /\ refresh'.holder = NoThread /\ ~ refresh'.answered
          /\ refresh.holder # NoThread
      BY <2>3 DEF RefreshEnd, NotRefreshing, Goto, RefreshHeld
    <3>2. CASE refresh.answered
      <4>1. /\ ctl'.available = refresh.space
            /\ ctl'.committed = SubOrZero(ctl.committed, refresh.base)
        BY <2>3, <3>2 DEF RefreshEnd, RefreshApply, ControlTypes, ControlState
      <4>. QED
        BY <3>1, <3>2, <4>1 DEF WithinDevice, SubOrZero
    <3>3. CASE ~ refresh.answered
      <4>1. ctl'.available = ctl.available /\ ctl'.committed = ctl.committed
        BY <2>3, <3>3 DEF RefreshEnd, RefreshApply, ControlTypes, ControlState
      <4>. QED
        BY <3>1, <3>3, <4>1 DEF WithinDevice
    <3>. QED
      BY <3>2, <3>3
  <2>. QED
    BY <2>1, <2>2, <2>3
<1>. QED
  BY <1>4, <1>5 DEF Books

\* With nobody inside and no entry there is nothing to count.
LEMMA NothingThere ==
    ASSUME Types, EntriesEmpty, Active = {}, \A k \in Keys : status[k] = "absent"
    PROVE  /\ Cardinality(Held) = 0 /\ Sum(dataSize, Keys) = 0
           /\ Sum(Reserved, Threads) = 0 /\ Sum(Stored, Keys) = 0
<1>1. /\ Held = {} /\ \A k \in Keys : dataSize[k] = 0 /\ Stored[k] = 0
      /\ \A t \in Threads : Reserved[t] = 0
  BY DEF Held, EntriesEmpty, Stored, Reserved, Active, ActivePcs, WriterPcs
<1>. QED
  BY <1>1, KeysFinite, ManagerConstants, SumZero, FS_EmptySet

\* Init starts new books, when nothing is in the old ones.
LEMMA InitBooks ==
    ASSUME Types, Types', ControlTypes, DoorShut, EntriesEmpty, RefreshHeld,
           NEW t \in Threads, InitManager(t)
    PROVE  Books'
<1>1. /\ UNCHANGED <<status, dataSize, fileSize, pc, opSize, refresh>>
      /\ ~ initialized /\ Active = {} /\ \A k \in Keys : status[k] = "absent"
  BY DEF InitManager, table, disk, locals, DoorShut, EntriesEmpty
<1>2. /\ Cardinality(Held) = 0 /\ Sum(dataSize, Keys) = 0
      /\ Sum(Reserved, Threads) = 0 /\ Sum(Stored, Keys) = 0
  BY <1>1, NothingThere
<1>3. Held' = Held /\ Reserved' = Reserved /\ Stored' = Stored
  BY <1>1 DEF Held, Reserved, Stored
<1>4. PICK avail, proxy :
        /\ avail \in {0} \cup FreeSizeAnswers
        /\ ctl' = InitWithAvailableSpace(avail, proxy)
  BY DEF InitManager
<1>5. avail \in Nat /\ avail <= DeviceSize
  BY <1>4, ManagerConstants DEF FreeSizeAnswers
<1>6. /\ ctl'.totalKeys = 0 /\ ctl'.totalOccupied = 0 /\ ctl'.pending = 0
      /\ ctl'.committed = 0 /\ ctl'.available = avail
  BY <1>4 DEF InitWithAvailableSpace
<1>7. refresh.holder = NoThread /\ ~ refresh.answered
  BY <1>1 DEF RefreshHeld, ControlTypes, Active, ActivePcs
<1>8. Counted'
  BY <1>1, <1>2, <1>3, <1>6 DEF Counted
<1>9. WithinQuota'
  BY <1>6, ControlConstants DEF WithinQuota
<1>10. WithinDevice'
  BY <1>1, <1>2, <1>3, <1>5, <1>6, <1>7, ControlConstants, ManagerConstants DEF WithinDevice
<1>. QED
  BY <1>8, <1>9, <1>10 DEF Books

\* Destroy drops every entry, when no call is inside.
LEMMA DestroyBooks ==
    ASSUME Types, Types', ControlTypes, DoorShut, EntriesEmpty', RefreshHeld, Books,
           NEW t \in Threads, DestroyFinish(t)
    PROVE  Books'
<1>1. /\ Active = {} /\ Active' = {} /\ \A k \in Keys : status'[k] = "absent"
      /\ refresh' = refresh
  BY DEF DestroyFinish, Locked, Goto, Erased, DoorShut, Active, ActivePcs, Types
<1>2. /\ Cardinality(Held') = 0 /\ Sum(dataSize', Keys) = 0
      /\ Sum(Reserved', Threads) = 0 /\ Sum(Stored', Keys) = 0
  <2>1. /\ Held' = {} /\ \A k \in Keys : dataSize'[k] = 0 /\ Stored'[k] = 0
        /\ \A u \in Threads : Reserved'[u] = 0
    BY <1>1 DEF Held, EntriesEmpty, Stored, Reserved, Active, ActivePcs, WriterPcs
  <2>. QED
    BY <2>1, KeysFinite, ManagerConstants, SumZero, FS_EmptySet
<1>3. Sum(Reserved, Threads) = 0
  <2>1. \A u \in Threads : Reserved[u] = 0
    BY <1>1 DEF Reserved, Active, ActivePcs, WriterPcs
  <2>. QED
    BY <2>1, ManagerConstants, SumZero
<1>4. /\ ctl'.totalKeys = 0 /\ ctl'.totalOccupied = 0 /\ ctl'.pending = 0
      /\ ctl'.committed = ctl.committed /\ ctl'.available = ctl.available
  BY <1>3, ControlFields DEF DestroyFinish, ControlTypes, Books, Counted
<1>5. refresh.holder = NoThread /\ ~ refresh.answered
  BY <1>1 DEF RefreshHeld, ControlTypes, Active, ActivePcs
<1>6. /\ ctl.available \in Nat /\ ctl.committed \in Nat
      /\ Sum(Stored, Keys) \in Nat
  BY FieldTypes, SumTypes DEF ControlTypes
<1>7. Counted'
  BY <1>2, <1>4 DEF Counted
<1>8. WithinQuota'
  BY <1>4, ControlConstants DEF WithinQuota
<1>9. WithinDevice'
  BY <1>1, <1>2, <1>4, <1>5, <1>6, ControlConstants, ManagerConstants DEF WithinDevice, Books
<1>. QED
  BY <1>7, <1>8, <1>9 DEF Books

\* A reservation that passed both checks fits both limits.
LEMMA ReserveBooks ==
    ASSUME Types, Types', ControlTypes, KeyHeld, Books, NEW t \in Threads, ReserveSwapOut(t)
    PROVE  Books'
<1>1. /\ UNCHANGED <<status, dataSize, fileSize, opSize, refresh>>
      /\ \A u \in Threads \ {t} : pc'[u] = pc[u]
      /\ pc[t] \notin WriterPcs
  BY DEF ReserveSwapOut, Goto, table, disk, locals, Types, WriterPcs
<1>2. Held' = Held /\ Stored' = Stored
  BY <1>1 DEF Held, Stored
<1>3. Reserved[t] = 0
  BY <1>1 DEF Reserved
<1>4. /\ ctl.available \in Nat /\ ctl.committed \in Nat /\ ctl.pending \in Nat
      /\ ctl.totalOccupied \in Nat
      /\ Sum(Stored, Keys) \in Nat /\ Sum(Reserved, Threads) \in Nat /\ opSize[t] \in Nat
  BY FieldTypes, SumTypes DEF ControlTypes, Types
<1>5. CASE CheckSwapOutAllowed(ctl, opSize[t])
  <2>1. ctl' = Reserve(ctl, opSize[t]) /\ pc'[t] \in WriterPcs
    BY <1>5 DEF ReserveSwapOut, Goto, Types, WriterPcs
  <2>2. Sum(Reserved', Threads) = Sum(Reserved, Threads) + opSize[t]
    <3>1. Reserved'[t] = opSize[t]
      BY <1>1, <2>1 DEF Reserved
    <3>. QED
      BY <1>1, <1>3, <1>4, <3>1, ReservedChanges
  <2>3. /\ ctl'.totalKeys = ctl.totalKeys /\ ctl'.totalOccupied = ctl.totalOccupied
        /\ ctl'.pending = ctl.pending + opSize[t]
        /\ ctl'.committed = ctl.committed /\ ctl'.available = ctl.available
    BY <1>4, <2>1, ControlFields DEF ControlTypes
  <2>4. /\ ctl.totalOccupied + ctl.pending + opSize[t] <= SpaceLimit
        /\ ctl.pending + ctl.committed + opSize[t] <= ctl.available - MinAvailable
    BY <1>4, <1>5, ControlConstants DEF CheckSwapOutAllowed
  <2>5. Counted'
    BY <1>1, <1>2, <2>2, <2>3 DEF Counted, Books
  <2>6. WithinQuota'
    BY <1>4, <2>3, <2>4, ControlConstants DEF WithinQuota
  <2>7. WithinDevice'
    BY <1>1, <1>2, <1>4, <2>3, <2>4, ControlConstants, ManagerConstants DEF WithinDevice, Books
  <2>. QED
    BY <2>5, <2>6, <2>7 DEF Books
<1>6. CASE ~ CheckSwapOutAllowed(ctl, opSize[t])
  <2>1. ctl' = ctl /\ pc'[t] \notin WriterPcs
    BY <1>6 DEF ReserveSwapOut, Goto, Types, WriterPcs
  <2>2. Reserved' = Reserved
    BY <1>1, <2>1, ReservedKept
  <2>3. Shrinks
    BY <1>1, <1>2, StoredShrinks DEF Held, Types
  <2>. QED
    BY <1>1, <1>2, <2>1, <2>2, <2>3, QuietBooks DEF Quiet, Steady
<1>. QED
  BY <1>5, <1>6

\* A reservation that is cancelled is given back, whole.
LEMMA CancelBooks ==
    ASSUME Types, Types', ControlTypes, KeyHeld, Books, NEW t \in Threads, CancelSwapOut(t)
    PROVE  Books'
<1>1. /\ UNCHANGED <<status, dataSize, fileSize, opSize, refresh>>
      /\ \A u \in Threads \ {t} : pc'[u] = pc[u]
      /\ pc[t] \in WriterPcs /\ pc'[t] \notin WriterPcs
      /\ ctl' = CancelReservedSwapOut(ctl, opSize[t])
  BY DEF CancelSwapOut, Goto, table, disk, locals, Types, WriterPcs
<1>2. Held' = Held /\ Stored' = Stored
  BY <1>1 DEF Held, Stored
<1>3. /\ Reserved[t] = opSize[t] /\ opSize[t] \in Nat
      /\ opSize[t] <= Sum(Reserved, Threads) /\ Reserved'[t] = 0
  BY <1>1, ReservedPart DEF Reserved
<1>4. /\ ctl.available \in Nat /\ ctl.committed \in Nat /\ ctl.pending \in Nat
      /\ ctl.totalOccupied \in Nat
      /\ Sum(Stored, Keys) \in Nat /\ Sum(Reserved, Threads) \in Nat
  BY FieldTypes, SumTypes DEF ControlTypes
<1>5. Sum(Reserved', Threads) = Sum(Reserved, Threads) - opSize[t]
  BY <1>1, <1>3, <1>4, ReservedChanges
<1>6. /\ ctl'.totalKeys = ctl.totalKeys /\ ctl'.totalOccupied = ctl.totalOccupied
      /\ ctl'.pending = ctl.pending - opSize[t]
      /\ ctl'.committed = ctl.committed /\ ctl'.available = ctl.available
  BY <1>1, <1>3, <1>4, ControlFields DEF ControlTypes, SubOrZero, Books, Counted
<1>7. Counted'
  BY <1>1, <1>2, <1>5, <1>6 DEF Counted, Books
<1>8. WithinQuota'
  BY <1>3, <1>4, <1>6, ControlConstants DEF WithinQuota, Books
<1>9. WithinDevice'
  BY <1>1, <1>2, <1>3, <1>4, <1>6, ControlConstants, ManagerConstants DEF WithinDevice, Books
<1>. QED
  BY <1>7, <1>8, <1>9 DEF Books

\* What was reserved becomes an entry of that size.
LEMMA CommitBooks ==
    ASSUME Types, Types', ControlTypes, KeyHeld, WriterOwnsKey, FilesFollow, EntriesEmpty,
           Books, NEW t \in Threads, CommitSwapOutEntry(t)
    PROVE  Books'
<1>. DEFINE k == opKey[t]
            n == opSize[t]
<1>1. /\ UNCHANGED <<fileSize, opSize, refresh>>
      /\ \A u \in Threads \ {t} : pc'[u] = pc[u]
      /\ pc[t] \in WriterPcs /\ pc'[t] \notin WriterPcs
      /\ ctl' = OnSwapOutCommitted(ctl, n)
  BY DEF CommitSwapOutEntry, Locked, Goto, disk, locals, Types, WriterPcs
<1>2. k \in Keys /\ status[k] = "absent" /\ dataSize[k] = 0 /\ fileSize[k] = n
  BY NoKeyIsNone DEF CommitSwapOutEntry, Locked, Goto, KeyHeld, WriterOwnsKey,
     FilesFollow, EntriesEmpty, WriterPcs, SwapOutPcs
<1>3. /\ \A j \in Keys \ {k} : status'[j] = status[j] /\ dataSize'[j] = dataSize[j]
      /\ status'[k] = "active" /\ dataSize'[k] = n
  BY <1>2 DEF CommitSwapOutEntry, Types
<1>4. k \notin Held /\ Held' = Held \cup {k}
  BY <1>2, <1>3 DEF Held
<1>5. Cardinality(Held') = Cardinality(Held) + 1
  BY <1>4, HeldFinite, FS_AddElement
<1>6. /\ Reserved[t] = n /\ n \in Nat
      /\ n <= Sum(Reserved, Threads) /\ Reserved'[t] = 0
  BY <1>1, ReservedPart DEF Reserved
<1>7. /\ ctl.available \in Nat /\ ctl.committed \in Nat /\ ctl.pending \in Nat
      /\ ctl.totalOccupied \in Nat /\ ctl.totalKeys \in Nat
      /\ refresh.base \in Nat /\ refresh.space \in Nat
      /\ Sum(Stored, Keys) \in Nat /\ Sum(Reserved, Threads) \in Nat
      /\ Sum(dataSize, Keys) \in Nat
  BY FieldTypes, SumTypes DEF ControlTypes
<1>8. Sum(Reserved', Threads) = Sum(Reserved, Threads) - n
  BY <1>1, <1>6, <1>7, ReservedChanges
<1>9. Sum(dataSize', Keys) = Sum(dataSize, Keys) + n
  <2>1. dataSize \in [Keys -> Int] /\ dataSize' \in [Keys -> Int]
    BY DEF Types
  <2>2. Sum(dataSize', Keys) = Sum(dataSize, Keys) - dataSize[k] + dataSize'[k]
    BY <1>2, <1>3, <2>1, KeysFinite, SumChanges
  <2>. QED
    BY <1>2, <1>3, <1>6, <1>7, <2>2
<1>10. Sum(Stored', Keys) = Sum(Stored, Keys) + n
  <2>1. Stored \in [Keys -> Int] /\ Stored' \in [Keys -> Int]
    BY SumTypes, SumTypesNext
  <2>2. /\ \A j \in Keys \ {k} : Stored[j] = Stored'[j]
        /\ Stored[k] = 0 /\ Stored'[k] = n
    BY <1>1, <1>2, <1>3 DEF Stored
  <2>3. Sum(Stored', Keys) = Sum(Stored, Keys) - Stored[k] + Stored'[k]
    BY <1>2, <2>1, <2>2, KeysFinite, SumChanges
  <2>. QED
    BY <1>6, <1>7, <2>2, <2>3
<1>11. /\ ctl'.totalKeys = ctl.totalKeys + 1 /\ ctl'.totalOccupied = ctl.totalOccupied + n
       /\ ctl'.pending = ctl.pending - n
       /\ ctl'.committed = ctl.committed + n /\ ctl'.available = ctl.available
  BY <1>1, <1>6, <1>7, ControlFields DEF ControlTypes, SubOrZero, Books, Counted
<1>. HIDE DEF k, n
<1>12. Counted'
  BY <1>5, <1>8, <1>9, <1>11 DEF Counted, Books
<1>13. WithinQuota'
  BY <1>6, <1>7, <1>11, ControlConstants DEF WithinQuota, Books
<1>14. WithinDevice'
  BY <1>1, <1>6, <1>7, <1>10, <1>11, ControlConstants, ManagerConstants DEF WithinDevice, Books
<1>. QED
  BY <1>12, <1>13, <1>14 DEF Books

\* An entry that is dropped is taken off, once and by its own size.
LEMMA EraseBooks ==
    ASSUME Types, Types', ControlTypes, Books, NEW k \in Keys, Erases(k)
    PROVE  Books'
<1>. DEFINE n == dataSize[k]
<1>1. /\ ctl.available \in Nat /\ ctl.committed \in Nat /\ ctl.pending \in Nat
      /\ ctl.totalOccupied \in Nat /\ ctl.totalKeys \in Nat
      /\ refresh.base \in Nat /\ refresh.space \in Nat
      /\ Sum(Stored, Keys) \in Nat /\ Sum(Stored', Keys) \in Nat
      /\ Sum(dataSize, Keys) \in Nat
  BY FieldTypes, SumTypes, SumTypesNext DEF ControlTypes
<1>2. n \in Nat /\ n <= Sum(dataSize, Keys)
  BY KeysFinite, SumNat DEF Types
<1>3. Sum(dataSize', Keys) = Sum(dataSize, Keys) - n
  <2>1. dataSize \in [Keys -> Int] /\ dataSize' \in [Keys -> Int]
    BY DEF Types
  <2>2. dataSize'[k] = 0 /\ \A j \in Keys \ {k} : dataSize[j] = dataSize'[j]
    BY DEF Erases, Types
  <2>3. Sum(dataSize', Keys) = Sum(dataSize, Keys) - dataSize[k] + dataSize'[k]
    BY <2>1, <2>2, KeysFinite, SumChanges
  <2>. QED
    BY <1>1, <1>2, <2>2, <2>3
<1>4. Cardinality(Held') = Cardinality(Held) - 1 /\ Cardinality(Held) >= 1
  <2>1. Cardinality(Held') = Cardinality(Held) - 1
    BY HeldFinite, FS_RemoveElement DEF Erases
  <2>2. Cardinality(Held) # 0
    BY HeldFinite, FS_EmptySet DEF Erases
  <2>. QED
    BY <2>1, <2>2, HeldFinite
<1>5. Sum(Stored', Keys) <= Sum(Stored, Keys)
  BY LessStored DEF Erases
<1>6. /\ ctl'.totalKeys = ctl.totalKeys - 1 /\ ctl'.totalOccupied = ctl.totalOccupied - n
      /\ ctl'.pending = ctl.pending
      /\ ctl'.committed = ctl.committed /\ ctl'.available = ctl.available
  <2>1. ctl' = OnEntryRemoved(ctl, n) /\ ctl \in ControlState
    BY DEF Erases, ControlTypes
  <2>2. ctl.totalKeys >= 1 /\ ctl.totalOccupied >= n
    BY <1>2, <1>4 DEF Books, Counted
  <2>. HIDE DEF n
  <2>. QED
    BY <1>1, <1>2, <2>1, <2>2, ControlFields DEF SubOrZero
<1>7. Reserved' = Reserved /\ refresh' = refresh
  BY DEF Erases
<1>. HIDE DEF n
<1>8. Counted'
  BY <1>3, <1>4, <1>6, <1>7 DEF Counted, Books
<1>9. WithinQuota'
  BY <1>1, <1>2, <1>6, ControlConstants DEF WithinQuota, Books
<1>10. WithinDevice'
  BY <1>1, <1>5, <1>6, <1>7, ControlConstants, ManagerConstants DEF WithinDevice, Books
<1>. QED
  BY <1>8, <1>9, <1>10 DEF Books

\* Every step keeps the books.
LEMMA AccountsNext ==
    ASSUME IInv, IInv', AccountsInv, [Next]_vars
    PROVE  AccountsInv'
<1>. USE DEF IInv, Discipline, AccountsInv
<1>1. EntriesEmpty' /\ FilesBounded' /\ RefreshHeld'
  BY EntriesEmptyNext, FilesBoundedNext, RefreshHeldNext
<1>2. CASE Quiet
  BY <1>1, <1>2, QuietBooks
<1>3. CASE \E k \in Keys : Erases(k)
  BY <1>1, <1>3, EraseBooks
<1>4. ASSUME NEW t \in Threads,
             \/ InitManager(t) \/ DestroyFinish(t)
             \/ RefreshBegin(t) \/ GetFreeSize(t) \/ RefreshEnd(t)
             \/ ReserveSwapOut(t) \/ CancelSwapOut(t) \/ CommitSwapOutEntry(t)
      PROVE  Books'
  BY <1>1, <1>4, InitBooks, DestroyBooks, RefreshBooks, ReserveBooks, CancelBooks,
     CommitBooks
<1>. QED
  BY <1>1, <1>2, <1>3, <1>4, StepKinds

\* A manager nobody has used yet.
Unused ==
    /\ \A t \in Threads : pc[t] = "idle"
    /\ \A k \in Keys : /\ status[k] = "absent" /\ dataSize[k] = 0
                       /\ file[k] = "none" /\ fileSize[k] = 0
    /\ ctl = FreshControl /\ refresh = NotRefreshing

\* The accounts are right at first.
LEMMA UnusedAccounts == IInv /\ Unused => AccountsInv
<1>. SUFFICES ASSUME IInv, Unused PROVE AccountsInv
  OBVIOUS
<1>2. EntriesEmpty /\ FilesBounded /\ Active = {}
  BY DEF Unused, EntriesEmpty, FilesBounded, Active, ActivePcs, SwapOutPcs, WriterPcs
<1>3. RefreshHeld
  BY ManagerConstants DEF Unused, RefreshHeld, NotRefreshing
<1>4. /\ Cardinality(Held) = 0 /\ Sum(dataSize, Keys) = 0
      /\ Sum(Reserved, Threads) = 0 /\ Sum(Stored, Keys) = 0
  <2>1. \A k \in Keys : status[k] = "absent"
    BY DEF Unused
  <2>. QED
    BY <1>2, <2>1, NothingThere DEF IInv
<1>5. /\ ctl.totalKeys = 0 /\ ctl.totalOccupied = 0 /\ ctl.pending = 0
      /\ ctl.committed = 0 /\ ctl.available = 0
  BY DEF Unused, FreshControl, InitWithAvailableSpace
<1>6. refresh.holder = NoThread /\ ~ refresh.answered
  BY DEF Unused, NotRefreshing
<1>7. Counted /\ WithinQuota
  BY <1>4, <1>5, ControlConstants DEF Counted, WithinQuota
<1>8. WithinDevice
  BY <1>4, <1>5, <1>6, ControlConstants, ManagerConstants DEF WithinDevice
<1>. QED
  BY <1>2, <1>3, <1>7, <1>8 DEF AccountsInv, Books

LEMMA InitAccounts == Init => AccountsInv
BY InitIInv, UnusedAccounts DEF Init, Unused

LEMMA AccountsHold ==
    ASSUME AtMostOneDestroyer
    PROVE  Spec => [](IInv /\ AccountsInv)
<1>1. IInv /\ AccountsInv /\ [Next]_vars => (IInv /\ AccountsInv)'
  BY DestroyersAlone, NextIInv, AccountsNext DEF IInv
<1>. QED
  BY InitIInv, InitAccounts, <1>1, PTL DEF Spec

-----------------------------------------------------------------------------
(* What the books are worth.                                               *)

\* Reservations are those of the threads that write.
LEMMA ReservedByWriters ==
    ASSUME Types
    PROVE  Sum(Reserved, Threads) = Sum(opSize, Writers)
<1>1. Writers \in SUBSET Threads /\ Reserved \in [Threads -> Int]
  BY SumTypes DEF Writers
<1>2. /\ \A t \in Writers : Reserved[t] = opSize[t]
      /\ \A t \in Threads \ Writers : Reserved[t] = 0
  BY DEF Reserved, Writers
<1>. QED
  BY <1>1, <1>2, ManagerConstants, SumPart

LEMMA AccountsMatchFromInv == IInv /\ AccountsInv => AccountsMatch
<1>. SUFFICES ASSUME IInv, AccountsInv PROVE AccountsMatch
  OBVIOUS
<1>1. ctl.pending = Sum(opSize, Writers) /\ ctl.totalOccupied = Sum(dataSize, Keys)
  BY ReservedByWriters DEF IInv, AccountsInv, Books, Counted
<1>2. ctl.totalKeys = Cardinality({k \in Keys : status[k] # "absent"})
  BY DEF AccountsInv, Books, Counted, Held
<1>. QED
  BY <1>1, <1>2, Zenon DEF AccountsMatch, Sum

\* The files that are not leaked take no more than what is stored or reserved.
LEMMA BytesCovered ==
    ASSUME IInv, AccountsInv
    PROVE  /\ Sum(fileSize, Keys \ Leaked) \in Nat
           /\ Sum(fileSize, Keys \ Leaked) <= Sum(Stored, Keys) + Sum(Reserved, Threads)
<1>. DEFINE wr == [k \in Keys |-> IF \E t \in Writers : opKey[t] = k THEN fileSize[k] ELSE 0]
            nl == [k \in Keys |-> IF k \in Leaked THEN 0 ELSE fileSize[k]]
            both == [k \in Keys |-> Stored[k] + wr[k]]
            w == [t \in Writers |-> opSize[t]]
            m == [t \in Writers |-> opKey[t]]
<1>0. Types /\ KeyHeld /\ WriterOwnsKey /\ FilesBounded
  BY DEF IInv, Discipline, AccountsInv
<1>1. wr \in [Keys -> Nat] /\ nl \in [Keys -> Nat] /\ Stored \in [Keys -> Nat]
  BY <1>0, SumTypes DEF Types
<1>2. \A k \in Keys : nl[k] <= Stored[k] + wr[k]
  <2>. SUFFICES ASSUME NEW k \in Keys PROVE nl[k] <= Stored[k] + wr[k]
    OBVIOUS
  <2>1. fileSize[k] \in Nat
    BY <1>0 DEF Types
  <2>2. k \notin Leaked => \/ status[k] # "absent" \/ fileSize[k] = 0
                          \/ \E t \in Writers : opKey[t] = k
    BY <1>0 DEF Leaked, FilesBounded
  <2>. QED
    BY <2>1, <2>2 DEF Stored
<1>3. Sum(nl, Keys) <= Sum(Stored, Keys) + Sum(wr, Keys)
  <2>1. /\ both \in [Keys -> Int] /\ nl \in [Keys -> Int]
        /\ wr \in [Keys -> Int] /\ Stored \in [Keys -> Int]
    BY <1>1
  <2>2. (\A k \in Keys : nl[k] <= both[k]) /\ (\A k \in Keys : both[k] = Stored[k] + wr[k])
    BY <1>2
  <2>. HIDE DEF both, nl, wr
  <2>3. Sum(nl, Keys) <= Sum(both, Keys)
    BY <2>1, <2>2, KeysFinite, SumMonotone
  <2>4. Sum(both, Keys) = Sum(Stored, Keys) + Sum(wr, Keys)
    BY <2>1, <2>2, KeysFinite, SumAdd
  <2>. QED
    BY <2>3, <2>4
<1>4. Sum(nl, Keys) = Sum(fileSize, Keys \ Leaked)
  <2>1. /\ Keys \ Leaked \in SUBSET Keys /\ nl \in [Keys -> Int]
        /\ \A k \in Keys \ Leaked : nl[k] = fileSize[k]
        /\ \A k \in Keys \ (Keys \ Leaked) : nl[k] = 0
    BY <1>1
  <2>. HIDE DEF nl
  <2>. QED
    BY <2>1, KeysFinite, SumPart
<1>5. Sum(wr, Keys) <= Sum(w, Writers)
  <2>1. \A t \in Writers : /\ t \in Threads /\ opKey[t] \in Keys /\ opSize[t] \in Nat
                           /\ pc[t] \in SwapOutPcs
                           /\ fileSize[opKey[t]] <= opSize[t]
    BY <1>0 DEF Writers, KeyHeld, FilesBounded, Types, SwapOutPcs
  <2>2. w \in [Writers -> Nat] /\ m \in [Writers -> Keys]
    BY <2>1
  <2>3. \A x, y \in Writers : m[x] = m[y] => x = y
    BY <1>0, <2>1, NoKeyIsNone DEF WriterOwnsKey
  <2>4. \A x \in Writers : wr[m[x]] <= w[x]
    BY <2>1
  <2>5. \A k \in Keys : (\A x \in Writers : m[x] # k) => wr[k] = 0
    OBVIOUS
  <2>6. IsFiniteSet(Writers)
    BY ThreadSetsFinite DEF Writers
  <2>. HIDE DEF wr, w, m
  <2>. QED
    BY <1>1, <2>2, <2>3, <2>4, <2>5, <2>6, KeysFinite, SumCovered
<1>6. Sum(w, Writers) = Sum(Reserved, Threads)
  <2>1. IsFiniteSet(Writers) /\ \A t \in Writers : w[t] = opSize[t] /\ w[t] \in Int
    BY <1>0, ThreadSetsFinite DEF Writers, Types
  <2>. HIDE DEF w
  <2>2. Sum(w, Writers) = Sum(opSize, Writers)
    BY <2>1, SumAgrees
  <2>. QED
    BY <1>0, <2>2, ReservedByWriters
<1>7. /\ Sum(nl, Keys) \in Nat /\ Sum(wr, Keys) \in Nat
      /\ Sum(Stored, Keys) \in Nat /\ Sum(Reserved, Threads) \in Nat
  <2>. HIDE DEF nl, wr
  <2>. QED
    BY <1>0, <1>1, KeysFinite, SumNat, SumTypes
<1>. HIDE DEF nl, wr, w, m, both
<1>. QED
  BY <1>3, <1>4, <1>5, <1>6, <1>7

LEMMA LimitsFromInv == IInv /\ AccountsInv => LimitsKept
<1>. SUFFICES ASSUME IInv, AccountsInv PROVE LimitsKept
  OBVIOUS
<1>. DEFINE bytes == Sum(fileSize, Keys \ Leaked)
<1>0. Types /\ Books /\ FilesBounded /\ EntriesEmpty /\ ControlTypes
  BY DEF IInv, AccountsInv
<1>1. bytes \in Nat /\ bytes <= Sum(Stored, Keys) + ctl.pending
  BY BytesCovered, <1>0 DEF Books, Counted
<1>2. /\ Sum(Stored, Keys) \in Nat /\ Sum(dataSize, Keys) \in Nat /\ ctl.pending \in Nat
      /\ ctl.totalOccupied \in Nat
  BY <1>0, SumTypes, FieldTypes DEF ControlTypes
<1>3. Sum(Stored, Keys) <= ctl.totalOccupied
  <2>1. /\ Stored \in [Keys -> Int] /\ dataSize \in [Keys -> Int]
        /\ \A k \in Keys : Stored[k] <= dataSize[k]
    BY <1>0 DEF Stored, FilesBounded, Types
  <2>. QED
    BY <1>0, <2>1, KeysFinite, SumMonotone DEF Books, Counted
<1>4. QuotaHeld
  <2>1. BytesOf(Keys \ Leaked) = bytes
    BY Zenon DEF BytesOf, Sum
  <2>2. bytes <= SpaceLimit
    <3>. HIDE DEF bytes
    <3>. QED
      BY <1>0, <1>1, <1>2, <1>3, ControlConstants DEF Books, WithinQuota
  <2>. QED
    BY <2>1, <2>2 DEF QuotaHeld
<1>5. Sum(fileSize, Keys) = bytes + Sum(fileSize, Leaked) /\ Sum(fileSize, Leaked) \in Nat
  <2>. DEFINE nl == [k \in Keys |-> IF k \in Leaked THEN 0 ELSE fileSize[k]]
              lk == [k \in Keys |-> IF k \in Leaked THEN fileSize[k] ELSE 0]
  <2>1. nl \in [Keys -> Nat] /\ lk \in [Keys -> Nat] /\ nl \in [Keys -> Int] /\ lk \in [Keys -> Int]
    BY <1>0 DEF Types
  <2>2. \A k \in Keys : fileSize[k] = nl[k] + lk[k]
    BY <1>0 DEF Types
  <2>3. /\ Keys \ Leaked \in SUBSET Keys
        /\ \A k \in Keys \ Leaked : nl[k] = fileSize[k]
        /\ \A k \in Keys \ (Keys \ Leaked) : nl[k] = 0
    OBVIOUS
  <2>4. /\ Leaked \in SUBSET Keys
        /\ \A k \in Leaked : lk[k] = fileSize[k]
        /\ \A k \in Keys \ Leaked : lk[k] = 0
    BY DEF Leaked
  <2>. HIDE DEF nl, lk
  <2>5. Sum(nl, Keys) = Sum(fileSize, Keys \ Leaked)
    BY <2>1, <2>3, KeysFinite, SumPart
  <2>6. Sum(lk, Keys) = Sum(fileSize, Leaked)
    BY <2>1, <2>4, KeysFinite, SumPart
  <2>7. Sum(fileSize, Keys) = Sum(nl, Keys) + Sum(lk, Keys)
    BY <2>1, <2>2, KeysFinite, SumAdd
  <2>8. Sum(lk, Keys) \in Nat
    BY <2>1, KeysFinite, SumNat
  <2>. QED
    BY <2>5, <2>6, <2>7, <2>8
<1>6. DeviceFloor
  <2>1. DeviceFree + BytesOf(Leaked) = DeviceSize - Sum(fileSize, Keys) + Sum(fileSize, Leaked)
    BY Zenon DEF DeviceFree, BytesOf, Sum
  <2>2. DeviceSize >= MinAvailable => DeviceSize - Sum(fileSize, Keys) + Sum(fileSize, Leaked) >= MinAvailable
    <3>. HIDE DEF bytes
    <3>. QED
      BY <1>0, <1>1, <1>2, <1>5, ControlConstants, ManagerConstants DEF Books, WithinDevice
  <2>. QED
    BY <2>1, <2>2 DEF DeviceFloor
<1>. QED
  BY <1>4, <1>6 DEF LimitsKept

\* The counters of the accountant agree with the entry table and with the
\* SwapOuts under way, whatever failed in between: no reservation is lost or
\* kept, no entry is counted twice, for any number of threads and keys.
THEOREM AccountsRight ==
    ASSUME AtMostOneDestroyer
    PROVE  Spec => []AccountsMatch
BY AccountsHold, AccountsMatchFromInv, PTL

\* However many SwapOuts run at once, together they stay within the quota and
\* leave the device its floor, although each is let in alone and the free size
\* is old when it is used.
THEOREM LimitsHold ==
    ASSUME AtMostOneDestroyer
    PROVE  Spec => []LimitsKept
BY AccountsHold, LimitsFromInv, PTL

-----------------------------------------------------------------------------
(* The C API.                                                              *)

\* The phases of CreateManager and DestroyManager, in which the thread has the
\* handle for itself, and those of a call behind the guard.
CreatePcs  == {"init", "register"}
DestroyingPcs == {"destroy", "unregister"}
OwnerPcs   == CreatePcs \cup DestroyingPcs \cup {"delete"}
GuardedPcs == {"guarded", "calling"}
Guarded    == {t \in Threads : where[t] \in GuardedPcs}

ApiTypes ==
    /\ activeCalls \in Int
    /\ where \in [Threads -> {"out"} \cup OwnerPcs \cup GuardedPcs]

\* Whoever creates or destroys the handle is alone with it.
OwnerAlone ==
    \A t, u \in Threads : where[t] \in OwnerPcs /\ u # t => where[u] = "out"

\* Where a thread in the API can be in the manager.
PhasesMatch ==
    \A t \in Threads :
        /\ where[t] \notin {"calling", "destroy"} => pc[t] = "idle"
        /\ where[t] = "calling" => pc[t] \notin DestroyPcs
        /\ where[t] = "destroy" => pc[t] \in {"idle"} \cup DestroyPcs

\* What the table and the object say about each phase.
TableMatches ==
    /\ registered => allocated
    /\ \A t \in Threads :
        /\ where[t] \in CreatePcs \cup {"delete"} => allocated /\ ~registered
        /\ where[t] \in DestroyingPcs => registered /\ destroying
        /\ where[t] \in GuardedPcs => registered /\ ~destroying

CallsAreCounted == registered => activeCalls = Cardinality(Guarded)

ApiInv ==
    /\ IInv
    /\ ApiTypes /\ OwnerAlone /\ PhasesMatch /\ TableMatches /\ CallsAreCounted

-----------------------------------------------------------------------------
(* The manager behind the API.                                             *)

\* The operations that a call begins.
Begins(t) ==
    \/ GetStats(t) \/ CollectRemovableEntries(t)
    \/ \E n \in Sizes : PrepareForSwapOut(t, n)
    \/ \E k \in Keys : PrepareForSwapIn(t, k) \/ PrepareRemoveEntry(t, k)

\* An operation that begins or goes on moves its own thread, and not into Destroy.
LEMMA OperationMoves ==
    ASSUME Types, NEW t \in Threads,
           Begins(t) \/ (Progress(t) /\ pc[t] \notin DestroyPcs)
    PROVE  /\ \A u \in Threads \ {t} : pc'[u] = pc[u]
           /\ pc'[t] \notin DestroyPcs
<1>. DEFINE Moved == /\ \A u \in Threads \ {t} : pc'[u] = pc[u]
                     /\ pc'[t] \notin DestroyPcs
<1>1. ASSUME Begins(t) PROVE Moved
  BY <1>1 DEF Begins, GetStats, CollectRemovableEntries, PrepareForSwapOut,
     PrepareForSwapIn, PrepareRemoveEntry, Locked, Goto, Types, DestroyPcs
<1>2. ASSUME Moves(t) PROVE Moved
  BY <1>2 DEF Moves, Arrows, AfterRefresh, Goto, Types, DestroyPcs
<1>3. ASSUME \/ WriteTmp(t) \/ RenameTmp(t) \/ UndoTmp(t) \/ CommitSwapOutEntry(t)
             \/ LookupKeyForSwapIn(t) \/ FinishSwapIn(t)
      PROVE  Moved
  BY <1>3 DEF WriteTmp, RenameTmp, UndoTmp, CommitSwapOutEntry, LookupKeyForSwapIn,
     FinishSwapIn, Locked, Goto, Types, DestroyPcs
<1>4. ASSUME \/ RemoveSwapFile(t) \/ FinalizeRemoveEntry(t) \/ UnlinkNext(t)
             \/ FinalizeNext(t) \/ FinalizeRemoveAll(t) \/ EndOperation(t)
      PROVE  Moved
  BY <1>4 DEF RemoveSwapFile, FinalizeRemoveEntry, UnlinkNext, FinalizeNext,
     FinalizeRemoveAll, EndOperation, Locked, Goto, Types, DestroyPcs
<1>5. ASSUME Progress(t), pc[t] \notin DestroyPcs PROVE Moved
  <2>1. ~WaitForActiveOps(t) /\ ~DestroyFinish(t) /\ ~DestroyBusy(t)
    BY <1>5 DEF WaitForActiveOps, DestroyFinish, DestroyBusy, Locked, Goto, DestroyPcs
  <2>. QED
    BY <1>2, <1>3, <1>4, <1>5, <2>1, MovesSteps DEF Progress
<1>. QED
  BY <1>1, <1>5

\* A new object is a manager in its first state, whatever the last one left.
LEMMA AllocateIInv ==
    ASSUME ApiInv, NEW t \in Threads, AllocateManager(t)
    PROVE  IInv'
<1>. USE DEF ApiInv
<1>1. \A u \in Threads : where[u] = "out" /\ pc[u] = "idle"
  BY DEF AllocateManager, ApiTypes, OwnerPcs, TableMatches, GuardedPcs, PhasesMatch,
     CreatePcs, DestroyingPcs
<1>2. /\ pc' = pc /\ opKey' = opKey /\ opSize' = opSize
      /\ todo' = todo /\ gone' = gone /\ kept' = kept
  BY DEF AllocateManager, locals, batch
<1>3. \A u \in Threads : /\ opKey[u] = NoKey
                         /\ todo[u] = {} /\ gone[u] = {} /\ kept[u] = {}
  BY <1>1 DEF IInv, Discipline, KeyHeld, BatchIsAlone, IdlePcs, BatchPcs
<1>4. /\ initialized' = FALSE /\ shuttingDown' = FALSE /\ removeAllInProgress' = FALSE
      /\ activeOps' = 0 /\ nextKeyId' = 1
      /\ status' = [k \in Keys |-> "absent"]
      /\ readCount' = [k \in Keys |-> 0] /\ dataSize' = [k \in Keys |-> 0]
      /\ session' = [dir |-> FALSE, lock |-> FALSE]
      /\ file' = [k \in Keys |-> "none"] /\ fileSize' = [k \in Keys |-> 0]
      /\ ctl' = FreshControl /\ refresh' = NotRefreshing
  BY DEF AllocateManager, Erased
<1>5. Types'
  <2>1. initialized' \in BOOLEAN /\ shuttingDown' \in BOOLEAN /\ removeAllInProgress' \in BOOLEAN
    BY <1>4, Zenon
  <2>2. activeOps' \in Int /\ nextKeyId' \in 1 .. MaxKey + 1
    BY <1>4, ManagerConstants
  <2>3. /\ status' \in [Keys -> {"absent", "active", "removing"}]
        /\ readCount' \in [Keys -> Int] /\ dataSize' \in [Keys -> Nat]
        /\ file' \in [Keys -> {"none", "tmp", "swap"}] /\ fileSize' \in [Keys -> Nat]
        /\ session' \in [dir: BOOLEAN, lock: BOOLEAN]
    BY <1>4
  <2>. QED
    BY <1>2, <2>1, <2>2, <2>3 DEF IInv, Types
<1>6. ControlTypes'
  BY <1>4, InitTypes DEF ControlTypes, NotRefreshing
<1>7. Active' = {} /\ \A k \in Keys : Readers(k)' = {}
  BY <1>1, <1>2 DEF Active, ActivePcs, Readers
<1>8. OpsCounted' /\ ReadsCounted'
  BY <1>4, <1>7, FS_EmptySet DEF OpsCounted, ReadsCounted
<1>9. Discipline'
  BY <1>1, <1>2, <1>3, <1>4 DEF Discipline, KeyHeld, WriterOwnsKey, FreshKeysAbsent,
     ReadersHaveEntry, DeleterIsAlone, BatchIsAlone, RemovingHasOwner, ReaderPcs,
     DeleterPcs, BatchPcs, WriterPcs, SwapOutPcs
<1>10. FilesFollow'
  BY <1>1, <1>2, <1>3, <1>4 DEF FilesFollow, ReaderPcs
<1>11. DoorShut'
  BY <1>1, <1>2, <1>4, <1>7 DEF DoorShut, DestroyPcs
<1>. QED
  BY <1>5, <1>6, <1>8, <1>9, <1>10, <1>11 DEF IInv

\* A step of the API is one of the manager, or none of its, or makes a new one.
LEMMA ApiStepKinds ==
    ASSUME [ApiNext]_<<vars, apiVars>>
    PROVE  [Next]_vars \/ \E t \in Threads : AllocateManager(t)
<1>1. ASSUME NEW t \in Threads, ApiStep(t), ~AllocateManager(t)
      PROVE  [Next]_vars
  <2>1. CASE Step(t)
    BY <2>1 DEF Next
  <2>2. CASE UNCHANGED vars
    BY <2>2
  <2>3. Step(t) \/ UNCHANGED vars
    BY <1>1 DEF ApiStep, InitImpl, RegisterManager, EnterCall, BeginOperation,
       ContinueOperation, LeaveCall, BeginDestroy, DestroyImpl, DestroyImplReturns,
       UnregisterManager, DeleteManager, Step, Call, Progress
  <2>. QED
    BY <2>1, <2>2, <2>3
<1>2. CASE UNCHANGED <<vars, apiVars>>
  BY <1>2
<1>. QED
  BY <1>1, <1>2 DEF ApiNext

\* Every step of the API keeps the manager's invariant: DestroyManager runs alone.
LEMMA ApiIInvNext ==
    ASSUME ApiInv, [ApiNext]_<<vars, apiVars>>
    PROVE  IInv'
<1>1. OneDestroying
  BY DEF ApiInv, OneDestroying, PhasesMatch, OwnerAlone, OwnerPcs, DestroyingPcs,
     DestroyPcs
<1>. QED
  BY <1>1, ApiStepKinds, NextIInv, AllocateIInv DEF ApiInv

\* It keeps the accounts as well: those of a new object are right.
LEMMA ApiAccountsNext ==
    ASSUME ApiInv, AccountsInv, IInv', [ApiNext]_<<vars, apiVars>>
    PROVE  AccountsInv'
<1>1. CASE [Next]_vars
  BY <1>1, AccountsNext DEF ApiInv
<1>2. ASSUME NEW t \in Threads, AllocateManager(t)
      PROVE  AccountsInv'
  <2>1. \A u \in Threads : where[u] = "out" /\ pc[u] = "idle"
    BY <1>2 DEF ApiInv, AllocateManager, ApiTypes, OwnerPcs, TableMatches, GuardedPcs,
       PhasesMatch, CreatePcs, DestroyingPcs
  <2>2. Unused'
    BY <1>2, <2>1 DEF AllocateManager, Erased, locals, Unused
  <2>3. (IInv /\ Unused => AccountsInv)'
    BY UnusedAccounts, PTL
  <2>. QED
    BY <2>2, <2>3
<1>. QED
  BY <1>1, <1>2, ApiStepKinds

-----------------------------------------------------------------------------
(* The table of handles.                                                   *)

\* Every action moves its thread in the API, or leaves all threads where they are.
LEMMA ApiTypesNext ==
    ASSUME ApiInv, [ApiNext]_<<vars, apiVars>>
    PROVE  ApiTypes'
<1>. USE DEF ApiInv, ApiTypes, OwnerPcs, CreatePcs, DestroyingPcs, GuardedPcs
<1>1. CASE UNCHANGED <<vars, apiVars>>
  BY <1>1 DEF apiVars
<1>2. ASSUME NEW t \in Threads,
             \/ AllocateManager(t) \/ InitImpl(t) \/ RegisterManager(t)
             \/ EnterCall(t) \/ BeginOperation(t) \/ ContinueOperation(t)
      PROVE  ApiTypes'
  BY <1>2 DEF AllocateManager, InitImpl, RegisterManager, EnterCall, BeginOperation,
     ContinueOperation, Enter, apiVars
<1>3. ASSUME NEW t \in Threads,
             \/ LeaveCall(t) \/ BeginDestroy(t) \/ DestroyImpl(t)
             \/ DestroyImplReturns(t) \/ UnregisterManager(t) \/ DeleteManager(t)
      PROVE  ApiTypes'
  BY <1>3 DEF LeaveCall, BeginDestroy, DestroyImpl, DestroyImplReturns,
     UnregisterManager, DeleteManager, Enter, apiVars
<1>. QED
  BY <1>1, <1>2, <1>3 DEF ApiNext, ApiStep

\* Counting the calls behind the guard.
LEMMA GuardedStep ==
    ASSUME ApiTypes, NEW t \in Threads, NEW from, NEW to, Enter(t, from, to)
    PROVE  /\ (from \in GuardedPcs <=> to \in GuardedPcs) => Guarded' = Guarded
           /\ from \notin GuardedPcs /\ to \in GuardedPcs =>
                Cardinality(Guarded') = Cardinality(Guarded) + 1
           /\ from \in GuardedPcs /\ to \notin GuardedPcs =>
                /\ Cardinality(Guarded') = Cardinality(Guarded) - 1
                /\ Cardinality(Guarded) >= 1
<1>. DEFINE G   == Guarded
            On  == G \cup {t}
            Off == G \ {t}
<1>1. G \in SUBSET Threads /\ (t \in G <=> from \in GuardedPcs)
  BY DEF Guarded, Enter
<1>2. Guarded' = IF to \in GuardedPcs THEN On ELSE Off
  BY DEF Guarded, Enter, ApiTypes
<1>3. /\ IsFiniteSet(G) /\ Cardinality(G) \in Nat
      /\ Cardinality(On) = IF t \in G THEN Cardinality(G) ELSE Cardinality(G) + 1
      /\ Cardinality(Off) = IF t \in G THEN Cardinality(G) - 1 ELSE Cardinality(G)
      /\ Cardinality(Off) \in Nat
  BY <1>1, ThreadSetsFinite, FS_AddElement, FS_RemoveElement
<1>. HIDE DEF G
<1>4. (from \in GuardedPcs <=> to \in GuardedPcs) => Guarded' = G
  BY <1>1, <1>2
<1>. QED
  BY <1>1, <1>2, <1>3, <1>4 DEF G

\* With a registered handle and no call counted, nobody is behind the guard.
LEMMA NobodyGuarded ==
    ASSUME CallsAreCounted, registered, activeCalls = 0
    PROVE  \A u \in Threads : where[u] \notin GuardedPcs
<1>1. IsFiniteSet(Guarded)
  BY ThreadSetsFinite DEF Guarded
<1>2. Guarded = {}
  BY <1>1, FS_EmptySet DEF CallsAreCounted
<1>. QED
  BY <1>2 DEF Guarded

\* The table counts the calls that are in, whoever comes and goes.
LEMMA CallsAreCountedNext ==
    ASSUME ApiInv, [ApiNext]_<<vars, apiVars>>
    PROVE  CallsAreCounted'
<1>. USE DEF ApiInv
<1>1. CASE UNCHANGED <<vars, apiVars>>
  BY <1>1 DEF apiVars, CallsAreCounted, Guarded
<1>2. ASSUME NEW t \in Threads, AllocateManager(t) \/ InitImpl(t)
      PROVE  CallsAreCounted'
  <2>1. PICK from, to : /\ Enter(t, from, to)
                        /\ from \notin GuardedPcs /\ to \notin GuardedPcs
    BY <1>2 DEF AllocateManager, InitImpl, GuardedPcs
  <2>2. Guarded' = Guarded
    BY <2>1, GuardedStep
  <2>. QED
    BY <1>2, <2>2 DEF AllocateManager, InitImpl, CallsAreCounted
<1>3. ASSUME NEW t \in Threads, RegisterManager(t)
      PROVE  CallsAreCounted'
  <2>1. \A u \in Threads : where'[u] \notin GuardedPcs
    BY <1>3 DEF RegisterManager, Enter, OwnerAlone, ApiTypes, OwnerPcs, CreatePcs,
       GuardedPcs
  <2>2. Guarded' = {}
    BY <2>1 DEF Guarded
  <2>. QED
    BY <1>3, <2>2, FS_EmptySet DEF RegisterManager, CallsAreCounted
<1>4. ASSUME NEW t \in Threads, EnterCall(t)
      PROVE  CallsAreCounted'
  <2>1. Cardinality(Guarded') = Cardinality(Guarded) + 1
    BY <1>4, GuardedStep DEF EnterCall, GuardedPcs
  <2>. QED
    BY <1>4, <2>1 DEF EnterCall, CallsAreCounted
<1>5. ASSUME NEW t \in Threads, BeginOperation(t)
      PROVE  CallsAreCounted'
  <2>1. Guarded' = Guarded
    BY <1>5, GuardedStep DEF BeginOperation, GuardedPcs
  <2>. QED
    BY <1>5, <2>1 DEF BeginOperation, CallsAreCounted
<1>6. ASSUME NEW t \in Threads, ContinueOperation(t) \/ DestroyImpl(t)
      PROVE  CallsAreCounted'
  BY <1>6 DEF ContinueOperation, DestroyImpl, apiVars, CallsAreCounted, Guarded
<1>7. ASSUME NEW t \in Threads, LeaveCall(t)
      PROVE  CallsAreCounted'
  <2>1. /\ Cardinality(Guarded') = Cardinality(Guarded) - 1
        /\ Cardinality(Guarded) >= 1
    BY <1>7, GuardedStep DEF LeaveCall, GuardedPcs
  <2>. QED
    BY <1>7, <2>1 DEF LeaveCall, CallsAreCounted
<1>8. ASSUME NEW t \in Threads,
             \/ BeginDestroy(t) \/ DestroyImplReturns(t)
             \/ UnregisterManager(t) \/ DeleteManager(t)
      PROVE  CallsAreCounted'
  <2>1. PICK from, to : /\ Enter(t, from, to)
                        /\ from \notin GuardedPcs /\ to \notin GuardedPcs
    BY <1>8 DEF BeginDestroy, DestroyImplReturns, UnregisterManager, DeleteManager,
       GuardedPcs
  <2>2. Guarded' = Guarded
    BY <2>1, GuardedStep
  <2>. QED
    BY <1>8, <2>2 DEF BeginDestroy, DestroyImplReturns, UnregisterManager,
       DeleteManager, CallsAreCounted
<1>. QED
  BY <1>1, <1>2, <1>3, <1>4, <1>5, <1>6, <1>7, <1>8 DEF ApiNext, ApiStep

\* Create and Destroy have the handle for themselves, and the table says so.
LEMMA OwnerAndTableNext ==
    ASSUME ApiInv, [ApiNext]_<<vars, apiVars>>
    PROVE  OwnerAlone' /\ TableMatches'
<1>. USE DEF ApiInv, ApiTypes, OwnerAlone, TableMatches, OwnerPcs, CreatePcs,
         DestroyingPcs, GuardedPcs, Enter
<1>1. CASE UNCHANGED <<vars, apiVars>>
  BY <1>1 DEF apiVars
<1>2. ASSUME NEW t \in Threads, AllocateManager(t) PROVE OwnerAlone' /\ TableMatches'
  BY <1>2 DEF AllocateManager
<1>3. ASSUME NEW t \in Threads, InitImpl(t) PROVE OwnerAlone' /\ TableMatches'
  BY <1>3 DEF InitImpl
<1>4. ASSUME NEW t \in Threads, RegisterManager(t) PROVE OwnerAlone' /\ TableMatches'
  BY <1>4 DEF RegisterManager
<1>5. ASSUME NEW t \in Threads, EnterCall(t) PROVE OwnerAlone' /\ TableMatches'
  BY <1>5 DEF EnterCall
<1>6. ASSUME NEW t \in Threads, BeginOperation(t) PROVE OwnerAlone' /\ TableMatches'
  BY <1>6 DEF BeginOperation
<1>7. ASSUME NEW t \in Threads, ContinueOperation(t) \/ DestroyImpl(t)
      PROVE  OwnerAlone' /\ TableMatches'
  BY <1>7 DEF ContinueOperation, DestroyImpl, apiVars
<1>8. ASSUME NEW t \in Threads, LeaveCall(t) PROVE OwnerAlone' /\ TableMatches'
  BY <1>8 DEF LeaveCall
<1>9. ASSUME NEW t \in Threads, BeginDestroy(t) PROVE OwnerAlone' /\ TableMatches'
  <2>1. \A u \in Threads : where[u] = "out"
    BY <1>9, NobodyGuarded DEF BeginDestroy
  <2>. QED
    BY <1>9, <2>1 DEF BeginDestroy
<1>10. ASSUME NEW t \in Threads, DestroyImplReturns(t) PROVE OwnerAlone' /\ TableMatches'
  BY <1>10 DEF DestroyImplReturns
<1>11. ASSUME NEW t \in Threads, UnregisterManager(t) PROVE OwnerAlone' /\ TableMatches'
  BY <1>11 DEF UnregisterManager
<1>12. ASSUME NEW t \in Threads, DeleteManager(t) PROVE OwnerAlone' /\ TableMatches'
  BY <1>12 DEF DeleteManager
<1>. QED
  BY <1>1, <1>2, <1>3, <1>4, <1>5, <1>6, <1>7, <1>8, <1>9, <1>10, <1>11, <1>12
  DEF ApiNext, ApiStep

\* A thread outside a call, and outside Destroy, is not inside the manager.
LEMMA PhasesMatchNext ==
    ASSUME ApiInv, [ApiNext]_<<vars, apiVars>>
    PROVE  PhasesMatch'
<1>. USE DEF ApiInv, ApiTypes, PhasesMatch, Enter
<1>0. Types
  BY DEF IInv
<1>1. CASE UNCHANGED <<vars, apiVars>>
  BY <1>1 DEF apiVars, vars
<1>2. ASSUME NEW t \in Threads,
             \/ AllocateManager(t) \/ InitImpl(t) \/ RegisterManager(t)
             \/ EnterCall(t) \/ LeaveCall(t) \/ BeginDestroy(t)
             \/ UnregisterManager(t) \/ DeleteManager(t)
      PROVE  PhasesMatch'
  BY <1>2 DEF AllocateManager, InitImpl, InitManager, RegisterManager, EnterCall,
     LeaveCall, BeginDestroy, UnregisterManager, DeleteManager, vars
<1>3. ASSUME NEW t \in Threads, BeginOperation(t)
      PROVE  PhasesMatch'
  <2>1. Begins(t)
    BY <1>3 DEF BeginOperation, Begins
  <2>2. /\ \A u \in Threads \ {t} : pc'[u] = pc[u]
        /\ pc'[t] \notin DestroyPcs
    BY <1>0, <2>1, OperationMoves
  <2>. QED
    BY <1>3, <2>2 DEF BeginOperation
<1>4. ASSUME NEW t \in Threads, ContinueOperation(t)
      PROVE  PhasesMatch'
  <2>1. where[t] = "calling" /\ Progress(t) /\ where' = where
    BY <1>4 DEF ContinueOperation, apiVars
  <2>2. /\ \A u \in Threads \ {t} : pc'[u] = pc[u]
        /\ pc'[t] \notin DestroyPcs
    BY <1>0, <2>1, OperationMoves
  <2>. QED
    BY <2>1, <2>2
<1>5. ASSUME NEW t \in Threads, DestroyImpl(t) \/ DestroyImplReturns(t)
      PROVE  PhasesMatch'
  BY <1>0, <1>5 DEF DestroyImpl, DestroyImplReturns, DestroyBegin, WaitForActiveOps,
     DestroyFinish, Locked, Goto, Types, DestroyPcs, apiVars
<1>. QED
  BY <1>1, <1>2, <1>3, <1>4, <1>5 DEF ApiNext, ApiStep

-----------------------------------------------------------------------------
(* The theorems.                                                           *)

\* Before the first handle there is nothing.
LEMMA InitApiInv == ApiInit => ApiInv
<1>. SUFFICES ASSUME ApiInit PROVE ApiInv
  OBVIOUS
<1>1. IInv
  BY InitIInv DEF ApiInit
<1>2. ApiTypes
  BY DEF ApiInit, ApiTypes
<1>3. OwnerAlone /\ PhasesMatch /\ TableMatches /\ CallsAreCounted
  BY DEF ApiInit, Init, CallsAreCounted, OwnerAlone, PhasesMatch, TableMatches, OwnerPcs, CreatePcs,
     DestroyingPcs, GuardedPcs, DestroyPcs
<1>. QED
  BY <1>1, <1>2, <1>3 DEF ApiInv

\* The invariant of the API holds in every reachable state.
LEMMA ApiInvariantHolds == ApiSpec => [](ApiInv /\ AccountsInv)
<1>1. ASSUME ApiInv, AccountsInv, [ApiNext]_<<vars, apiVars>>
      PROVE  ApiInv' /\ AccountsInv'
  BY <1>1, ApiIInvNext, ApiTypesNext, CallsAreCountedNext, OwnerAndTableNext,
     PhasesMatchNext, ApiAccountsNext DEF ApiInv
<1>2. ApiInit => ApiInv /\ AccountsInv
  BY InitApiInv, InitAccounts DEF ApiInit
<1>. QED
  BY <1>1, <1>2, PTL DEF ApiSpec

\* Nobody uses the object of a handle after it was deleted, however many threads
\* create, use and destroy the handle, and the table counts exactly the calls
\* that are in.
THEOREM HandleIsSafe == ApiSpec => []HandleSafe
<1>1. ASSUME ApiInv PROVE HandleAlive
  BY <1>1 DEF ApiInv, HandleAlive, ApiTypes, PhasesMatch, TableMatches, OwnerPcs,
     CreatePcs, DestroyingPcs, GuardedPcs
<1>2. ASSUME ApiInv PROVE CallsCounted
  BY <1>2 DEF ApiInv, CallsAreCounted, CallsCounted, Guarded, GuardedPcs
<1>3. ApiInv => HandleSafe
  BY <1>1, <1>2 DEF HandleSafe
<1>. QED
  BY ApiInvariantHolds, <1>3, PTL

\* DestroyManager runs alone: while one thread destroys the handle no other is in
\* the API, let alone inside the manager, so that Destroy's wait is over at once
\* and its timeout, which would reopen the door, is never taken.
THEOREM DestroyRunsAlone == ApiSpec => []DestroyUndisturbed
<1>1. ASSUME ApiInv, NEW t \in Threads, where[t] \in DestroyingPcs \cup {"delete"}
      PROVE  /\ activeOps = 0
             /\ \A u \in Threads \ {t} : where[u] = "out" /\ pc[u] = "idle"
  <2>1. \A u \in Threads \ {t} : where[u] = "out" /\ pc[u] = "idle"
    BY <1>1 DEF ApiInv, OwnerAlone, OwnerPcs, PhasesMatch
  <2>2. pc[t] \in {"idle"} \cup DestroyPcs
    BY <1>1 DEF ApiInv, PhasesMatch, DestroyingPcs
  <2>3. Active = {}
    BY <2>1, <2>2 DEF Active, ActivePcs, DestroyPcs
  <2>4. activeOps = 0
    BY <1>1, <2>3, FS_EmptySet DEF ApiInv, IInv, OpsCounted
  <2>. QED
    BY <2>1, <2>4
<1>2. ApiInv => DestroyUndisturbed
  BY <1>1 DEF DestroyUndisturbed, DestroyingPcs
<1>. QED
  BY ApiInvariantHolds, <1>2, PTL

\* Behind the C API the manager keeps its promises with any number of threads that
\* may destroy the handle: the assumption that Destroy has one caller at a time
\* is discharged by the table of handles.
THEOREM ManagerSafeBehindApi ==
    ApiSpec => [](TypeOK /\ SessionOutlivesOps /\ ReadersKeepFile
                  /\ RemovingIsOwned /\ QuiescentConsistent
                  /\ AccountsMatch /\ LimitsKept)
<1>1. ApiInv => TypeOK /\ SessionOutlivesOps /\ ReadersKeepFile
                /\ RemovingIsOwned /\ QuiescentConsistent
  BY IInvImplies DEF ApiInv
<1>2. ApiInv /\ AccountsInv => AccountsMatch /\ LimitsKept
  BY AccountsMatchFromInv, LimitsFromInv DEF ApiInv
<1>. QED
  BY ApiInvariantHolds, <1>1, <1>2, PTL

=============================================================================

----------------------------- MODULE SwapStore -----------------------------
(***************************************************************************)
(* What a swapfs manager promises its callers, without threads' locals,    *)
(* files, locks or space: a key is born once, can be read while it lives,  *)
(* may be doomed while it is read, and is deleted only when nobody reads   *)
(* it.  A doomed key takes no new reader.  A key that is gone stays gone.  *)
(***************************************************************************)
CONSTANTS Keys, Threads

VARIABLES
    state,      \* state[k]: "unborn", "live", "doomed" or "gone"
    readers     \* readers[k]: the threads that are reading k

storeVars == <<state, readers>>

StoreInit ==
    /\ state = [k \in Keys |-> "unborn"]
    /\ readers = [k \in Keys |-> {}]

Become(S, s) == state' = [k \in Keys |-> IF k \in S THEN s ELSE state[k]]

\* A SwapOut succeeds, or fails and its key is never used.
Create(k) == state[k] = "unborn" /\ Become({k}, "live") /\ UNCHANGED readers
Abandon(k) == state[k] = "unborn" /\ Become({k}, "gone") /\ UNCHANGED readers

ReadBegin(t, k) ==
    /\ state[k] = "live" /\ t \notin readers[k]
    /\ readers' = [readers EXCEPT ![k] = @ \cup {t}]
    /\ UNCHANGED state

ReadEnd(t, k) ==
    /\ t \in readers[k]
    /\ readers' = [readers EXCEPT ![k] = @ \ {t}]
    /\ UNCHANGED state

\* RemoveData dooms one key, RemoveAllData all of them.
Doom(S) ==
    /\ S # {} /\ \A k \in S : state[k] = "live"
    /\ Become(S, "doomed") /\ UNCHANGED readers

\* The file was deleted, or could not be and the key lives on.
Delete(k) ==
    /\ state[k] = "doomed" /\ readers[k] = {}
    /\ Become({k}, "gone") /\ UNCHANGED readers
Revive(k) ==
    /\ state[k] = "doomed" /\ readers[k] = {}
    /\ Become({k}, "live") /\ UNCHANGED readers

\* The manager is destroyed: nothing is being read and nothing is half removed.
Discard ==
    /\ \A k \in Keys : readers[k] = {} /\ state[k] # "doomed"
    /\ Become({k \in Keys : state[k] = "live"}, "gone")
    /\ UNCHANGED readers

StoreNext ==
    \/ \E k \in Keys : Create(k) \/ Abandon(k) \/ Delete(k) \/ Revive(k)
    \/ \E t \in Threads, k \in Keys : ReadBegin(t, k) \/ ReadEnd(t, k)
    \/ \E S \in SUBSET Keys : Doom(S)
    \/ Discard

StoreSpec == StoreInit /\ [][StoreNext]_storeVars

=============================================================================

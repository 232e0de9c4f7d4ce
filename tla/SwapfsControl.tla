--------------------------- MODULE SwapfsControl ---------------------------
(***************************************************************************)
(* The space accountant of a swapfs manager, ProxySwapControlProvider      *)
(* (swapfs_proxy_control.cpp).  Every method runs under stateMutex_, so    *)
(* each is one operator from the provider's state to its next state; the   *)
(* one method that drops the mutex half way, RefreshAvailableSpaceIfNeeded,*)
(* is three steps of SwapfsManager, of which RefreshApply is the last.     *)
(*                                                                         *)
(* dataSize and occupiedSize are always passed the same number by the      *)
(* manager and are one number here.  The counters that are only reported   *)
(* (accumulatedWriteBytes_, lastSpaceCheckTime_) are left out; whether the *)
(* check interval has elapsed is a choice of the caller's action.          *)
(***************************************************************************)
EXTENDS Integers

CONSTANTS
    SpaceLimit,     \* spaceLimitBytes_
    MinAvailable    \* MIN_AVAILABLE_DEVICE_SPACE_BYTES

ASSUME ControlConstants == SpaceLimit \in Nat /\ MinAvailable \in Nat

ControlState ==
    [totalKeys: Nat, totalOccupied: Nat, pending: Nat, committed: Nat,
     enabled: BOOLEAN, available: Nat,
     proxy: {"untried", "unavailable", "cached"}]

\* The code never lets an unsigned counter wrap below zero.
SubOrZero(a, b) == IF a >= b THEN a - b ELSE 0

\* avail is 0 when the storage manager could not be asked.  proxy_ and
\* proxyUnavailable_ are the one field `proxy`: GetOrCreateProxy sets the flag
\* exactly when it leaves the pointer null, and every Init calls it.
InitWithAvailableSpace(avail, proxy) ==
    [totalKeys |-> 0, totalOccupied |-> 0, pending |-> 0, committed |-> 0,
     enabled |-> avail >= MinAvailable, available |-> avail,
     proxy |-> proxy]

\* The constructor's state: nothing is allowed before Init.
FreshControl == [InitWithAvailableSpace(0, "untried") EXCEPT !.enabled = TRUE]

\* The locked tail of RefreshAvailableSpaceIfNeeded.  `space` is what the
\* storage manager answered, `base` what was committed when the refresh began.
RefreshApplyForgetsInFlight(c, refreshed, space, base) ==
    LET avail == IF refreshed THEN space ELSE c.available
    IN  [c EXCEPT !.available = avail, !.enabled = avail >= MinAvailable,
                  !.committed = IF refreshed THEN 0 ELSE @]

RefreshApply(c, refreshed, space, base) ==
    LET avail == IF refreshed THEN space ELSE c.available
    IN  [c EXCEPT !.available = avail, !.enabled = avail >= MinAvailable,
                  !.committed = IF refreshed THEN SubOrZero(@, base) ELSE @]

CheckSwapOutAllowedIgnoresPending(c, n) ==
    /\ c.enabled
    /\ c.totalOccupied <= SpaceLimit /\ n <= SpaceLimit - c.totalOccupied
    /\ n <= c.available - MinAvailable - c.committed

CheckSwapOutAllowed(c, n) ==
    LET used     == c.totalOccupied + c.pending
        writable == c.available - MinAvailable
        inFlight == c.pending + c.committed
    IN  /\ c.enabled
        /\ used <= SpaceLimit /\ n <= SpaceLimit - used
        /\ inFlight <= writable /\ n <= writable - inFlight

Reserve(c, n) == [c EXCEPT !.pending = @ + n]

CancelReservedSwapOut(c, n) == [c EXCEPT !.pending = SubOrZero(@, n)]

OnSwapOutCommitted(c, n) ==
    [c EXCEPT !.pending = SubOrZero(@, n), !.totalKeys = @ + 1,
              !.totalOccupied = @ + n, !.committed = @ + n]

OnEntryRemoved(c, n) ==
    [c EXCEPT !.totalKeys = SubOrZero(@, 1),
              !.totalOccupied = SubOrZero(@, n)]

OnAllEntriesRemoved(c) == [c EXCEPT !.totalKeys = 0, !.totalOccupied = 0]

=============================================================================

----------------------------- MODULE SwapfsApi -----------------------------
(***************************************************************************)
(* The C API in front of a swapfs manager (swapfs_c_api.cpp).  A handle is *)
(* used through the table g_managerStates: a call is let in only while the *)
(* handle is registered and not being destroyed, and the handle is         *)
(* destroyed only while no call is in.  One handle is modelled; managers   *)
(* share nothing but the table's mutex, and a step under it is one action. *)
(* Any thread may use the handle at any time, also after it was freed.     *)
(***************************************************************************)
EXTENDS SwapfsManager

VARIABLES
    allocated,      \* the OH_SwapfsManager object exists
    registered,     \* the handle is in g_managerStates
    destroying,     \* ManagerApiState::destroying
    activeCalls,    \* ManagerApiState::activeCalls
    where           \* where each thread is in the API function it called

apiVars == <<allocated, registered, destroying, activeCalls, where>>

ApiInit ==
    /\ Init
    /\ allocated = FALSE /\ registered = FALSE
    /\ destroying = FALSE /\ activeCalls = 0
    /\ where = [t \in Threads |-> "out"]

Enter(t, from, to) == where[t] = from /\ where' = [where EXCEPT ![t] = to]

-----------------------------------------------------------------------------
(* SwapfsNativeCreateManager                                               *)

\* The object comes to life with the state of a new SwapfsManager; its keys
\* start again at 1, in a session directory of its own.
AllocateManager(t) ==
    /\ ~allocated
    /\ Enter(t, "out", "init")
    /\ allocated' = TRUE
    /\ initialized' = FALSE /\ shuttingDown' = FALSE
    /\ removeAllInProgress' = FALSE
    /\ activeOps' = 0
    /\ nextKeyId' = 1
    /\ Erased(Keys)
    /\ session' = [dir |-> FALSE, lock |-> FALSE]
    /\ file' = [k \in Keys |-> "none"] /\ fileSize' = [k \in Keys |-> 0]
    /\ ctl' = FreshControl
    /\ refresh' = NotRefreshing
    /\ UNCHANGED <<registered, destroying, activeCalls, pc, locals>>

\* Init succeeds; a failed Init leaves the manager uninitialised, and the object
\* is deleted before anybody was given the handle.
InitImpl(t) ==
    \/ /\ Enter(t, "init", "register")
       /\ InitManager(t)
       /\ UNCHANGED <<allocated, registered, destroying, activeCalls>>
    \/ /\ Enter(t, "init", "out")
       /\ allocated' = FALSE
       /\ UNCHANGED <<vars, registered, destroying, activeCalls>>

RegisterManager(t) ==
    /\ Enter(t, "register", "out")
    /\ registered' = TRUE /\ destroying' = FALSE /\ activeCalls' = 0
    /\ UNCHANGED <<vars, allocated>>

-----------------------------------------------------------------------------
(* A call behind an ApiCallGuard                                           *)

EnterCallWhileDestroying(t) ==
    /\ registered
    /\ Enter(t, "out", "guarded")
    /\ activeCalls' = activeCalls + 1
    /\ UNCHANGED <<vars, allocated, registered, destroying>>

\* The guard's constructor; a call it refuses changes nothing.
EnterCall(t) ==
    /\ registered /\ ~destroying
    /\ Enter(t, "out", "guarded")
    /\ activeCalls' = activeCalls + 1
    /\ UNCHANGED <<vars, allocated, registered, destroying>>

\* manager->impl.SwapOut(...) and so on: the manager lets the operation begin.
BeginOperation(t) ==
    /\ Enter(t, "guarded", "calling")
    /\ \/ GetStats(t) \/ CollectRemovableEntries(t)
       \/ \E n \in Sizes : PrepareForSwapOut(t, n)
       \/ \E k \in Keys : PrepareForSwapIn(t, k) \/ PrepareRemoveEntry(t, k)
    /\ UNCHANGED <<allocated, registered, destroying, activeCalls>>

ContinueOperation(t) ==
    /\ where[t] = "calling"
    /\ Progress(t)
    /\ UNCHANGED apiVars

LeaveCallForgotten(t) ==
    /\ pc[t] = "idle"
    /\ Enter(t, "guarded", "out") \/ Enter(t, "calling", "out")
    /\ activeCalls' = IF registered /\ activeCalls > 0 /\ where[t] = "calling"
                      THEN activeCalls - 1 ELSE activeCalls
    /\ UNCHANGED <<vars, allocated, registered, destroying>>

\* The guard's destructor, after the operation ended or was rejected.
LeaveCall(t) ==
    /\ pc[t] = "idle"
    /\ Enter(t, "guarded", "out") \/ Enter(t, "calling", "out")
    /\ activeCalls' = IF registered /\ activeCalls > 0
                      THEN activeCalls - 1 ELSE activeCalls
    /\ UNCHANGED <<vars, allocated, registered, destroying>>

-----------------------------------------------------------------------------
(* SwapfsNativeDestroyManager                                              *)

BeginDestroyTwice(t) ==
    /\ registered /\ activeCalls = 0
    /\ Enter(t, "out", "destroy")
    /\ destroying' = TRUE
    /\ UNCHANGED <<vars, allocated, registered, activeCalls>>

BeginDestroy(t) ==
    /\ registered /\ ~destroying /\ activeCalls = 0
    /\ Enter(t, "out", "destroy")
    /\ destroying' = TRUE
    /\ UNCHANGED <<vars, allocated, registered, activeCalls>>

\* manager->impl.Destroy() up to its last section.  No call is in when it begins
\* (DestroyUndisturbed), so its wait is over at once: its timeout is never taken
\* and RestoreDestroyable never reached.
DestroyImpl(t) ==
    /\ where[t] = "destroy"
    /\ DestroyBegin(t) \/ WaitForActiveOps(t)
    /\ UNCHANGED apiVars

DestroyImplReturns(t) ==
    /\ Enter(t, "destroy", "unregister")
    /\ DestroyFinish(t)
    /\ UNCHANGED <<allocated, registered, destroying, activeCalls>>

UnregisterManager(t) ==
    /\ Enter(t, "unregister", "delete")
    /\ registered' = FALSE
    /\ UNCHANGED <<vars, allocated, destroying, activeCalls>>

\* ~SwapfsManager returns at once: Destroy has left the manager uninitialised.
DeleteManager(t) ==
    /\ Enter(t, "delete", "out")
    /\ allocated' = FALSE
    /\ UNCHANGED <<vars, registered, destroying, activeCalls>>

-----------------------------------------------------------------------------
ApiStep(t) ==
    \/ AllocateManager(t) \/ InitImpl(t) \/ RegisterManager(t)
    \/ EnterCall(t) \/ BeginOperation(t) \/ ContinueOperation(t) \/ LeaveCall(t)
    \/ BeginDestroy(t) \/ DestroyImpl(t) \/ DestroyImplReturns(t)
    \/ UnregisterManager(t) \/ DeleteManager(t)

ApiNext == \E t \in Threads : ApiStep(t)

ApiSpec == ApiInit /\ [][ApiNext]_<<vars, apiVars>>

-----------------------------------------------------------------------------
\* No thread touches the object after it was deleted, whichever thread destroys
\* the handle and whoever still uses it: from the guard's constructor to its
\* destructor, and all through DestroyManager, the object is there.
HandleAlive ==
    \A t \in Threads :
        pc[t] # "idle" \/ where[t] # "out" => allocated

\* The table counts the calls that are in, none of them twice.
CallsCounted ==
    registered =>
        activeCalls = Cardinality({t \in Threads : where[t] \in {"guarded", "calling"}})

\* The handle is safe to use: what the table counts is who is in, and the object
\* outlives them.
HandleSafe == HandleAlive /\ CallsCounted

\* Destroy runs alone: no second Destroy, no call, no operation of the manager
\* beside it.  So Destroy's 200 ms wait never waits, and the class's own
\* weakness (two Destroys, one of which times out and reopens the door under
\* the other) cannot be reached through the C API.
DestroyUndisturbed ==
    \A t \in Threads :
        where[t] \in {"destroy", "unregister", "delete"} =>
            /\ activeOps = 0
            /\ \A u \in Threads \ {t} : where[u] = "out" /\ pc[u] = "idle"

=============================================================================

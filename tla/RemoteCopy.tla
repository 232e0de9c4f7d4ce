----------------------------- MODULE RemoteCopy -----------------------------
(***************************************************************************)
(* A copy from another device.  The call (trans_listener_core.cpp for the  *)
(* static binding, "core", trans_listener.cpp, "napi", translistener.cpp   *)
(* of Cangjie, "cj") opens a session with the distributed file service and *)
(* sleeps until the service calls back with the end of it; the service's   *)
(* calls come on threads of their own.  What was received under a name of  *)
(* the sandbox is then copied from a temporary directory.  The task signal *)
(* (task_signal.cpp) cancels through the service.                          *)
(***************************************************************************)
EXTENDS Naturals, Sequences

CONSTANTS
    Sessions,          \* the copies tried, see Call
    MaxProgress     \* bound: reports of one session

VARIABLES
    call,
    r,              \* the calling thread
    listener,       \* the TransListener: callback_, copyEvent_ and who sleeps on cv_
    tmp,            \* the temporary directory is there
    service,        \* external: the session, the calls it still makes, and the reports under way
    signal,         \* the TaskSignal
    said            \* what the program was told, in order

vars == <<call, r, listener, tmp, service, signal, said>>

(* A copy: its destination is managed by the service itself ("docs",       *)
(* "media") or is an application's ("bundle"); what is refused ("none",    *)
(* "mkdir", "path", "session", "sandbox"; "path" is a name in the sandbox  *)
(* without a '/'); whether the service may fail; whether a signal was      *)
(* given.                                                                  *)
Call(binding, authority, refused, fails, signalled) ==
    [binding |-> binding, authority |-> authority, refused |-> refused, fails |-> fails, signalled |-> signalled]
Is(binding) == call.binding = binding
Sandboxed == call.authority = "bundle"

InitWith(x) ==
    /\ call = x
    /\ r = [pc |-> "call", result |-> "none", err |-> "ok"]
    /\ listener = [cb |-> TRUE, result |-> "none", err |-> "ok", asleep |-> FALSE]
    /\ tmp = FALSE
    /\ service = [session |-> "none", left |-> MaxProgress, ends |-> << >>, in |-> "idle", over |-> FALSE,
                  posted |-> {}, tested |-> {}]
    /\ signal = [remote |-> FALSE, session |-> FALSE, need |-> FALSE, asked |-> "no"]
    /\ said = << >>
Init == \E x \in Sessions : InitWith(x)

Goes(pc) == r' = [r EXCEPT !.pc = pc]
Returns(err) == r' = [r EXCEPT !.pc = "returned", !.err = err]

-----------------------------------------------------------------------------
(* The call.                                                               *)
MarkRemoteTask ==
    /\ r.pc = "call" /\ Goes("prepare")
    /\ signal' = [signal EXCEPT !.remote = call.signalled]
    /\ UNCHANGED <<call, listener, tmp, service, said>>
(* PrepareCopySession makes the temporary directory and opens the session. *)
RmDir == tmp' = FALSE
(* As it would be if a session refused left the directory to the caller.   *)
PrepareRefusedKeeps == tmp' = Sandboxed
PrepareRefused == IF Sandboxed THEN RmDir ELSE UNCHANGED tmp
Prepares ==
    /\ r.pc = "prepare"
    /\ CASE Sandboxed /\ call.refused = "mkdir" -> Returns("EIO") /\ UNCHANGED <<tmp, service>>
         [] Sandboxed /\ call.refused = "path" -> tmp' = TRUE /\ Returns("EIO") /\ UNCHANGED service
         [] call.refused = "session" -> PrepareRefused /\ Returns("EIO") /\ UNCHANGED service
         [] OTHER -> /\ tmp' = Sandboxed
                     /\ service' = [service EXCEPT !.session = "open"] /\ Goes("named")
    /\ UNCHANGED <<call, listener, signal, said>>
PrepareCopySession == Is("core") /\ Prepares
NapiPrepareCopySession == Is("napi") /\ Prepares
CjPrepareCopySession == Is("cj") /\ Prepares
SetFileInfoOfRemoteTask ==
    /\ r.pc = "named" /\ Goes("wait")
    /\ signal' = [signal EXCEPT !.session = call.signalled]
    /\ UNCHANGED <<call, listener, tmp, service, said>>

(* WaitForCopyResult: the look and the sleep are one step where the result *)
(* is set under cvMutex_; in Cangjie it is not.                            *)
Waits ==
    /\ r.pc = "wait" /\ ~listener.asleep
    /\ IF listener.result # "none"
       THEN r' = [r EXCEPT !.pc = "woke", !.result = listener.result] /\ UNCHANGED listener
       ELSE listener' = [listener EXCEPT !.asleep = TRUE] /\ UNCHANGED r
    /\ UNCHANGED <<call, tmp, service, signal, said>>
WaitForCopyResult == Is("core") /\ Waits
NapiWaitForCopyResult == Is("napi") /\ Waits
CjWaitLooks ==
    /\ r.pc = "wait" /\ Is("cj") /\ ~listener.asleep
    /\ IF listener.result # "none" THEN r' = [r EXCEPT !.pc = "woke", !.result = listener.result] ELSE Goes("sleep")
    /\ UNCHANGED <<call, listener, tmp, service, signal, said>>
CjWaitSleeps ==
    /\ r.pc = "sleep" /\ Goes("wait") /\ listener' = [listener EXCEPT !.asleep = TRUE]
    /\ UNCHANGED <<call, tmp, service, signal, said>>

(* softbusErr2ErrCodeTable knows the errors it names; others become EIO.   *)
ErrCode(err) == IF err = "unknown" THEN "EIO" ELSE err
Failure ==
    /\ IF Sandboxed THEN RmDir ELSE UNCHANGED tmp
    /\ Returns(ErrCode(listener.err))
CopyToSandBox == IF call.refused = "sandbox" THEN "EIO" ELSE "ok"
Success == IF Sandboxed THEN RmDir /\ Returns(CopyToSandBox) ELSE Returns("ok") /\ UNCHANGED tmp
Woken ==
    /\ r.pc = "woke"
    /\ IF r.result = "failed" THEN Failure ELSE Success
    /\ UNCHANGED <<call, listener, service, signal, said>>
CopyFileFromSoftBus == Is("core") /\ Woken
NapiCopyFileFromSoftBus == Is("napi") /\ Woken
CjCopyFileFromSoftBus == Is("cj") /\ Woken

-----------------------------------------------------------------------------
(* The service's calls.  A report may come late, after the end of the      *)
(* session.  The static binding tells the program at once, under the lock; *)
(* NAPI posts an event that keeps the callback for itself and is run by    *)
(* the program's own thread, in order; Cangjie starts a thread that looks  *)
(* at the callback again, twice and without the lock.  (service.over: the  *)
(* end of the session was told, for the property below.)                   *)
Report == [left |-> service.left, stray |-> service.over]
Told(report) == Append(said, [at |-> r.pc, stray |-> report.stray])
Comes == service.session # "none" /\ service.left > 0
Received == [service EXCEPT !.left = @ - 1]
OnFileReceive ==
    /\ Is("core") /\ Comes /\ service' = Received
    /\ said' = IF listener.cb THEN Told(Report) ELSE said
    /\ UNCHANGED <<call, r, listener, tmp, signal>>
Posts ==
    /\ Comes
    /\ \/ listener.cb /\ service' = [Received EXCEPT !.posted = @ \cup {Report}]
       \/ (Is("napi") \/ ~listener.cb) /\ service' = Received        \* napi_send_event may fail
    /\ UNCHANGED <<call, r, listener, tmp, signal, said>>
NapiOnFileReceive == Is("napi") /\ Posts
CjOnFileReceive == Is("cj") /\ Posts
NapiCallbackComplete ==
    /\ Is("napi")
    /\ \E report \in service.posted :
        /\ \A other \in service.posted : other.left <= report.left
        /\ service' = [service EXCEPT !.posted = @ \ {report}]
        /\ said' \in {Told(report), said}                              \* it may get no scope
    /\ UNCHANGED <<call, r, listener, tmp, signal>>
(* The listener is the call's: once that has returned what the thread      *)
(* reads of it is freed memory, and either answer.  A callback taken away  *)
(* between the test and the use is called yet, or the process ends.        *)
Gone == r.pc \in {"returned", "crashed"}
GoesOn(report) == [service EXCEPT !.posted = @ \ {report}, !.tested = @ \cup {report}]
CjCallbackTests ==
    /\ Is("cj")
    /\ \E report \in service.posted :
        \/ (listener.cb \/ Gone) /\ service' = GoesOn(report)
        \/ ~listener.cb /\ service' = [service EXCEPT !.posted = @ \ {report}]
    /\ UNCHANGED <<call, r, listener, tmp, signal, said>>
CjCallbackUses ==
    /\ Is("cj")
    /\ \E report \in service.tested :
        /\ service' = [service EXCEPT !.tested = @ \ {report}]
        /\ \/ said' = Told(report) /\ UNCHANGED r
           \/ ~listener.cb /\ Goes("crashed") /\ UNCHANGED said
    /\ UNCHANGED <<call, listener, tmp, signal>>

(* external: the session ends well, or not, and the end may be told twice; *)
(* a session is cancelled while it is open, and ends with ECANCELED then.  *)
SessionEnds(end) ==
    /\ service.session = "open" /\ service.ends = << >>
    /\ end # "ok" => call.fails
    /\ service' \in {[service EXCEPT !.session = "closed", !.ends = e] : e \in {<<end>>, <<end, end>>}}
    /\ UNCHANGED <<call, r, listener, tmp, signal, said>>

(* OnFinished and OnFailed, in two critical sections each.                 *)
NoCallback == listener' = [listener EXCEPT !.cb = FALSE]
(* As it would be if the program stayed subscribed.                        *)
EndKeepsCallback == UNCHANGED listener
EndDropsCallback == NoCallback
EndBegins ==
    /\ service.in = "idle" /\ service.ends # << >>
    /\ service' = [service EXCEPT !.in = Head(service.ends), !.ends = Tail(@), !.over = TRUE]
    /\ EndDropsCallback
    /\ UNCHANGED <<call, r, tmp, signal, said>>
(* As it would be if the sleeper were not notified of a failure.           *)
OnFailedSilent == listener' = [listener EXCEPT !.result = "failed", !.err = service.in]
OnFailed == listener' = [listener EXCEPT !.result = "failed", !.err = service.in, !.asleep = FALSE]
OnFinished == listener' = [listener EXCEPT !.result = "success", !.asleep = FALSE]
EndNotifies ==
    /\ service.in # "idle" /\ service' = [service EXCEPT !.in = "idle"]
    /\ IF service.in = "ok" THEN OnFinished ELSE OnFailed
    /\ UNCHANGED <<call, r, tmp, signal, said>>

(* Cancel: of a local task until it is marked, without a session's name    *)
(* until that is set, then of the session.                                 *)
(* As it would be if the name of the session were not handed on.           *)
CancelNameless ==
    \/ signal.remote /\ signal' = [signal EXCEPT !.asked = "accepted"] /\ UNCHANGED service
    \/ ~signal.remote /\ signal' = [signal EXCEPT !.asked = "noted", !.need = TRUE] /\ UNCHANGED service
TaskSignalCancel ==
    \/ /\ ~signal.remote /\ signal' = [signal EXCEPT !.asked = "noted", !.need = TRUE] /\ UNCHANGED service
    \/ /\ signal.remote /\ ~signal.session /\ signal' = [signal EXCEPT !.asked = "refused"] /\ UNCHANGED service
    \/ /\ signal.remote /\ signal.session
       /\ IF service.session = "open"
          THEN /\ service' = [service EXCEPT !.session = "closed", !.ends = Append(@, "ECANCELED")]
               /\ signal' = [signal EXCEPT !.asked = "accepted"]
          ELSE UNCHANGED service /\ signal' = [signal EXCEPT !.asked = "refused"]
Cancel ==
    /\ call.signalled /\ signal.asked = "no" /\ TaskSignalCancel
    /\ UNCHANGED <<call, r, listener, tmp, said>>

CallSteps ==
    \/ MarkRemoteTask \/ PrepareCopySession \/ NapiPrepareCopySession \/ CjPrepareCopySession
    \/ SetFileInfoOfRemoteTask \/ WaitForCopyResult \/ NapiWaitForCopyResult \/ CjWaitLooks \/ CjWaitSleeps
    \/ CopyFileFromSoftBus \/ NapiCopyFileFromSoftBus \/ CjCopyFileFromSoftBus
ServiceEnds == \E end \in {"ok", "ENETUNREACH", "unknown"} : SessionEnds(end)
Answers == EndBegins \/ EndNotifies
Next ==
    \/ CallSteps \/ ServiceEnds \/ Answers \/ Cancel
    \/ OnFileReceive \/ NapiOnFileReceive \/ CjOnFileReceive
    \/ NapiCallbackComplete \/ CjCallbackTests \/ CjCallbackUses

(* The threads go on; the service ends every session some time.            *)
Fairness == WF_vars(CallSteps) /\ WF_vars(ServiceEnds) /\ WF_vars(Answers)
Spec == Init /\ [][Next]_vars /\ Fairness

-----------------------------------------------------------------------------
Returned == r.pc = "returned"

(* A call that returned has left no temporary directory, however it ended, *)
(* but where it refused the name in the sandbox before there was a session *)
(* to end.                                                                 *)
NoTemporaryLeft == Returned /\ tmp => call.refused = "path" /\ service.session = "none"

(* Once the end of a session was told no report of the service reaches the *)
(* program any more, by whatever thread and however late; what came before *)
(* it the static binding has told by the time its call returns.  NAPI and  *)
(* Cangjie may tell that after the return.                                 *)
NoStrayReport == \A n \in DOMAIN said : ~said[n].stray /\ (Is("core") => said[n].at # "returned")

(* A cancellation the program was told is accepted ends the copy as        *)
(* cancelled, whenever it came.                                            *)
CancelEndsCopy == (signal.asked = "accepted" /\ Returned) => r.err = "ECANCELED"

(* Every call returns when the service ends its sessions.  Cangjie sets    *)
(* the result without the lock and can miss the notification.              *)
RemoteReturns == ~Is("cj") => <>Returned
=============================================================================

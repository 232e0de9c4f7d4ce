----------------------------- MODULE NAsyncWork -----------------------------
(***************************************************************************)
(* How a call of the dynamic bindings is left to a worker thread and       *)
(* answered later (filemgmt_libn, and the older copy of it in common/napi  *)
(* for @ohos.fileio and @system.file).  The call makes an object that      *)
(* lives as long as the call does; the context it makes is handed to the   *)
(* work that is queued, or else goes with the object.  One JavaScript      *)
(* thread makes the calls and hears the answers; works run on a pool.      *)
(*                                                                         *)
(* The virtual machine (napi_...) is external: each of its calls may fail  *)
(* in a faulty history.                                                    *)
(***************************************************************************)
EXTENDS Naturals

CONSTANT Calls      \* the calls of a history; their number is a bound

VARIABLES
    library,    \* "libn" or "common"
    fallible,   \* whether calls of the virtual machine may fail
    form,       \* for each call "callback", "promise" or, before it is made, "none"
    at, this,   \* where the JavaScript thread is, and in which call
    held,       \* ctx_ of the object under way is not null
    context,    \* the memory of each context: "none", "live", "freed", "misused"
    work,       \* "none", "created", "queued", "executed", "deleted", "stuck"
    events,     \* the contexts that a queued event will delete
    said,       \* what the call returned: "none", "threw", "failed", "accepted"
    answers     \* how often the program was answered

vars == <<library, fallible, form, at, this, held, context, work, events, said, answers>>

Init ==
    /\ library \in {"libn", "common"} /\ fallible \in BOOLEAN
    /\ form = [i \in Calls |-> "none"] /\ at = "idle" /\ this = 0 /\ held = FALSE
    /\ context = [i \in Calls |-> "none"] /\ work = [i \in Calls |-> "none"]
    /\ events = {} /\ said = [i \in Calls |-> "none"] /\ answers = [i \in Calls |-> 0]

Deleted(i) == [context EXCEPT ![i] = IF @ = "live" THEN "freed" ELSE "misused"]
Used(i) == [context EXCEPT ![i] = IF @ = "live" THEN @ ELSE "misused"]
(* The rest of Schedule is left out: the object goes.                      *)
Says(word) == said' = [said EXCEPT ![this] = IF @ = "threw" THEN @ ELSE word]
Returns(word) == at' = "leave" /\ Says(word)

----------------------------------------------------------------------------
(* A call: the object and its context, which may not be had.               *)
Make(i, how, next) ==
    /\ at = "idle" /\ form[i] = "none"
    /\ form' = [form EXCEPT ![i] = how] /\ this' = i /\ at' = next
    /\ \/ held' = TRUE /\ context' = [context EXCEPT ![i] = "live"]
       \/ fallible /\ held' = FALSE /\ UNCHANGED context
    /\ UNCHANGED <<library, fallible, work, events, said, answers>>
NAsyncWorkCallback(i) == Make(i, "callback", "checkCallback")
NAsyncWorkPromise(i) == Make(i, "promise", "checkPromise")

(* Schedule with a callback, which may be no function.                     *)
CheckCallbackThen(refused) ==
    /\ at = "checkCallback"
    /\ \/ held /\ at' = "create" /\ UNCHANGED said
       \/ at' = refused /\ Says("threw")
    /\ UNCHANGED <<library, fallible, form, this, held, context, work, events, answers>>
CheckCallbackGoesOn == CheckCallbackThen("create")
CheckCallback == CheckCallbackThen("leave")

(* Schedule with a promise.                                                *)
CreatePromise ==
    /\ at = "checkPromise"
    /\ \/ held /\ at' = "create" /\ UNCHANGED said
       \/ (~held \/ fallible) /\ Returns("failed")
    /\ UNCHANGED <<library, fallible, form, this, held, context, work, events, answers>>

CreateAsyncWork ==
    /\ at = "create"
    /\ \/ at' = "queue" /\ work' = [work EXCEPT ![this] = "created"] /\ UNCHANGED said
       \/ fallible /\ Returns("failed") /\ UNCHANGED work
    /\ UNCHANGED <<library, fallible, form, this, held, context, events, answers>>

(* A worker may take the work at once.                                     *)
QueueAsyncWork ==
    /\ at = "queue"
    /\ \/ at' = "transfer" /\ work' = [work EXCEPT ![this] = "queued"] /\ UNCHANGED said
       \/ fallible /\ Returns("failed") /\ UNCHANGED work
    /\ UNCHANGED <<library, fallible, form, this, held, context, events, answers>>

TransferTo(kept) ==
    /\ at = "transfer"
    /\ held' = kept /\ Returns("accepted")
    /\ UNCHANGED <<library, fallible, form, this, context, work, events, answers>>
TransferForgotten == TransferTo(TRUE)
Transfer == TransferTo(FALSE)

----------------------------------------------------------------------------
(* The end of the object.  libn leaves the context to an event, because    *)
(* the object may be destroyed on another thread, and deletes it at once   *)
(* when there is no loop, no memory or no way to send the event.  The      *)
(* object of a promise has no destructor.                                  *)
Left == at' = "idle" /\ this' = 0 /\ held' = FALSE
Dies(how) == at = "leave" /\ form[this] = how
DestroyCallback ==
    /\ Dies("callback") /\ library = "libn" /\ Left
    /\ IF ~held THEN UNCHANGED <<context, events>>
       ELSE \/ events' = events \cup {this} /\ UNCHANGED context
            \/ fallible /\ context' = Deleted(this) /\ UNCHANGED events
    /\ UNCHANGED <<library, fallible, form, work, said, answers>>
DestroyCommonCallback ==
    /\ Dies("callback") /\ library = "common" /\ Left
    /\ context' = IF held THEN Deleted(this) ELSE context
    /\ UNCHANGED <<library, fallible, form, work, events, said, answers>>
DestroyPromise ==
    /\ Dies("promise") /\ Left
    /\ UNCHANGED <<library, fallible, form, context, work, events, said, answers>>

DeleteEvent(i) ==
    /\ at = "idle" /\ i \in events
    /\ events' = events \ {i} /\ context' = Deleted(i)
    /\ UNCHANGED <<library, fallible, form, at, this, held, work, said, answers>>

----------------------------------------------------------------------------
(* On the pool: CallbackExecute, PromiseOnExec.                            *)
Execute(i) ==
    /\ work[i] = "queued"
    /\ work' = [work EXCEPT ![i] = "executed"] /\ context' = Used(i)
    /\ UNCHANGED <<library, fallible, form, at, this, held, events, said, answers>>

(* Back on the JavaScript thread.  Without a scope for its values the      *)
(* callback is not called and the context stays.                           *)
AnsweredTimes(i, n) ==
    /\ answers' = [answers EXCEPT ![i] = @ + n]
    /\ work' = [work EXCEPT ![i] = "deleted"] /\ context' = Deleted(i)
AnsweredNever(i) == AnsweredTimes(i, 0)
Answered(i) == AnsweredTimes(i, 1)
Completing(i, how) == at = "idle" /\ work[i] = "executed" /\ form[i] = how
CallbackComplete(i) ==
    /\ Completing(i, "callback")
    /\ \/ Answered(i)
       \/ fallible /\ work' = [work EXCEPT ![i] = "stuck"] /\ UNCHANGED <<context, answers>>
    /\ UNCHANGED <<library, fallible, form, at, this, held, events, said>>
PromiseOnComplete(i) ==
    /\ Completing(i, "promise")
    /\ Answered(i)
    /\ UNCHANGED <<library, fallible, form, at, this, held, events, said>>

InCall ==
    \/ CheckCallback \/ CreatePromise \/ CreateAsyncWork \/ QueueAsyncWork \/ Transfer
    \/ DestroyCallback \/ DestroyCommonCallback \/ DestroyPromise
Later(i) == DeleteEvent(i) \/ CallbackComplete(i) \/ PromiseOnComplete(i)

Next ==
    \/ InCall
    \/ \E i \in Calls : NAsyncWorkCallback(i) \/ NAsyncWorkPromise(i) \/ Execute(i) \/ Later(i)

(* The JavaScript thread goes on and takes what waits for it, and so do    *)
(* the workers.                                                            *)
Fairness == WF_vars(InCall) /\ \A i \in Calls : WF_vars(Execute(i)) /\ WF_vars(Later(i))

Spec == Init /\ [][Next]_vars /\ Fairness

----------------------------------------------------------------------------
(* A context is used and deleted by whoever has it and by no one after     *)
(* that, and every context that is left has somebody who will delete it:   *)
(* the object, an event or the work.  Lost are those of a promise that     *)
(* could not be scheduled and of a work without a scope.                   *)
Lost(i) == work[i] = "stuck" \/ (form[i] = "promise" /\ said[i] = "failed")
ContextsOwned ==
    \A i \in Calls :
        /\ context[i] # "misused"
        /\ context[i] = "live" /\ ~Lost(i) =>
               \/ this = i /\ held
               \/ i \in events
               \/ work[i] \in {"queued", "executed"}

(* The program is answered once at most, and not at all if the call threw  *)
(* or could not be scheduled.                                              *)
AnsweredIfAccepted ==
    \A i \in Calls : answers[i] <= (IF said[i] \in {"threw", "failed"} THEN 0 ELSE 1)

(* A call that was accepted is answered, unless there was no scope for it. *)
CallsAnswered == \A i \in Calls : said[i] = "accepted" ~> answers[i] = 1 \/ work[i] = "stuck"
=============================================================================

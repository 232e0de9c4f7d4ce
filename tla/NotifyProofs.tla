---------------------------- MODULE NotifyProofs ----------------------------
(***************************************************************************)
(* Proofs about MCNotify, for any watchers and plans, any copies and any   *)
(* remote copies: what is left behind by a copy, and what is said of it.   *)
(***************************************************************************)
EXTENDS MCNotify, SumLemmas

scenesVars == <<scene, watchVars, copyVars, remoteVars>>

-----------------------------------------------------------------------------
(* A copy from another device.                                             *)

RemotePcs == {"call", "prepare", "named", "wait", "sleep", "woke", "returned", "crashed"}
EndCodes == {"ok", "ENETUNREACH", "unknown", "ECANCELED"}

Callers == [pc : RemotePcs, result : {"none", "success", "failed"}, err : EndCodes \cup {"EIO"}]
Listeners == [cb : BOOLEAN, result : {"none", "success", "failed"},
              err : EndCodes, asleep : BOOLEAN]
RemoteReport == [left : Int, stray : BOOLEAN]
Words == [at : RemotePcs, stray : BOOLEAN]
Services == [session : {"none", "open", "closed"}, left : Int, ends : Seq(EndCodes),
             in : EndCodes \cup {"idle"}, over : BOOLEAN,
             posted : SUBSET RemoteReport, tested : SUBSET RemoteReport]
Signals == [remote : BOOLEAN, session : BOOLEAN, need : BOOLEAN,
            asked : {"no", "noted", "refused", "accepted"}]

RemoteTypes ==
    /\ rr \in Callers /\ listener \in Listeners /\ service \in Services /\ signal \in Signals
    /\ said \in Seq(Words) /\ call \in RemoteCalls

\* The directory is there between the preparation and the end only, or for ever
\* where the name was refused.
TemporaryMine ==
    /\ tmp => call.authority = "bundle" /\ rr.pc \notin {"call", "prepare"}
    /\ rr.pc = "returned" => (tmp => call.refused = "path" /\ service.session = "none")

\* An end that was told has taken the callback off, and the call returns after
\* that or never had a session; no report under way was taken on later.
CallbackOff ==
    /\ rr.pc \in {"call", "prepare"} => service.session = "none"
    /\ service.session = "none" => service.ends = << >> /\ service.posted = {} /\ service.tested = {}
    /\ service.over => service.session = "closed"
    /\ service.over <=> ~listener.cb
    /\ service.in # "idle" \/ listener.result # "none" => service.over
    /\ rr.pc = "woke" => listener.result # "none" /\ rr.result # "none"
    /\ rr.pc = "returned" => service.session = "none" \/ service.over
    /\ \A report \in service.posted \cup service.tested : ~report.stray
    /\ Remote!NoStrayReport

\* An open session has not ended for anybody; one that was cancelled ends as such.
Ends(e) == \A n \in DOMAIN service.ends : service.ends[n] = e
CancelMine ==
    /\ service.session = "none" => service.in = "idle" /\ listener.result = "none"
    /\ service.session = "open" =>
        /\ rr.pc \in {"named", "wait", "sleep"}
        /\ service.ends = << >> /\ service.in = "idle" /\ listener.result = "none"
    /\ signal.asked = "accepted" =>
        /\ service.session = "closed" /\ Ends("ECANCELED")
        /\ service.in \in {"idle", "ECANCELED"}
        /\ listener.result \in {"none", "failed"}
        /\ listener.result = "failed" => listener.err = "ECANCELED"
        /\ rr.pc = "woke" => rr.result = "failed"
        /\ rr.pc = "returned" => rr.err = "ECANCELED"

RemoteInv == RemoteTypes /\ TemporaryMine /\ CallbackOff /\ CancelMine

LEMMA RemoteInitInv ==
    ASSUME NEW x \in RemoteCalls, Remote!InitWith(x)
    PROVE  RemoteInv
<1>. USE DEF Remote!InitWith
<1>1. rr \in Callers /\ listener \in Listeners
  BY DEF Callers, Listeners, RemotePcs, EndCodes
<1>2. service \in Services
  BY CallsAssumption DEF Services, EndCodes
<1>3. signal \in Signals /\ said \in Seq(Words) /\ call \in RemoteCalls
  BY DEF Signals
<1>4. TemporaryMine /\ CallbackOff /\ CancelMine
  BY DEF TemporaryMine, CallbackOff, CancelMine, Remote!NoStrayReport, Remote!Is
<1>. QED
  BY <1>1, <1>2, <1>3, <1>4 DEF RemoteInv, RemoteTypes

\* What is told is of a report taken on before the end.
LEMMA RemoteTells ==
    ASSUME RemoteInv, NEW report \in RemoteReport, ~report.stray,
           Remote!Is("core") => rr.pc # "returned"
    PROVE  /\ Remote!Told(report) \in Seq(Words)
           /\ \A n \in DOMAIN Remote!Told(report) :
                ~Remote!Told(report)[n].stray
                /\ (Remote!Is("core") => Remote!Told(report)[n].at # "returned")
<1>. DEFINE w == [at |-> rr.pc, stray |-> report.stray]
<1>1. w \in Words /\ ~w.stray /\ w.at = rr.pc
  BY DEF RemoteInv, RemoteTypes, Callers, Words, RemoteReport
<1>2. said \in Seq(Words) /\ Remote!Told(report) = Append(said, w)
  BY DEF RemoteInv, RemoteTypes, Remote!Told
<1>3. \A n \in DOMAIN said : ~said[n].stray /\ (Remote!Is("core") => said[n].at # "returned")
  BY DEF RemoteInv, CallbackOff, Remote!NoStrayReport, Remote!Is
<1>. HIDE DEF w
<1>. QED
  BY <1>1, <1>2, <1>3

\* A service that reports, and the threads that pass the reports on.
LEMMA RemoteReports ==
    ASSUME RemoteInv,
           \/ Remote!OnFileReceive \/ Remote!Posts \/ Remote!NapiCallbackComplete
           \/ Remote!CjCallbackTests \/ Remote!CjCallbackUses
    PROVE  RemoteInv'
<1>. USE DEF RemoteInv
<1>0. /\ service \in Services /\ rr \in Callers
      /\ listener.cb = ~service.over /\ listener.cb \in BOOLEAN
      /\ Remote!Report \in RemoteReport /\ Remote!Report.stray = service.over
  BY DEF RemoteTypes, Services, Listeners, CallbackOff, Remote!Report, RemoteReport
<1>1. UNCHANGED <<call, listener, tmp, signal>>
  <2>1. CASE Remote!OnFileReceive \/ Remote!Posts
    BY <2>1 DEF Remote!OnFileReceive, Remote!Posts
  <2>2. CASE Remote!NapiCallbackComplete
    BY <2>2 DEF Remote!NapiCallbackComplete
  <2>3. CASE Remote!CjCallbackTests
    BY <2>3 DEF Remote!CjCallbackTests
  <2>4. CASE Remote!CjCallbackUses
    BY <2>4 DEF Remote!CjCallbackUses
  <2>. QED
    BY <2>1, <2>2, <2>3, <2>4
<1>2. /\ service' \in Services
      /\ service'.session = service.session /\ service'.ends = service.ends
      /\ service'.in = service.in /\ service'.over = service.over
      /\ \A report \in service'.posted \cup service'.tested : ~report.stray
      /\ service.session # "none"
  <2>0. /\ \A report \in service.posted \cup service.tested : ~report.stray
        /\ service.session = "none" => service.posted = {} /\ service.tested = {}
    BY DEF CallbackOff
  <2>1. CASE Remote!OnFileReceive
    BY <1>0, <2>0, <2>1 DEF Remote!OnFileReceive, Remote!Comes, Remote!Received, Services
  <2>2. CASE Remote!Posts
    <3>. DEFINE mid == Remote!Received
                new == Remote!Report
    <3>1. /\ mid \in Services /\ mid.session = service.session /\ mid.ends = service.ends
          /\ mid.in = service.in /\ mid.over = service.over
          /\ mid.posted = service.posted /\ mid.tested = service.tested
          /\ service.session # "none"
      <4>1. service.session # "none"
        BY <2>2 DEF Remote!Posts, Remote!Comes
      <4>. QED
        BY <1>0, <4>1 DEF Remote!Received, Services
    <3>2. service' = mid \/ (~service.over /\ service' = [mid EXCEPT !.posted = @ \cup {new}])
      BY <1>0, <2>2 DEF Remote!Posts
    <3>3. new \in RemoteReport /\ new.stray = service.over
      BY <1>0
    <3>. HIDE DEF mid, new
    <3>. QED
      BY <2>0, <3>1, <3>2, <3>3 DEF Services
  <2>3. CASE Remote!NapiCallbackComplete
    BY <1>0, <2>0, <2>3 DEF Remote!NapiCallbackComplete, Services
  <2>4. CASE Remote!CjCallbackTests
    <3>1. PICK report \in service.posted :
            \/ service' = Remote!GoesOn(report)
            \/ service' = [service EXCEPT !.posted = @ \ {report}]
      BY <2>4, Zenon DEF Remote!CjCallbackTests
    <3>2. report \in RemoteReport /\ ~report.stray /\ service.session # "none"
      BY <1>0, <2>0 DEF Services
    <3>3. CASE service' = [service EXCEPT !.posted = @ \ {report}]
      BY <1>0, <2>0, <3>2, <3>3 DEF Services
    <3>4. CASE service' = Remote!GoesOn(report)
      <4>. DEFINE one == service.posted \ {report}
                  two == service.tested \cup {report}
      <4>1. one \in SUBSET RemoteReport /\ two \in SUBSET RemoteReport
            /\ \A other \in one \cup two : ~other.stray
        BY <1>0, <2>0, <3>2 DEF Services
      <4>2. service' = [service EXCEPT !.posted = one, !.tested = two]
        BY <3>4 DEF Remote!GoesOn
      <4>. HIDE DEF one, two
      <4>. QED
        BY <1>0, <3>2, <4>1, <4>2 DEF Services
    <3>. QED
      BY <3>1, <3>3, <3>4
  <2>5. CASE Remote!CjCallbackUses
    BY <1>0, <2>0, <2>5 DEF Remote!CjCallbackUses, Services
  <2>. QED
    BY <2>1, <2>2, <2>3, <2>4, <2>5
<1>3. \/ UNCHANGED rr
      \/ rr' \in Callers /\ rr'.pc = "crashed" /\ ~listener.cb /\ service.tested # {}
  <2>1. CASE Remote!OnFileReceive \/ Remote!Posts
    BY <2>1 DEF Remote!OnFileReceive, Remote!Posts
  <2>2. CASE Remote!NapiCallbackComplete
    BY <2>2 DEF Remote!NapiCallbackComplete
  <2>3. CASE Remote!CjCallbackTests
    BY <2>3 DEF Remote!CjCallbackTests
  <2>4. CASE Remote!CjCallbackUses
    BY <1>0, <2>4 DEF Remote!CjCallbackUses, Remote!Goes, Callers, RemotePcs
  <2>. QED
    BY <2>1, <2>2, <2>3, <2>4
<1>4. said' \in Seq(Words) /\ Remote!NoStrayReport'
  <2>0. said \in Seq(Words) /\ Remote!NoStrayReport
    BY DEF RemoteTypes, CallbackOff
  <2>1. CASE said' = said
    BY <1>1, <2>0, <2>1 DEF Remote!NoStrayReport, Remote!Is
  <2>2. CASE said' # said
    <3>1. PICK report \in RemoteReport :
            /\ said' = Remote!Told(report) /\ ~report.stray
            /\ Remote!Is("core") => rr.pc # "returned"
      <4>1. CASE Remote!OnFileReceive
        <5>1. said' = Remote!Told(Remote!Report) /\ listener.cb
          BY <2>2, <4>1 DEF Remote!OnFileReceive
        <5>2. rr.pc # "returned"
          BY <1>0, <1>2, <5>1 DEF CallbackOff
        <5>. QED
          BY <1>0, <5>1, <5>2
      <4>2. CASE Remote!NapiCallbackComplete
        BY <1>0, <2>2, <4>2 DEF Remote!NapiCallbackComplete, Remote!Is, CallbackOff, Services
      <4>3. CASE Remote!CjCallbackUses
        BY <1>0, <2>2, <4>3 DEF Remote!CjCallbackUses, Remote!Is, CallbackOff, Services
      <4>4. ~Remote!Posts /\ ~Remote!CjCallbackTests
        <5>1. Remote!Posts => said' = said
          BY DEF Remote!Posts
        <5>2. Remote!CjCallbackTests => said' = said
          BY DEF Remote!CjCallbackTests
        <5>. QED
          BY <2>2, <5>1, <5>2
      <4>. QED
        BY <4>1, <4>2, <4>3, <4>4
    <3>. QED
      BY <1>1, <3>1, RemoteTells DEF Remote!NoStrayReport, Remote!Is
  <2>. QED
    BY <2>1, <2>2
<1>5. RemoteTypes'
  BY <1>0, <1>1, <1>2, <1>3, <1>4 DEF RemoteTypes
<1>6. TemporaryMine' /\ CancelMine'
  BY <1>0, <1>1, <1>2, <1>3 DEF TemporaryMine, CancelMine, CallbackOff, Ends
<1>7. CallbackOff'
  BY <1>1, <1>2, <1>3, <1>4 DEF CallbackOff
<1>. QED
  BY <1>5, <1>6, <1>7

\* The calling thread.
LEMMA RemoteCallSteps ==
    ASSUME RemoteInv, Remote!CallSteps
    PROVE  RemoteInv'
<1>. USE DEF RemoteInv, Remote!Goes, Remote!Returns, Remote!Is, Remote!Sandboxed
<1>1. ASSUME Remote!MarkRemoteTask \/ Remote!SetFileInfoOfRemoteTask PROVE RemoteInv'
  <2>1. /\ UNCHANGED <<call, listener, tmp, service, said>>
        /\ \/ rr.pc = "call" /\ rr' = [rr EXCEPT !.pc = "prepare"]
           \/ rr.pc = "named" /\ rr' = [rr EXCEPT !.pc = "wait"]
        /\ \/ signal' = [signal EXCEPT !.remote = call.signalled]
           \/ signal' = [signal EXCEPT !.session = call.signalled]
    BY <1>1 DEF Remote!MarkRemoteTask, Remote!SetFileInfoOfRemoteTask
  <2>2. call.signalled \in BOOLEAN
    BY CallsAssumption DEF RemoteTypes
  <2>3. signal' \in Signals /\ signal'.asked = signal.asked
    BY <2>1, <2>2 DEF RemoteTypes, Signals
  <2>4. /\ rr' \in Callers
        /\ \/ rr.pc = "call" /\ rr'.pc = "prepare"
           \/ rr.pc = "named" /\ rr'.pc = "wait"
    BY <2>1 DEF RemoteTypes, Callers, RemotePcs
  <2>5. RemoteTypes'
    BY <2>1, <2>3, <2>4 DEF RemoteTypes
  <2>6. TemporaryMine' /\ CallbackOff' /\ CancelMine'
    BY <2>1, <2>3, <2>4 DEF TemporaryMine, CallbackOff, CancelMine, Ends, Remote!NoStrayReport, Remote!Is
  <2>. QED
    BY <2>5, <2>6
<1>2. ASSUME Remote!Prepares PROVE RemoteInv'
  <2>1. /\ rr.pc = "prepare" /\ UNCHANGED <<call, listener, signal, said>>
        /\ \/ /\ rr' = [rr EXCEPT !.pc = "returned", !.err = "EIO"]
              /\ tmp' => call.refused = "path" /\ call.authority = "bundle"
              /\ UNCHANGED service
           \/ /\ rr' = [rr EXCEPT !.pc = "named"]
              /\ tmp' => call.authority = "bundle"
              /\ service' = [service EXCEPT !.session = "open"]
    BY <1>2 DEF TemporaryMine, Remote!Prepares, Remote!PrepareRefused, Remote!RmDir
  <2>2. service.session = "none"
    BY <2>1 DEF CallbackOff
  <2>3. rr' \in Callers /\ service' \in Services
    BY <2>1 DEF RemoteTypes, Callers, Services, RemotePcs, EndCodes
  <2>4. \/ /\ rr'.pc = "returned" /\ UNCHANGED service
           /\ tmp' => call.refused = "path" /\ call.authority = "bundle"
        \/ /\ rr'.pc = "named" /\ service'.session = "open"
           /\ tmp' => call.authority = "bundle"
           /\ service'.in = service.in /\ service'.ends = service.ends /\ service'.over = service.over
           /\ service'.posted = service.posted /\ service'.tested = service.tested
    BY <2>1 DEF RemoteTypes, Callers, Services
  <2>5. RemoteTypes'
    BY <2>1, <2>3 DEF RemoteTypes
  <2>6. TemporaryMine' /\ CallbackOff'
    BY <2>1, <2>2, <2>4 DEF TemporaryMine, CallbackOff, Remote!NoStrayReport, Remote!Is
  <2>7. CancelMine'
    BY <2>1, <2>2, <2>4 DEF CancelMine, CallbackOff
  <2>. QED
    BY <2>5, <2>6, <2>7
<1>3. ASSUME Remote!Waits \/ Remote!CjWaitLooks \/ Remote!CjWaitSleeps PROVE RemoteInv'
  <2>1. /\ rr.pc \in {"wait", "sleep"} /\ UNCHANGED <<call, tmp, service, signal, said>>
        /\ listener' \in {listener, [listener EXCEPT !.asleep = TRUE]}
        /\ \/ rr' = rr
           \/ rr' = [rr EXCEPT !.pc = "wait"]
           \/ rr' = [rr EXCEPT !.pc = "sleep"]
           \/ /\ rr' = [rr EXCEPT !.pc = "woke", !.result = listener.result]
              /\ listener.result # "none"
    BY <1>3 DEF Remote!Waits, Remote!CjWaitLooks, Remote!CjWaitSleeps
  <2>2. /\ listener' \in Listeners /\ listener'.cb = listener.cb
        /\ listener'.result = listener.result /\ listener'.err = listener.err
    BY <2>1 DEF RemoteTypes, Listeners
  <2>3. /\ rr' \in Callers
        /\ \/ rr'.pc \in {"wait", "sleep"}
           \/ rr'.pc = "woke" /\ rr'.result = listener.result /\ listener.result # "none"
    BY <2>1, ZenonT(40) DEF RemoteTypes, Callers, RemotePcs, Listeners
  <2>4. RemoteTypes'
    BY <2>1, <2>2, <2>3 DEF RemoteTypes
  <2>5. TemporaryMine' /\ CallbackOff'
    BY <2>1, <2>2, <2>3 DEF TemporaryMine, CallbackOff, Remote!NoStrayReport, Remote!Is
  <2>6. CancelMine'
    BY <2>1, <2>2, <2>3 DEF CancelMine, Ends
  <2>. QED
    BY <2>4, <2>5, <2>6
<1>4. ASSUME Remote!Woken PROVE RemoteInv'
  <2>1. /\ rr.pc = "woke" /\ UNCHANGED <<call, listener, service, signal, said>>
        /\ \/ /\ rr.result = "failed"
              /\ rr' = [rr EXCEPT !.pc = "returned", !.err = Remote!ErrCode(listener.err)]
           \/ /\ rr.result # "failed"
              /\ \E e \in {"ok", "EIO"} : rr' = [rr EXCEPT !.pc = "returned", !.err = e]
    BY <1>4 DEF Remote!Woken, Remote!Failure, Remote!Success, Remote!RmDir, Remote!CopyToSandBox
  <2>2. ~tmp'
    BY <1>4 DEF Remote!Woken, Remote!Failure, Remote!Success, Remote!RmDir, TemporaryMine
  <2>3. /\ rr' \in Callers /\ rr'.pc = "returned"
        /\ rr.result = "failed" => rr'.err = Remote!ErrCode(listener.err)
    <3>1. listener.err \in EndCodes /\ Remote!ErrCode(listener.err) \in EndCodes \cup {"EIO"}
      BY DEF RemoteTypes, Listeners, Remote!ErrCode
    <3>2. rr \in Callers
      BY DEF RemoteTypes
    <3>. QED
      BY <2>1, <3>1, <3>2 DEF Callers, RemotePcs, EndCodes
  <2>4. RemoteTypes'
    BY <2>1, <2>3 DEF RemoteTypes
  <2>5. TemporaryMine' /\ CallbackOff'
    BY <2>1, <2>2, <2>3 DEF TemporaryMine, CallbackOff, Remote!NoStrayReport, Remote!Is
  <2>6. CancelMine'
    BY <2>1, <2>3 DEF CancelMine, CallbackOff, Ends, Remote!ErrCode
  <2>. QED
    BY <2>4, <2>5, <2>6
<1>. QED
  BY <1>1, <1>2, <1>3, <1>4 DEF Remote!CallSteps, Remote!PrepareCopySession,
     Remote!NapiPrepareCopySession, Remote!CjPrepareCopySession, Remote!WaitForCopyResult,
     Remote!NapiWaitForCopyResult, Remote!CopyFileFromSoftBus, Remote!NapiCopyFileFromSoftBus,
     Remote!CjCopyFileFromSoftBus

\* The end of the session and its cancellation.
LEMMA RemoteEnds ==
    ASSUME RemoteInv, Remote!ServiceEnds \/ Remote!Answers \/ Remote!Cancel
    PROVE  RemoteInv'
<1>. USE DEF RemoteInv
<1>0. service \in Services /\ listener \in Listeners /\ signal \in Signals
  BY DEF RemoteTypes
<1>1. ASSUME NEW end \in {"ok", "ENETUNREACH", "unknown"}, Remote!SessionEnds(end)
      PROVE  RemoteInv'
  <2>1. PICK e \in {<<end>>, <<end, end>>} :
          service' = [service EXCEPT !.session = "closed", !.ends = e]
    BY <1>1 DEF Remote!SessionEnds
  <2>2. service.session = "open" /\ UNCHANGED <<call, rr, listener, tmp, signal, said>>
    BY <1>1 DEF Remote!SessionEnds
  <2>3. e \in Seq(EndCodes)
    <3>1. end \in EndCodes /\ (e = <<end>> \/ e = <<end, end>>)
      BY <2>1 DEF EndCodes
    <3>2. <<end>> \in Seq(EndCodes) /\ <<end, end>> \in Seq(EndCodes)
      BY <3>1
    <3>. QED
      BY <3>1, <3>2
  <2>4. /\ service' \in Services /\ service'.session = "closed"
        /\ service'.over = service.over /\ service'.in = service.in
        /\ service'.posted = service.posted /\ service'.tested = service.tested
    BY <1>0, <2>1, <2>3 DEF Services
  <2>5. RemoteTypes' /\ TemporaryMine' /\ CallbackOff'
    BY <2>2, <2>4 DEF RemoteTypes, TemporaryMine, CallbackOff, Remote!NoStrayReport, Remote!Is
  <2>6. CancelMine'
    BY <2>2, <2>4 DEF CancelMine
  <2>. QED
    BY <2>5, <2>6
<1>2. ASSUME Remote!EndBegins PROVE RemoteInv'
  <2>1. /\ service.in = "idle" /\ service.ends # << >>
        /\ service' = [service EXCEPT !.in = Head(service.ends), !.ends = Tail(@), !.over = TRUE]
        /\ listener' = [listener EXCEPT !.cb = FALSE]
        /\ UNCHANGED <<call, rr, tmp, signal, said>>
    BY <1>2 DEF Remote!EndBegins, Remote!EndDropsCallback, Remote!NoCallback
  <2>2. service.ends \in Seq(EndCodes)
    BY <1>0 DEF Services
  <2>3. Head(service.ends) \in EndCodes /\ Tail(service.ends) \in Seq(EndCodes)
    BY <2>1, <2>2
  <2>4. /\ service' \in Services /\ service'.session = service.session
        /\ service'.over /\ service'.posted = service.posted /\ service'.tested = service.tested
        /\ service'.in = Head(service.ends) /\ service'.ends = Tail(service.ends)
    BY <1>0, <2>1, <2>3 DEF Services
  <2>5. /\ listener' \in Listeners /\ ~listener'.cb
        /\ listener'.result = listener.result /\ listener'.err = listener.err
    BY <1>0, <2>1 DEF Listeners
  <2>6. RemoteTypes' /\ TemporaryMine'
    BY <2>1, <2>4, <2>5 DEF RemoteTypes, TemporaryMine
  <2>7. service.session = "closed"
    BY <1>0, <2>1 DEF CallbackOff, CancelMine, Services
  <2>8. CallbackOff'
    BY <2>1, <2>4, <2>5, <2>7 DEF CallbackOff, Remote!NoStrayReport, Remote!Is
  <2>9. Ends("ECANCELED") => Head(service.ends) = "ECANCELED" /\ Ends("ECANCELED")'
    BY <2>1, <2>2, <2>4 DEF Ends
  <2>10. CancelMine'
    BY <2>1, <2>4, <2>5, <2>7, <2>9 DEF CancelMine
  <2>. QED
    BY <2>6, <2>8, <2>10
<1>3. ASSUME Remote!EndNotifies PROVE RemoteInv'
  <2>1. /\ service.in # "idle" /\ service' = [service EXCEPT !.in = "idle"]
        /\ \/ /\ service.in = "ok"
              /\ listener' = [listener EXCEPT !.result = "success", !.asleep = FALSE]
           \/ /\ service.in # "ok"
              /\ listener' = [listener EXCEPT !.result = "failed", !.err = service.in, !.asleep = FALSE]
        /\ UNCHANGED <<call, rr, tmp, signal, said>>
    BY <1>3 DEF Remote!EndNotifies, Remote!OnFinished, Remote!OnFailed
  <2>2. /\ service' \in Services /\ service'.session = service.session
        /\ service'.over = service.over /\ service'.ends = service.ends /\ service'.in = "idle"
        /\ service'.posted = service.posted /\ service'.tested = service.tested
        /\ service.in \in EndCodes
    BY <1>0, <2>1 DEF Services
  <2>3. /\ listener' \in Listeners /\ listener'.cb = listener.cb
        /\ \/ service.in = "ok" /\ listener'.result = "success"
           \/ listener'.result = "failed" /\ listener'.err = service.in
    BY <1>0, <2>1, <2>2 DEF Listeners
  <2>4. RemoteTypes' /\ TemporaryMine'
    BY <2>1, <2>2, <2>3 DEF RemoteTypes, TemporaryMine
  <2>5. CallbackOff'
    BY <2>1, <2>2, <2>3 DEF CallbackOff, Remote!NoStrayReport, Remote!Is
  <2>6. CancelMine'
    BY <2>1, <2>2, <2>3 DEF CancelMine, Ends
  <2>. QED
    BY <2>4, <2>5, <2>6
<1>4. ASSUME Remote!Cancel PROVE RemoteInv'
  <2>1. /\ UNCHANGED <<call, rr, listener, tmp, said>>
        /\ \/ /\ UNCHANGED service
              /\ \/ signal' = [signal EXCEPT !.asked = "noted", !.need = TRUE]
                 \/ signal' = [signal EXCEPT !.asked = "refused"]
           \/ /\ service.session = "open"
              /\ service' = [service EXCEPT !.session = "closed", !.ends = Append(@, "ECANCELED")]
              /\ signal' = [signal EXCEPT !.asked = "accepted"]
    BY <1>4 DEF Remote!Cancel, Remote!TaskSignalCancel
  <2>2. CASE /\ UNCHANGED service
             /\ \/ signal' = [signal EXCEPT !.asked = "noted", !.need = TRUE]
                \/ signal' = [signal EXCEPT !.asked = "refused"]
    <3>1. signal' \in Signals /\ signal'.asked # "accepted"
      BY <1>0, <2>2 DEF Signals
    <3>. QED
      BY <2>1, <2>2, <3>1 DEF RemoteTypes, TemporaryMine, CallbackOff, CancelMine,
         Remote!NoStrayReport, Remote!Is
  <2>3. CASE /\ service.session = "open"
             /\ service' = [service EXCEPT !.session = "closed", !.ends = Append(@, "ECANCELED")]
             /\ signal' = [signal EXCEPT !.asked = "accepted"]
    <3>1. service.ends = << >> /\ service.in = "idle" /\ listener.result = "none"
          /\ rr.pc \in {"named", "wait", "sleep"}
      BY <2>3 DEF CancelMine
    <3>2. Append(service.ends, "ECANCELED") = <<"ECANCELED">>
      BY <3>1
    <3>3. /\ service' \in Services /\ service'.session = "closed" /\ service'.in = "idle"
          /\ service'.ends = <<"ECANCELED">> /\ service'.over = service.over
          /\ service'.posted = service.posted /\ service'.tested = service.tested
      <4>1. <<"ECANCELED">> \in Seq(EndCodes)
        BY DEF EndCodes
      <4>2. service' = [service EXCEPT !.session = "closed", !.ends = <<"ECANCELED">>]
        BY <2>3, <3>2
      <4>. QED
        BY <1>0, <3>1, <4>1, <4>2 DEF Services
    <3>4. signal' \in Signals
      BY <1>0, <2>3 DEF Signals
    <3>5. RemoteTypes' /\ TemporaryMine' /\ CallbackOff'
      BY <2>1, <3>1, <3>3, <3>4 DEF RemoteTypes, TemporaryMine, CallbackOff, Remote!NoStrayReport, Remote!Is
    <3>6. Ends("ECANCELED")'
      BY <3>3 DEF Ends
    <3>7. CancelMine'
      BY <2>1, <3>1, <3>3, <3>6 DEF CancelMine
    <3>. QED
      BY <3>5, <3>7
  <2>. QED
    BY <2>1, <2>2, <2>3
<1>. QED
  BY <1>1, <1>2, <1>3, <1>4 DEF Remote!ServiceEnds, Remote!Answers

LEMMA RemoteNextInv ==
    ASSUME RemoteInv, Remote!Next \/ UNCHANGED remoteVars
    PROVE  RemoteInv'
<1>1. CASE UNCHANGED remoteVars
  BY <1>1 DEF RemoteInv, remoteVars, RemoteTypes, TemporaryMine, CallbackOff, CancelMine, Ends,
     Remote!NoStrayReport, Remote!Is
<1>2. CASE Remote!Next
  BY <1>2, RemoteReports, RemoteCallSteps, RemoteEnds DEF Remote!Next, Remote!NapiOnFileReceive,
     Remote!CjOnFileReceive
<1>. QED
  BY <1>1, <1>2

-----------------------------------------------------------------------------
(* A copy on this device.                                                  *)

CopierFields == {"pc", "at", "off", "len", "sent", "r", "early"}
SharedFields ==
    {"notifyFd", "eventFd", "cbNotify", "cbEvent", "run", "reading", "closed", "wds", "paths",
     "seen", "progress", "total", "max", "ex", "reg", "said"}
ThreadFields == {"pc", "fds", "in", "buf"}
IsKernel(kern) == DOMAIN kern = {"tab", "inst", "files"} /\ DOMAIN kern.tab = 1 .. MaxFd

\* What the records are made of.
IsCopier(x) ==
    /\ DOMAIN x = CopierFields
    /\ x.at \in Nat \ {0} /\ x.off \in Nat /\ x.len \in Nat /\ x.sent \in Nat
CopyShapes ==
    /\ job \in CopyJobs
    /\ IsKernel(ck)
    /\ DOMAIN co = SharedFields /\ IsCopier(cc) /\ DOMAIN ct = ThreadFields
    /\ size \in [DOMAIN job.old -> Int]

\* The places of the copying thread: before the destination is watched, while it
\* copies, and when it ends.
BeforeWatch == {"call", "local", "subscribe", "worker", "complete"}
Beginning == {"call", "local", "subscribe", "exec"}
AtMember == {"next", "send"}
Ending == {"close", "closing", "closing2", "closefd", "stop", "join", "end"}
CopyPhases ==
    /\ cc.pc \in Beginning \cup AtMember \cup Ending \cup {"worker", "complete", "returned"}
    /\ cc.pc \in {"worker", "complete"} => Copy!Is("napi")
    /\ cc.pc \notin {"call", "worker", "complete", "returned"} => ~Copy!Is("napi")
    /\ cc.pc \in Beginning => cc.at = 1 /\ cc.sent = 0
    /\ cc.pc \in Beginning \cup AtMember => cc.r = "ok"
    /\ cc.pc = "send" =>
        /\ cc.at \in DOMAIN job.tree /\ job.tree[cc.at].kind = "file"
        /\ cc.len = job.tree[cc.at].len /\ cc.off <= cc.len
    /\ cc.pc \in BeforeWatch \cup {"end", "returned"} => ct.pc = "none"

\* The core leaves its inotify descriptor when eventfd is refused.
Leaks == Copy!Is("core") /\ Copy!Refused("eventfd")
CbClosed == co.cbNotify = 0 /\ co.cbEvent = 0

\* The open numbers are those the callback object has.  When the copying thread
\* has left the closing behind, nothing is open, or it was left to a reader that
\* is at work.
FdsKnown == Leaks \/ \A n \in 1 .. MaxFd : ck.tab[n] # 0 => n = co.cbNotify \/ n = co.cbEvent
FdsPhase ==
    /\ cc.pc \in BeforeWatch \cup {"closing2", "end", "returned"} => CbClosed
    /\ cc.pc \in {"stop", "join"} => CbClosed \/ (Copy!Is("core") /\ co.closed /\ co.reading)
    /\ Copy!Is("core") /\ co.reading => ct.pc \in {"read", "handle"}
FdsInv == FdsKnown /\ FdsPhase

\* Every member before the one that is copied is there in full.
Whole(n) == job.tree[n].kind = "file" => size[job.tree[n].name] >= job.tree[n].len
WholeInv ==
    /\ cc.pc \in AtMember => \A n \in DOMAIN job.tree : n < cc.at => Whole(n)
    /\ cc.pc = "send" => cc.off <= size[job.tree[cc.at].name]
    /\ cc.pc \in Ending \cup {"returned"} /\ cc.r = "ok" /\ ~Copy!Is("napi") =>
        \A n \in DOMAIN job.tree : Whole(n)

\* A copy cancelled before it began comes to its first file and no further.
CancelInv ==
    cc.early =>
        /\ need /\ cc.pc # "call"
        /\ cc.pc \in Beginning \cup AtMember => cc.sent = 0
        /\ cc.pc \in AtMember => \A n \in DOMAIN job.tree : n < cc.at => job.tree[n].kind # "file"
        /\ cc.pc \in Ending \cup {"returned"} /\ ~Copy!Is("napi") =>
            cc.sent <= 1 /\ (cc.r = "ok" => Copy!FilesOf(job) = {})

\* The reports: each at most the total, which is the length of what is copied
\* from the first on, and the last of them the largest.
SaidRight ==
    /\ co.total \in Nat /\ co.max \in Nat /\ co.max <= co.total
    /\ co.said \in Seq(Int \X Int)
    /\ \A n \in DOMAIN co.said :
        /\ co.said[n][1] <= co.total /\ co.said[n][2] = co.total
        /\ n > 1 => co.said[n - 1][1] <= co.said[n][1]
    /\ co.max = IF co.said = << >> THEN 0 ELSE co.said[Len(co.said)][1]
PostedRight ==
    /\ posted \in Seq(Int \X Int)
    /\ \A n \in DOMAIN posted : posted[n][1] <= co.total /\ posted[n][2] = co.total
    /\ ~Copy!Is("napi") => posted = << >>
Told == co.said # << >> /\ co.said[Len(co.said)][1] = co.total
TotalKnown ==
    /\ cc.pc \in {"call", "local", "subscribe"} => co.total = 0 /\ co.said = << >> /\ posted = << >>
    /\ cc.pc = "worker" => co.total = Copy!GetDirSize \/ (co.total = 0 /\ co.said = << >> /\ posted = << >>)
    /\ ct.pc # "none" => co.total = Copy!GetDirSize
    /\ cc.pc \notin {"call", "complete", "returned"} => co.reg
    /\ ~Copy!Is("napi") /\ cc.pc = "returned" /\ cc.r = "ok" /\ job.listener => Told
    /\ Copy!Is("napi") /\ cc.pc \in {"complete", "returned"} /\ cc.r = "ok" /\ job.listener =>
        IF posted = << >> THEN Told ELSE posted[Len(posted)][1] = co.total

\* What has been counted of a file, the largest of its sizes that were seen.
Counts(q, name) == {0} \cup {q[n][2] : n \in {m \in DOMAIN q : q[m][1] = name}}
Count(q, name) == Copy!Max(Counts(q, name))
IsCount(q, name) ==
    Count(q, name) \in Counts(q, name) /\ \A y \in Counts(q, name) : y \in Int /\ y <= Count(q, name)
CountOf == [n \in Copy!FilesOf(job) |-> Count(co.seen, job.tree[n].name)]
CountsRight ==
    /\ co.progress \in Int /\ co.seen \in Seq(FileNames(job) \X Int)
    /\ \A x \in FileNames(job) : IsCount(co.seen, x)
    /\ co.paths \subseteq FileNames(job) /\ (Copy!IsFile => co.paths = {})
SizesRight == \A n \in Copy!FilesOf(job) : size[job.tree[n].name] <= job.tree[n].len

\* The progress is what has been counted, which is at most the length of each file.
ProgressSums ==
    IF Copy!IsFile \/ Copy!Is("napi") THEN co.progress <= co.total
    ELSE /\ \A n \in Copy!FilesOf(job) : CountOf[n] <= job.tree[n].len
         /\ cc.pc # "returned" => co.progress = Sum(CountOf, Copy!FilesOf(job))
Reports == SaidRight /\ PostedRight /\ TotalKnown /\ CountsRight /\ ProgressSums
ProgressInv == Copy!Fresh => SizesRight /\ Reports

CopyInv == CopyShapes /\ CopyPhases /\ FdsInv /\ WholeInv /\ CancelInv /\ ProgressInv

\* What the operations of the kernel do to the numbers.
LEMMA Closing ==
    ASSUME NEW kern, IsKernel(kern), NEW fd
    PROVE  /\ IsKernel(Copy!Closed(kern, fd))
           /\ \A n \in 1 .. MaxFd :
                Copy!Closed(kern, fd).tab[n] = IF n = fd /\ fd # 0 THEN 0 ELSE kern.tab[n]
BY DEF Copy!Closed, IsKernel

LEMMA Opening ==
    ASSUME NEW kern, IsKernel(kern), NEW kind
    PROVE  /\ IsKernel(Copy!Opened(kern, kind))
           /\ \A n \in 1 .. MaxFd :
                n # Copy!NewFd(kern) => Copy!Opened(kern, kind).tab[n] = kern.tab[n]
BY DEF Copy!Opened, IsKernel

LEMMA Watching ==
    ASSUME NEW kern, IsKernel(kern), NEW fd, NEW file, NEW evs
    PROVE  /\ IsKernel(Copy!AddWatch(kern, fd, file, evs))
           /\ Copy!AddWatch(kern, fd, file, evs).tab = kern.tab
BY DEF Copy!AddWatch, IsKernel

LEMMA Unwatching ==
    ASSUME NEW kern, IsKernel(kern), NEW fd, NEW wds
    PROVE  /\ IsKernel(Copy!RmWatches(kern, fd, wds))
           /\ Copy!RmWatches(kern, fd, wds).tab = kern.tab
<1>1. PICK after : Copy!RmWatches(kern, fd, wds) = [kern EXCEPT !.inst = after]
  BY Zenon DEF Copy!RmWatches
<1>. QED
  BY <1>1 DEF IsKernel

LEMMA Happening ==
    ASSUME NEW kern, IsKernel(kern), NEW file, NEW event, NEW id
    PROVE  /\ IsKernel(Copy!Happens(kern, file, event, id))
           /\ Copy!Happens(kern, file, event, id).tab = kern.tab
BY DEF Copy!Happens, IsKernel

LEMMA Emptying ==
    ASSUME NEW kern, IsKernel(kern), NEW i
    PROVE  IsKernel(Copy!Emptied(kern, i)) /\ Copy!Emptied(kern, i).tab = kern.tab
BY DEF Copy!Emptied, IsKernel

\* Closing the two descriptors of the callback object closes all there are.
LEMMA ClosesAll ==
    ASSUME CopyShapes, FdsKnown
    PROVE  /\ IsKernel(Copy!CloseFd)
           /\ Leaks \/ \A n \in 1 .. MaxFd : Copy!CloseFd.tab[n] = 0
<1>. DEFINE k1 == Copy!Closed(ck, co.cbEvent)
            k2 == Copy!RmWatches(k1, co.cbNotify, co.wds)
            k3 == Copy!Closed(k2, co.cbNotify)
<1>1. Copy!CloseFd = k3
  BY DEF Copy!CloseFd
<1>2. IsKernel(ck)
  BY DEF CopyShapes, IsKernel
<1>3. /\ IsKernel(k1)
      /\ \A n \in 1 .. MaxFd : k1.tab[n] = IF n = co.cbEvent /\ co.cbEvent # 0 THEN 0 ELSE ck.tab[n]
  BY <1>2, Closing
<1>. HIDE DEF k1
<1>4. IsKernel(k2) /\ k2.tab = k1.tab
  BY <1>3, Unwatching
<1>. HIDE DEF k2
<1>5. /\ IsKernel(k3)
      /\ \A n \in 1 .. MaxFd : k3.tab[n] = IF n = co.cbNotify /\ co.cbNotify # 0 THEN 0 ELSE k2.tab[n]
  BY <1>4, Closing
<1>. HIDE DEF k3
<1>6. \A n \in 1 .. MaxFd : n # 0
  BY NumbersAssumption
<1>. QED
  BY <1>1, <1>3, <1>4, <1>5, <1>6 DEF FdsKnown

\* The larger of two.
LEMMA MaxOfTwo ==
    ASSUME NEW a \in Int, NEW b \in Int
    PROVE  Copy!Max({a, b}) = IF a >= b THEN a ELSE b
<1>. DEFINE m == IF a >= b THEN a ELSE b
<1>1. m \in {a, b} /\ m \in Int /\ \A y \in {a, b} : m >= y
  OBVIOUS
<1>2. \A x \in {a, b} : (\A y \in {a, b} : x >= y) => x = m
  OBVIOUS
<1>. HIDE DEF m
<1>3. (CHOOSE x \in {a, b} : \A y \in {a, b} : x >= y) = m
  BY <1>1, <1>2
<1>. QED
  BY <1>3 DEF Copy!Max, m

\* What a file made or opened for writing, and a unit moved, do to the sizes.
LEMMA CreatedDoes ==
    ASSUME CopyShapes, NEW name, Copy!Created(name)
    PROVE  /\ size' \in [DOMAIN job.old -> Int] /\ IsKernel(ck') /\ ck'.tab = ck.tab
           /\ \A x \in DOMAIN job.old :
                size'[x] = IF x = name /\ size[x] < 0 THEN 0 ELSE size[x]
<1>1. IsKernel(ck') /\ ck'.tab = ck.tab
  BY DEF CopyShapes, Copy!Created, IsKernel
<1>2. size' = [size EXCEPT ![name] = IF @ < 0 THEN 0 ELSE @] /\ size \in [DOMAIN job.old -> Int]
  BY DEF CopyShapes, Copy!Created
<1>3. CASE name \in DOMAIN job.old
  BY <1>1, <1>2, <1>3
<1>4. CASE name \notin DOMAIN job.old
  BY <1>1, <1>2, <1>4
<1>. QED
  BY <1>3, <1>4

LEMMA MovedDoes ==
    ASSUME CopyShapes, NEW n \in 0 .. 1, Copy!Moved(n)
    PROVE  /\ size' \in [DOMAIN job.old -> Int] /\ IsKernel(ck') /\ ck'.tab = ck.tab
           /\ \A x \in DOMAIN job.old :
                size'[x] = IF x = Copy!Here.name /\ size[x] < cc.off + n THEN cc.off + n ELSE size[x]
<1>1. IsKernel(ck') /\ ck'.tab = ck.tab
  <2>1. ck' = ck \/ ck' = Copy!Happens(ck, Copy!Here.dir, "modify", Copy!Here.name)
    BY DEF Copy!Moved
  <2>. QED
    BY <2>1, Happening DEF CopyShapes
<1>. DEFINE name == Copy!Here.name
            to == Copy!Max({size[name], cc.off + n})
<1>2. size' = [size EXCEPT ![name] = to] /\ size \in [DOMAIN job.old -> Int]
  BY DEF CopyShapes, Copy!Moved
<1>. HIDE DEF name
<1>3. CASE name \in DOMAIN job.old
  <2>1. size[name] \in Int /\ cc.off + n \in Int
    BY <1>3 DEF CopyShapes, IsCopier
  <2>2. to = IF size[name] >= cc.off + n THEN size[name] ELSE cc.off + n
    BY <2>1, MaxOfTwo
  <2>. HIDE DEF to
  <2>. QED
    BY <1>1, <1>2, <1>3, <2>1, <2>2 DEF name
<1>4. CASE name \notin DOMAIN job.old
  <2>. HIDE DEF to
  <2>. QED
    BY <1>1, <1>2, <1>4 DEF name
<1>. QED
  BY <1>3, <1>4

\* What stays of a record.
Keeps(x, y, fields, but) == DOMAIN y = fields /\ \A f \in fields \ but : y[f] = x[f]

\* A step of the copying thread that leaves its numbers alone.
LEMMA CopierKept ==
    ASSUME NEW x, NEW y, NEW but \in SUBSET {"pc", "r", "early"},
           IsCopier(x), Keeps(x, y, CopierFields, but)
    PROVE  IsCopier(y)
BY DEF IsCopier, Keeps, CopierFields

\* The member that is copied is one of the job's.
LEMMA HereIs ==
    ASSUME CopyShapes, cc.at <= Len(job.tree)
    PROVE  /\ cc.at \in DOMAIN job.tree /\ Copy!Here = job.tree[cc.at]
           /\ Copy!Here.len \in Nat
           /\ Copy!Here.kind = "file" => Copy!Here.name \in DOMAIN job.old
<1>0. DOMAIN job.tree = 1 .. Len(job.tree) /\ Len(job.tree) \in Nat
  BY JobsAssumption DEF CopyShapes
<1>1. cc.at \in DOMAIN job.tree /\ Copy!Here = job.tree[cc.at]
  <2>1. cc.at \in Nat /\ cc.at # 0
    BY DEF CopyShapes, IsCopier
  <2>2. cc.at \in 1 .. Len(job.tree)
    BY <1>0, <2>1
  <2>. QED
    BY <1>0, <2>2 DEF Copy!Here
<1>2. job.tree[cc.at].len \in Nat
  <2>. DEFINE M == [kind : {"file", "dir", "link"}, name : STRING, dir : STRING, len : Nat]
  <2>1. job.tree \in Seq(M)
    BY JobsAssumption DEF CopyShapes
  <2>2. \A m \in M : m.len \in Nat
    OBVIOUS
  <2>. HIDE DEF M
  <2>3. job.tree[cc.at] \in M
    BY <1>0, <1>1, <2>1
  <2>. QED
    BY <2>2, <2>3
<1>3. job.tree[cc.at].kind = "file" => job.tree[cc.at].name \in DOMAIN job.old
  BY <1>1, JobsAssumption DEF CopyShapes, FileNames
<1>. QED
  BY <1>1, <1>2, <1>3

-----------------------------------------------------------------------------
(* What the steps of the copying thread do.                                *)

\* It goes on, or it fails.
GoesTo(pcs) == Keeps(cc, cc', CopierFields, {"pc"}) /\ cc'.pc \in pcs
FailsWith == Keeps(cc, cc', CopierFields, {"pc", "r"}) /\ cc'.pc = "close" /\ cc'.r # "ok"
StepsOn == Keeps(cc, cc', CopierFields, {"pc", "at"}) /\ cc'.pc = "next" /\ cc'.at = cc.at + 1
SameTab == IsKernel(ck') /\ ck'.tab = ck.tab
SizesMade ==
    /\ size' \in [DOMAIN job.old -> Int]
    /\ \A x \in DOMAIN job.old : size'[x] = size[x] \/ (size[x] < 0 /\ size'[x] = 0)

LEMMA GoesKeeps ==
    ASSUME IsCopier(cc), NEW pcs, GoesTo(pcs) \/ FailsWith \/ StepsOn
    PROVE  IsCopier(cc')
<1>1. CASE GoesTo(pcs)
  BY <1>1, CopierKept DEF GoesTo
<1>2. CASE FailsWith
  BY <1>2, CopierKept DEF FailsWith
<1>3. CASE StepsOn
  BY <1>3 DEF StepsOn, IsCopier, Keeps, CopierFields
<1>. QED
  BY <1>1, <1>2, <1>3

LEMMA GoesIs ==
    ASSUME IsCopier(cc)
    PROVE  /\ \A pc : Copy!Goes(pc) => GoesTo({pc})
           /\ \A e : Copy!Fails(e) /\ e # "ok" => FailsWith
           /\ Copy!NextMember => StepsOn
<1>1. \A pc : Copy!Goes(pc) => GoesTo({pc})
  BY DEF Copy!Goes, GoesTo, Keeps, IsCopier, CopierFields
<1>2. \A e : Copy!Fails(e) /\ e # "ok" => FailsWith
  BY DEF Copy!Fails, FailsWith, Keeps, IsCopier, CopierFields
<1>3. Copy!NextMember => StepsOn
  BY DEF Copy!NextMember, StepsOn, Keeps, IsCopier, CopierFields
<1>. QED
  BY <1>1, <1>2, <1>3

LEMMA DoCopyDoes ==
    ASSUME CopyShapes, Copy!DoCopy
    PROVE  /\ cc.pc = "call" /\ UNCHANGED <<job, ck, ct, size, need, posted>>
           /\ Keeps(cc, cc', CopierFields, {"pc", "early"})
           /\ cc'.pc = IF Copy!Is("napi") THEN "worker" ELSE "local"
           /\ cc'.early = need
           /\ Keeps(co, co', SharedFields, {"reg"}) /\ co'.reg = TRUE
           /\ CopyShapes'
<1>0. DOMAIN cc = CopierFields /\ DOMAIN co = SharedFields /\ IsCopier(cc)
  BY DEF CopyShapes, IsCopier
<1>1. cc.pc = "call" /\ UNCHANGED <<job, ck, ct, size, need, posted>>
  BY DEF Copy!DoCopy
<1>2. cc' = [cc EXCEPT !.pc = IF Copy!Is("napi") THEN "worker" ELSE "local", !.early = need]
  BY DEF Copy!DoCopy
<1>3. /\ Keeps(cc, cc', CopierFields, {"pc", "early"})
      /\ cc'.pc = (IF Copy!Is("napi") THEN "worker" ELSE "local") /\ cc'.early = need
  BY <1>0, <1>2 DEF Keeps, CopierFields
<1>4. Keeps(co, co', SharedFields, {"reg"}) /\ co'.reg = TRUE
  BY <1>0 DEF Copy!DoCopy, Copy!RegisterListener, Keeps, SharedFields
<1>5. IsCopier(cc')
  BY <1>0, <1>3, CopierKept
<1>. QED
  BY <1>1, <1>3, <1>4, <1>5 DEF CopyShapes, Keeps

LEMMA ExecLocalDoes ==
    ASSUME CopyShapes, Copy!ExecLocal
    PROVE  /\ cc.pc = "local" /\ UNCHANGED <<job, co, ct, need, posted>>
           /\ FailsWith \/ GoesTo({"subscribe", "exec"})
           /\ SizesMade /\ SameTab /\ CopyShapes'
<1>0. DOMAIN cc = CopierFields /\ IsCopier(cc) /\ IsKernel(ck) /\ size \in [DOMAIN job.old -> Int]
  BY DEF CopyShapes, IsCopier
<1>1. cc.pc = "local" /\ UNCHANGED <<job, co, ct, need, posted>>
  BY DEF Copy!ExecLocal
<1>2. \/ Copy!Fails("EINVAL") \/ Copy!Fails("errno")
      \/ Copy!Goes("subscribe") \/ Copy!Goes("exec")
  BY DEF Copy!ExecLocal
<1>3. FailsWith \/ GoesTo({"subscribe", "exec"})
  BY <1>0, <1>2, GoesIs DEF GoesTo
<1>4. (size' = size /\ ck' = ck) \/ Copy!Created(Copy!Root)
  BY DEF Copy!ExecLocal, Copy!CheckOrCreatePath
<1>5. SizesMade /\ SameTab
  BY <1>0, <1>4, CreatedDoes DEF SizesMade, SameTab
<1>6. IsCopier(cc')
  BY <1>0, <1>3, GoesKeeps
<1>. QED
  BY <1>1, <1>3, <1>5, <1>6 DEF CopyShapes, SizesMade, SameTab

LEMMA ExecCopyDoes ==
    ASSUME CopyShapes, Copy!ExecCopy
    PROVE  /\ cc.pc = "exec" /\ UNCHANGED <<job, ck, co, ct, size, need, posted>>
           /\ FailsWith \/ GoesTo({"next"})
           /\ CopyShapes'
<1>0. IsCopier(cc)
  BY DEF CopyShapes
<1>1. /\ cc.pc = "exec" /\ UNCHANGED <<job, ck, co, ct, size, need, posted>>
      /\ Copy!Fails("EINVAL") \/ Copy!Goes("next")
  BY DEF Copy!ExecCopy
<1>2. FailsWith \/ GoesTo({"next"})
  BY <1>0, <1>1, GoesIs
<1>3. IsCopier(cc')
  BY <1>0, <1>2, GoesKeeps
<1>. QED
  BY <1>1, <1>2, <1>3 DEF CopyShapes

LEMMA CopySubDirDoes ==
    ASSUME CopyShapes, Copy!CopySubDir \/ Copy!SkipLink
    PROVE  /\ cc.pc = "next" /\ UNCHANGED <<job, ct, size, need, posted>>
           /\ cc.at \in DOMAIN job.tree /\ job.tree[cc.at].kind # "file"
           /\ FailsWith \/ StepsOn
           /\ Keeps(co, co', SharedFields, {"wds"})
           /\ SameTab /\ CopyShapes'
<1>0. IsCopier(cc) /\ IsKernel(ck) /\ DOMAIN co = SharedFields
  BY DEF CopyShapes
<1>1. /\ cc.pc = "next" /\ UNCHANGED <<job, ct, size, need, posted>>
      /\ cc.at <= Len(job.tree) /\ Copy!Here.kind \in {"dir", "link"}
      /\ Copy!Fails("errno") \/ Copy!NextMember
  BY DEF Copy!CopySubDir, Copy!SkipLink
<1>2. cc.at \in DOMAIN job.tree /\ job.tree[cc.at].kind # "file"
  BY <1>1, HereIs
<1>3. FailsWith \/ StepsOn
  BY <1>0, <1>1, GoesIs
<1>4. \/ co' = co
      \/ \E w : co' = [co EXCEPT !.wds = w]
  BY DEF Copy!CopySubDir, Copy!SkipLink
<1>5. Keeps(co, co', SharedFields, {"wds"})
  BY <1>0, <1>4 DEF Keeps, SharedFields
<1>6. SameTab
  <2>. DEFINE k1 == [ck EXCEPT !.files = @ \cup {Copy!Here.name}]
  <2>1. \/ ck' = ck
        \/ ck' = k1
        \/ ck' = Copy!AddWatch(k1, co.notifyFd, Copy!Here.name, {"modify"})
    BY DEF Copy!CopySubDir, Copy!SkipLink
  <2>2. IsKernel(k1) /\ k1.tab = ck.tab
    BY <1>0 DEF IsKernel
  <2>. HIDE DEF k1
  <2>. QED
    BY <1>0, <2>1, <2>2, Watching DEF SameTab
<1>7. IsCopier(cc')
  BY <1>0, <1>3, GoesKeeps
<1>. QED
  BY <1>1, <1>2, <1>3, <1>5, <1>6, <1>7 DEF CopyShapes, SameTab, Keeps

\* A file is opened: its name is noted, and its destination is there.
LEMMA CopyFileDoes ==
    ASSUME CopyShapes, Copy!CopyFile
    PROVE  /\ cc.pc = "next" /\ UNCHANGED <<job, ct, need, posted>>
           /\ cc.at \in DOMAIN job.tree /\ job.tree[cc.at].kind = "file"
           /\ Keeps(co, co', SharedFields, {"paths"})
           /\ co'.paths = IF Copy!IsFile THEN co.paths ELSE co.paths \cup {job.tree[cc.at].name}
           /\ SizesMade /\ SameTab
           /\ \/ FailsWith
              \/ /\ Keeps(cc, cc', CopierFields, {"pc", "off", "len"})
                 /\ cc'.pc = "send" /\ cc'.off = 0 /\ cc'.len = job.tree[cc.at].len
                 /\ size'[job.tree[cc.at].name] >= 0
           /\ CopyShapes'
<1>0. IsCopier(cc) /\ IsKernel(ck) /\ DOMAIN co = SharedFields /\ size \in [DOMAIN job.old -> Int]
  BY DEF CopyShapes
<1>1. /\ cc.pc = "next" /\ UNCHANGED <<job, ct, need, posted>>
      /\ cc.at <= Len(job.tree) /\ Copy!Here.kind = "file"
      /\ co' = [co EXCEPT !.paths = IF Copy!IsFile THEN @ ELSE @ \cup {Copy!Here.name}]
      /\ \/ Copy!Fails("errno") /\ size' = size /\ ck' = ck
         \/ /\ Copy!Created(Copy!Here.name)
            /\ cc' = [cc EXCEPT !.pc = "send", !.off = 0, !.len = Copy!Here.len]
  BY DEF Copy!CopyFile
<1>2. /\ cc.at \in DOMAIN job.tree /\ Copy!Here = job.tree[cc.at] /\ Copy!Here.kind = "file"
      /\ Copy!Here.len \in Nat /\ Copy!Here.name \in DOMAIN job.old
  BY <1>1, HereIs
<1>3. /\ Keeps(co, co', SharedFields, {"paths"})
      /\ co'.paths = IF Copy!IsFile THEN co.paths ELSE co.paths \cup {Copy!Here.name}
  BY <1>0, <1>1 DEF Keeps, SharedFields
<1>4. CASE Copy!Fails("errno") /\ size' = size /\ ck' = ck
  <2>1. FailsWith
    BY <1>0, <1>4, GoesIs
  <2>2. SizesMade /\ SameTab
    BY <1>0, <1>4 DEF SizesMade, SameTab
  <2>3. IsCopier(cc')
    BY <1>0, <2>1, GoesKeeps
  <2>. QED
    BY <1>1, <1>2, <1>3, <2>1, <2>2, <2>3 DEF CopyShapes, SizesMade, SameTab, Keeps
<1>5. CASE /\ Copy!Created(Copy!Here.name)
           /\ cc' = [cc EXCEPT !.pc = "send", !.off = 0, !.len = Copy!Here.len]
  <2>1. SizesMade /\ SameTab
    BY <1>0, <1>5, CreatedDoes DEF SizesMade, SameTab
  <2>2. size'[Copy!Here.name] >= 0
    <3>1. size[Copy!Here.name] \in Int
      BY <1>0, <1>2
    <3>2. size'[Copy!Here.name] = IF size[Copy!Here.name] < 0 THEN 0 ELSE size[Copy!Here.name]
      BY <1>2, <1>5, CreatedDoes
    <3>. QED
      BY <3>1, <3>2
  <2>3. /\ Keeps(cc, cc', CopierFields, {"pc", "off", "len"})
        /\ cc'.pc = "send" /\ cc'.off = 0 /\ cc'.len = Copy!Here.len
    BY <1>0, <1>5 DEF Keeps, CopierFields, IsCopier
  <2>4. IsCopier(cc')
    BY <1>0, <1>2, <2>3 DEF Keeps, CopierFields, IsCopier
  <2>. QED
    BY <1>1, <1>2, <1>3, <2>1, <2>2, <2>3, <2>4 DEF CopyShapes, SizesMade, SameTab, Keeps
<1>. QED
  BY <1>1, <1>4, <1>5

\* One round of sending, of n units.
SizesMoved(n) ==
    /\ size' \in [DOMAIN job.old -> Int]
    /\ \A x \in DOMAIN job.old :
        size'[x] = IF x = Copy!Here.name /\ size[x] < cc.off + n THEN cc.off + n ELSE size[x]
Sends(n) ==
    \/ FailsWith
    \/ /\ Keeps(cc, cc', CopierFields, {"pc", "r", "sent"}) /\ need
       /\ cc'.pc = "close" /\ cc'.r # "ok" /\ cc'.sent = cc.sent + n
    \/ /\ Keeps(cc, cc', CopierFields, {"off", "sent"}) /\ ~need
       /\ cc'.off = cc.off + n /\ cc'.sent = cc.sent + n /\ cc.off + n <= cc.len
    \/ StepsOn /\ ~need /\ cc.off + n = cc.len

LEMMA SendFileDoes ==
    ASSUME CopyShapes, NEW n \in 0 .. 1, Copy!SendFile(n)
    PROVE  /\ cc.pc = "send" /\ UNCHANGED <<job, co, ct, need, posted>>
           /\ cc.off + n <= Copy!Here.len
           /\ Sends(n) /\ SameTab /\ CopyShapes'
           /\ SizesMoved(n) \/ (FailsWith /\ size' = size)
<1>0. IsCopier(cc) /\ IsKernel(ck) /\ size \in [DOMAIN job.old -> Int] /\ DOMAIN cc = CopierFields
  BY DEF CopyShapes, IsCopier
<1>1. /\ cc.pc = "send" /\ UNCHANGED <<job, co, ct, need, posted>>
      /\ cc.off + n <= Copy!Here.len
  BY DEF Copy!SendFile
<1>2. CASE Copy!Fails("errno") /\ size' = size /\ ck' = ck
  <2>1. FailsWith
    BY <1>0, <1>2, GoesIs
  <2>2. IsCopier(cc')
    BY <1>0, <2>1, GoesKeeps
  <2>. QED
    BY <1>0, <1>1, <1>2, <2>1, <2>2 DEF Sends, SameTab, CopyShapes
<1>3. CASE Copy!Moved(n) /\ ~(Copy!Fails("errno") /\ size' = size /\ ck' = ck)
  <2>0. n \in Nat /\ cc.off \in Nat /\ cc.sent \in Nat /\ cc.len \in Nat
    BY <1>0 DEF IsCopier
  <2>1. SizesMoved(n) /\ SameTab
    BY <1>3, MovedDoes DEF SizesMoved, SameTab
  <2>2. \/ need /\ cc' = [cc EXCEPT !.pc = "close", !.r = "ECANCELED", !.sent = cc.sent + n]
        \/ ~need /\ ~Copy!Ends(n) /\ cc' = [cc EXCEPT !.off = cc.off + n, !.sent = cc.sent + n]
        \/ ~need /\ cc.off + n = cc.len /\ Copy!NextMember
        \/ Copy!Fails("EIO")
    BY <1>3 DEF Copy!SendFile, Copy!SendFileCoreGoesOn, Copy!CheckCancelIfNeed
  <2>3. CASE need /\ cc' = [cc EXCEPT !.pc = "close", !.r = "ECANCELED", !.sent = cc.sent + n]
    <3>1. /\ Keeps(cc, cc', CopierFields, {"pc", "r", "sent"})
          /\ cc'.pc = "close" /\ cc'.r # "ok" /\ cc'.sent = cc.sent + n
      BY <1>0, <2>3 DEF Keeps, CopierFields
    <3>2. IsCopier(cc')
      BY <1>0, <2>0, <3>1 DEF Keeps, CopierFields, IsCopier
    <3>. QED
      BY <1>1, <2>1, <2>3, <3>1, <3>2 DEF Sends, SizesMoved, SameTab, CopyShapes
  <2>4. CASE ~need /\ ~Copy!Ends(n) /\ cc' = [cc EXCEPT !.off = cc.off + n, !.sent = cc.sent + n]
    <3>1. /\ Keeps(cc, cc', CopierFields, {"off", "sent"})
          /\ cc'.off = cc.off + n /\ cc'.sent = cc.sent + n
      BY <1>0, <2>4 DEF Keeps, CopierFields
    <3>2. cc.off + n <= cc.len
      BY <2>0, <2>4 DEF Copy!Ends
    <3>3. IsCopier(cc')
      BY <1>0, <2>0, <3>1 DEF Keeps, CopierFields, IsCopier
    <3>. QED
      BY <1>1, <2>1, <2>4, <3>1, <3>2, <3>3 DEF Sends, SizesMoved, SameTab, CopyShapes
  <2>5. CASE ~need /\ cc.off + n = cc.len /\ Copy!NextMember
    <3>1. StepsOn
      BY <1>0, <2>5, GoesIs
    <3>2. IsCopier(cc')
      BY <1>0, <3>1, GoesKeeps
    <3>. QED
      BY <1>1, <2>1, <2>5, <3>1, <3>2 DEF Sends, SizesMoved, SameTab, CopyShapes
  <2>6. CASE Copy!Fails("EIO")
    <3>1. FailsWith
      BY <1>0, <2>6, GoesIs
    <3>2. IsCopier(cc')
      BY <1>0, <3>1, GoesKeeps
    <3>. QED
      BY <1>1, <2>1, <3>1, <3>2 DEF Sends, SizesMoved, SameTab, CopyShapes
  <2>. QED
    BY <2>2, <2>3, <2>4, <2>5, <2>6
<1>. QED
  BY <1>2, <1>3 DEF Copy!SendFile

\* The steps that only go on: the end of the tree, the stop and the join.
LEMMA GoingOnDoes ==
    ASSUME CopyShapes, Copy!Copied \/ Copy!Stops \/ Copy!WaitNotifyFinished
    PROVE  /\ UNCHANGED <<job, ck, ct, size, need, posted>>
           /\ Keeps(co, co', SharedFields, {"run"})
           /\ \/ cc.pc = "next" /\ cc.at > Len(job.tree) /\ GoesTo({"close"})
              \/ cc.pc = "stop" /\ GoesTo({"join"})
              \/ cc.pc = "join" /\ ct.pc = "none" /\ GoesTo({"end"})
           /\ CopyShapes'
<1>0. IsCopier(cc) /\ DOMAIN co = SharedFields
  BY DEF CopyShapes
<1>1. UNCHANGED <<job, ck, ct, size, need, posted>>
  BY DEF Copy!Copied, Copy!Stops, Copy!WaitNotifyFinished
<1>2. co' = co \/ co' = [co EXCEPT !.run = FALSE]
  BY DEF Copy!Copied, Copy!Stops, Copy!WaitNotifyFinished
<1>3. Keeps(co, co', SharedFields, {"run"})
  BY <1>0, <1>2 DEF Keeps, SharedFields
<1>4. \/ cc.pc = "next" /\ cc.at > Len(job.tree) /\ GoesTo({"close"})
      \/ cc.pc = "stop" /\ GoesTo({"join"})
      \/ cc.pc = "join" /\ ct.pc = "none" /\ GoesTo({"end"})
  BY <1>0, GoesIs DEF Copy!Copied, Copy!Stops, Copy!WaitNotifyFinished
<1>5. IsCopier(cc')
  BY <1>0, <1>4, GoesKeeps
<1>. QED
  BY <1>1, <1>3, <1>4, <1>5 DEF CopyShapes, Keeps

\* The four ways the closing goes.
ClosingGoes ==
    \/ /\ cc.pc = "close" /\ Copy!Is("core") /\ UNCHANGED ck
       /\ Keeps(co, co', SharedFields, {"closed"}) /\ co'.closed = TRUE
       /\ (co.reading /\ GoesTo({"stop"})) \/ (~co.reading /\ GoesTo({"closing"}))
    \/ /\ cc.pc = "closing" /\ GoesTo({"closefd"}) /\ UNCHANGED ck
       /\ Keeps(co, co', SharedFields, {"closed", "eventFd", "notifyFd"}) /\ co'.closed = FALSE
    \/ /\ \/ cc.pc = "closefd" /\ GoesTo({"stop"})
          \/ cc.pc = "close" /\ ~Copy!Is("core") /\ GoesTo({"closing2"})
       /\ ck' = Copy!CloseFd
       /\ Keeps(co, co', SharedFields, {"cbEvent", "cbNotify"}) /\ co'.cbEvent = 0 /\ co'.cbNotify = 0
    \/ /\ cc.pc = "closing2" /\ GoesTo({"stop"}) /\ UNCHANGED ck
       /\ Keeps(co, co', SharedFields, {"eventFd", "notifyFd"})

LEMMA ClosingDoes ==
    ASSUME CopyShapes, FdsKnown,
           Copy!CloseNotifyFdLocked \/ Copy!CloseNotifyFd \/ Copy!CloseFdStep \/ Copy!CjCloseNotifyFd
    PROVE  /\ UNCHANGED <<job, ct, size, need, posted>>
           /\ ClosingGoes /\ CopyShapes'
<1>0. IsCopier(cc) /\ DOMAIN co = SharedFields
  BY DEF CopyShapes
<1>1. UNCHANGED <<job, ct, size, need, posted>>
  BY DEF Copy!CloseNotifyFdLocked, Copy!CloseNotifyFd, Copy!CloseFdStep, Copy!CjCloseNotifyFd
<1>2. ASSUME Copy!CloseNotifyFdLocked PROVE ClosingGoes /\ IsCopier(cc') /\ IsKernel(ck') /\ DOMAIN co' = SharedFields
  <2>1. /\ cc.pc = "close" /\ Copy!Is("core") /\ UNCHANGED ck
        /\ co' = [co EXCEPT !.closed = TRUE]
        /\ (co.reading /\ Copy!Goes("stop")) \/ (~co.reading /\ Copy!Goes("closing"))
    BY <1>2 DEF Copy!CloseNotifyFdLocked
  <2>2. Keeps(co, co', SharedFields, {"closed"}) /\ co'.closed = TRUE
    BY <1>0, <2>1 DEF Keeps, SharedFields
  <2>3. (co.reading /\ GoesTo({"stop"})) \/ (~co.reading /\ GoesTo({"closing"}))
    BY <1>0, <2>1, GoesIs
  <2>. QED
    BY <1>0, <2>1, <2>2, <2>3, GoesKeeps DEF ClosingGoes, CopyShapes, Keeps
<1>3. ASSUME Copy!CloseNotifyFd PROVE ClosingGoes /\ IsCopier(cc') /\ IsKernel(ck') /\ DOMAIN co' = SharedFields
  <2>1. /\ cc.pc = "closing" /\ Copy!Goes("closefd") /\ UNCHANGED ck
        /\ co' = [[co EXCEPT !.closed = FALSE] EXCEPT !.eventFd = 0, !.notifyFd = 0]
    BY <1>3 DEF Copy!CloseNotifyFd, Copy!NoInfosFds
  <2>2. Keeps(co, co', SharedFields, {"closed", "eventFd", "notifyFd"}) /\ co'.closed = FALSE
    BY <1>0, <2>1 DEF Keeps, SharedFields
  <2>3. GoesTo({"closefd"})
    BY <1>0, <2>1, GoesIs
  <2>. QED
    BY <1>0, <2>1, <2>2, <2>3, GoesKeeps DEF ClosingGoes, CopyShapes, Keeps
<1>4. ASSUME Copy!CloseFdStep \/ (Copy!CjCloseNotifyFd /\ cc.pc = "close")
      PROVE  ClosingGoes /\ IsCopier(cc') /\ IsKernel(ck') /\ DOMAIN co' = SharedFields
  <2>1. /\ \/ cc.pc = "closefd" /\ Copy!Goes("stop")
           \/ cc.pc = "close" /\ ~Copy!Is("core") /\ Copy!Goes("closing2")
        /\ ck' = Copy!CloseFd
        /\ co' = [co EXCEPT !.cbEvent = 0, !.cbNotify = 0]
    BY <1>4 DEF Copy!CloseFdStep, Copy!CjCloseNotifyFd, Copy!CjCloseFd, Copy!NoCallbackFds, Copy!Is
  <2>2. Keeps(co, co', SharedFields, {"cbEvent", "cbNotify"}) /\ co'.cbEvent = 0 /\ co'.cbNotify = 0
    BY <1>0, <2>1 DEF Keeps, SharedFields
  <2>3. \/ cc.pc = "closefd" /\ GoesTo({"stop"})
        \/ cc.pc = "close" /\ ~Copy!Is("core") /\ GoesTo({"closing2"})
    BY <1>0, <2>1, GoesIs
  <2>4. IsKernel(ck')
    BY <2>1, ClosesAll
  <2>. QED
    BY <1>0, <2>1, <2>2, <2>3, <2>4, GoesKeeps DEF ClosingGoes, Keeps
<1>5. ASSUME Copy!CjCloseNotifyFd, cc.pc # "close"
      PROVE  ClosingGoes /\ IsCopier(cc') /\ IsKernel(ck') /\ DOMAIN co' = SharedFields
  <2>1. /\ cc.pc = "closing2" /\ Copy!Goes("stop") /\ UNCHANGED ck
        /\ co' = [co EXCEPT !.eventFd = 0, !.notifyFd = 0]
    BY <1>5 DEF Copy!CjCloseNotifyFd, Copy!NoInfosFds
  <2>2. Keeps(co, co', SharedFields, {"eventFd", "notifyFd"})
    BY <1>0, <2>1 DEF Keeps, SharedFields
  <2>3. GoesTo({"stop"})
    BY <1>0, <2>1, GoesIs
  <2>. QED
    BY <1>0, <2>1, <2>2, <2>3, GoesKeeps DEF ClosingGoes, CopyShapes, Keeps
<1>6. ClosingGoes /\ IsCopier(cc') /\ IsKernel(ck') /\ DOMAIN co' = SharedFields
  BY <1>2, <1>3, <1>4, <1>5
<1>. QED
  BY <1>1, <1>6 DEF CopyShapes

\* The destination is watched, or nothing is open.
LEMMA SubscribeDoes ==
    ASSUME CopyShapes, FdsKnown, CbClosed, Copy!SubscribeLocalListener
    PROVE  /\ cc.pc = "subscribe" /\ UNCHANGED <<job, size, need, posted>>
           /\ \/ FailsWith /\ UNCHANGED <<co, ct>>
              \/ /\ GoesTo({"exec"}) /\ ct'.pc = "begin"
                 /\ Keeps(co, co', SharedFields, {"notifyFd", "eventFd", "cbNotify", "cbEvent", "wds", "total"})
                 /\ co'.total = Copy!GetDirSize
           /\ FdsKnown' /\ CopyShapes'
<1>. DEFINE k1 == Copy!Opened(ck, "inotify")
            fd == Copy!NewFd(ck)
            k2 == Copy!Opened(k1, "event")
            ev == Copy!NewFd(k1)
<1>0. IsCopier(cc) /\ IsKernel(ck) /\ DOMAIN co = SharedFields
  BY DEF CopyShapes
<1>1. cc.pc = "subscribe" /\ UNCHANGED <<job, size, need, posted>>
  BY DEF Copy!SubscribeLocalListener
<1>2. Leaks \/ \A n \in 1 .. MaxFd : ck.tab[n] = 0
  BY NumbersAssumption DEF FdsKnown, CbClosed
<1>3. IsKernel(k1) /\ \A n \in 1 .. MaxFd : n # fd => k1.tab[n] = ck.tab[n]
  BY <1>0, Opening
<1>4. IsKernel(k2) /\ \A n \in 1 .. MaxFd : n # ev => k2.tab[n] = k1.tab[n]
  <2>. HIDE DEF k1
  <2>. QED
    BY <1>3, Opening
<1>5. \/ Copy!Fails("errno") /\ ck' = ck /\ UNCHANGED <<co, ct>>
      \/ Copy!Fails("errno") /\ ck' = k1 /\ Leaks /\ UNCHANGED <<co, ct>>
      \/ Copy!Subscribed(k2, fd, ev)
  BY DEF Copy!SubscribeLocalListener, Leaks
<1>6. Leaks' = Leaks
  BY <1>1 DEF Leaks, Copy!Is, Copy!Refused
<1>. HIDE DEF k1, k2, fd, ev
<1>7. CASE \/ Copy!Fails("errno") /\ ck' = ck /\ UNCHANGED <<co, ct>>
           \/ Copy!Fails("errno") /\ ck' = k1 /\ Leaks /\ UNCHANGED <<co, ct>>
  <2>1. FailsWith /\ IsCopier(cc')
    BY <1>0, <1>7, GoesIs, GoesKeeps
  <2>2. FdsKnown'
    BY <1>6, <1>7 DEF FdsKnown
  <2>. QED
    BY <1>0, <1>1, <1>3, <1>7, <2>1, <2>2 DEF CopyShapes
<1>8. CASE Copy!Subscribed(k2, fd, ev)
  <2>1. CASE Copy!CanWatch(k2, fd, Copy!Root)
    <3>1. /\ ck' = Copy!AddWatch(k2, fd, Copy!Root, {"modify"})
          /\ co' = [co EXCEPT !.notifyFd = fd, !.eventFd = ev, !.cbNotify = fd, !.cbEvent = ev,
                              !.wds = <<Copy!AddedWd(k2, fd, Copy!Root)>>, !.total = Copy!GetDirSize]
          /\ ct' = [Copy!NoThread EXCEPT !.pc = "begin"] /\ Copy!Goes("exec")
      BY <1>8, <2>1 DEF Copy!Subscribed
    <3>2. IsKernel(ck') /\ ck'.tab = k2.tab
      BY <1>4, <3>1, Watching
    <3>3. /\ Keeps(co, co', SharedFields, {"notifyFd", "eventFd", "cbNotify", "cbEvent", "wds", "total"})
          /\ co'.cbNotify = fd /\ co'.cbEvent = ev /\ co'.total = Copy!GetDirSize
      BY <1>0, <3>1 DEF Keeps, SharedFields
    <3>4. DOMAIN ct' = ThreadFields /\ ct'.pc = "begin"
      BY <3>1 DEF Copy!NoThread, ThreadFields
    <3>5. GoesTo({"exec"}) /\ IsCopier(cc')
      BY <1>0, <3>1, GoesIs, GoesKeeps
    <3>6. FdsKnown'
      BY <1>2, <1>3, <1>4, <1>6, <3>2, <3>3 DEF FdsKnown
    <3>. QED
      BY <1>1, <3>2, <3>3, <3>4, <3>5, <3>6 DEF CopyShapes, Keeps
  <2>2. CASE ~Copy!CanWatch(k2, fd, Copy!Root)
    <3>. DEFINE k3 == Copy!Closed(k2, fd)
    <3>1. ck' = Copy!Closed(k3, ev) /\ Copy!Fails("errno") /\ UNCHANGED <<co, ct>>
      BY <1>8, <2>2 DEF Copy!Subscribed
    <3>2. IsKernel(k3) /\ \A n \in 1 .. MaxFd : k3.tab[n] = IF n = fd /\ fd # 0 THEN 0 ELSE k2.tab[n]
      BY <1>4, Closing
    <3>. HIDE DEF k3
    <3>3. IsKernel(ck') /\ \A n \in 1 .. MaxFd : ck'.tab[n] = IF n = ev /\ ev # 0 THEN 0 ELSE k3.tab[n]
      BY <3>1, <3>2, Closing
    <3>4. FailsWith /\ IsCopier(cc')
      BY <1>0, <3>1, GoesIs, GoesKeeps
    <3>5. \A n \in 1 .. MaxFd : n # 0
      BY NumbersAssumption
    <3>6. Leaks \/ \A n \in 1 .. MaxFd : ck'.tab[n] = 0
      BY <1>2, <1>3, <1>4, <3>2, <3>3, <3>5
    <3>7. FdsKnown'
      BY <1>6, <3>6 DEF FdsKnown
    <3>. QED
      BY <1>1, <3>1, <3>3, <3>4, <3>7 DEF CopyShapes
  <2>. QED
    BY <2>1, <2>2
<1>. QED
  BY <1>5, <1>7, <1>8

\* A report of p, made or dropped.
Says(x, y, p, total) ==
    \/ p < x.max /\ y.max = x.max /\ y.said = x.said
    \/ ~(p < x.max) /\ y.max = p /\ y.said = Append(x.said, <<p, total>>)

LEMMA ReportDoes ==
    ASSUME NEW s, DOMAIN s = SharedFields
    PROVE  /\ \A p, total :
                /\ Keeps(s, Copy!ReceiveComplete(s, p, total), SharedFields, {"max", "said"})
                /\ Says(s, Copy!ReceiveComplete(s, p, total), p, total)
           /\ Keeps(s, Copy!Reported(s), SharedFields, {"max", "said"})
           /\ \/ s.reg /\ Says(s, Copy!Reported(s), s.progress, s.total)
              \/ ~s.reg /\ Copy!Reported(s) = s
<1>1. ASSUME NEW p, NEW total
      PROVE  /\ Keeps(s, Copy!ReceiveComplete(s, p, total), SharedFields, {"max", "said"})
             /\ Says(s, Copy!ReceiveComplete(s, p, total), p, total)
  <2>. DEFINE y == Copy!ReceiveComplete(s, p, total)
  <2>1. CASE p < s.max
    <3>1. y = s
      BY <2>1 DEF Copy!ReceiveComplete
    <3>. HIDE DEF y
    <3>2. Keeps(s, y, SharedFields, {"max", "said"}) /\ Says(s, y, p, total)
      BY <2>1, <3>1 DEF Keeps, Says
    <3>. QED
      BY <3>2 DEF y
  <2>2. CASE ~(p < s.max)
    <3>1. y = [s EXCEPT !.max = p, !.said = Append(s.said, <<p, total>>)]
      BY <2>2 DEF Copy!ReceiveComplete
    <3>. HIDE DEF y
    <3>2. Keeps(s, y, SharedFields, {"max", "said"}) /\ Says(s, y, p, total)
      BY <2>2, <3>1 DEF Keeps, Says, SharedFields
    <3>. QED
      BY <3>2 DEF y
  <2>. QED
    BY <2>1, <2>2
<1>. DEFINE y == Copy!Reported(s)
<1>2. \/ s.reg /\ y = Copy!ReceiveComplete(s, s.progress, s.total)
      \/ ~s.reg /\ y = s
  BY DEF Copy!Reported, Copy!CjOnFileReceive, Copy!OnFileReceive, Copy!CjReceiveComplete
<1>3. Keeps(s, s, SharedFields, {"max", "said"})
  BY DEF Keeps
<1>. HIDE DEF y
<1>4. /\ Keeps(s, y, SharedFields, {"max", "said"})
      /\ (s.reg /\ Says(s, y, s.progress, s.total)) \/ (~s.reg /\ y = s)
  BY <1>1, <1>2, <1>3
<1>. QED
  BY <1>1, <1>4 DEF y

LEMMA EndedDoes ==
    ASSUME CopyShapes, Copy!Ended
    PROVE  /\ cc.pc = "end" /\ UNCHANGED <<job, ck, ct, size, need, posted>>
           /\ Keeps(cc, cc', CopierFields, {"pc", "r"}) /\ cc'.pc = "returned"
           /\ \/ cc.r # "ok" /\ cc'.r = cc.r /\ Keeps(co, co', SharedFields, {"ex", "reg"})
              \/ /\ cc.r = "ok"
                 /\ \/ ~job.listener /\ Keeps(co, co', SharedFields, {"reg"})
                    \/ /\ job.listener
                       /\ Keeps(co, co', SharedFields, {"progress", "max", "said", "reg"})
                       /\ co'.progress = co.total
                       /\ co.reg => Says(co, co', co.total, co.total)
                       /\ ~co.reg => co'.max = co.max /\ co'.said = co.said
           /\ CopyShapes'
<1>0. IsCopier(cc) /\ DOMAIN co = SharedFields /\ DOMAIN cc = CopierFields
  BY DEF CopyShapes, IsCopier
<1>1. cc.pc = "end" /\ UNCHANGED <<job, ck, ct, size, need, posted>>
  BY DEF Copy!Ended
<1>2. /\ cc' = [cc EXCEPT !.pc = "returned", !.r = IF cc.r # "ok" THEN cc.r ELSE co.ex]
      /\ \/ cc.r # "ok" /\ co' = [co EXCEPT !.ex = cc.r, !.reg = FALSE]
         \/ /\ cc.r = "ok"
            /\ \/ ~job.listener /\ co' = [co EXCEPT !.reg = FALSE]
               \/ /\ job.listener
                  /\ co' = [Copy!Reported([co EXCEPT !.progress = co.total]) EXCEPT !.reg = FALSE]
  BY DEF Copy!Ended, Copy!Returns, Copy!CopyComplete
<1>3. /\ Keeps(cc, cc', CopierFields, {"pc", "r"}) /\ cc'.pc = "returned"
      /\ cc.r # "ok" => cc'.r = cc.r
  BY <1>0, <1>2 DEF Keeps, CopierFields
<1>4. IsCopier(cc')
  BY <1>0, <1>3, CopierKept
<1>5. CASE cc.r # "ok" /\ co' = [co EXCEPT !.ex = cc.r, !.reg = FALSE]
  <2>1. Keeps(co, co', SharedFields, {"ex", "reg"})
    BY <1>0, <1>5 DEF Keeps, SharedFields
  <2>. QED
    BY <1>1, <1>3, <1>4, <1>5, <2>1 DEF CopyShapes, Keeps
<1>6. CASE cc.r = "ok" /\ ~job.listener /\ co' = [co EXCEPT !.reg = FALSE]
  <2>1. Keeps(co, co', SharedFields, {"reg"})
    BY <1>0, <1>6 DEF Keeps, SharedFields
  <2>. QED
    BY <1>1, <1>3, <1>4, <1>6, <2>1 DEF CopyShapes, Keeps
<1>7. CASE /\ cc.r = "ok" /\ job.listener
           /\ co' = [Copy!Reported([co EXCEPT !.progress = co.total]) EXCEPT !.reg = FALSE]
  <2>. DEFINE s == [co EXCEPT !.progress = co.total]
              y == Copy!Reported(s)
  <2>1. /\ Keeps(co, s, SharedFields, {"progress"}) /\ s.progress = co.total
        /\ s.reg = co.reg /\ s.total = co.total /\ s.max = co.max /\ s.said = co.said
    BY <1>0 DEF Keeps, SharedFields
  <2>2. co' = [y EXCEPT !.reg = FALSE]
    BY <1>7
  <2>. HIDE DEF s
  <2>3. /\ Keeps(s, y, SharedFields, {"max", "said"})
        /\ (s.reg /\ Says(s, y, s.progress, s.total)) \/ (~s.reg /\ y = s)
    BY <2>1, ReportDoes DEF Keeps
  <2>. HIDE DEF y
  <2>4. Keeps(co, co', SharedFields, {"progress", "max", "said", "reg"})
    BY <2>1, <2>2, <2>3 DEF Keeps, SharedFields
  <2>5. co'.progress = co.total /\ co'.max = y.max /\ co'.said = y.said
    BY <2>1, <2>2, <2>3 DEF Keeps, SharedFields
  <2>6. /\ co.reg => Says(co, co', co.total, co.total)
        /\ ~co.reg => co'.max = co.max /\ co'.said = co.said
    BY <2>1, <2>3, <2>5 DEF Says
  <2>. QED
    BY <1>1, <1>3, <1>4, <1>7, <2>4, <2>5, <2>6 DEF CopyShapes, Keeps
<1>. QED
  BY <1>2, <1>5, <1>6, <1>7

\* The dynamic binding.
LEMMA ListenerDoes ==
    ASSUME CopyShapes, NEW p \in 1 .. Copy!GetDirSize, Copy!ProcessListener(p), p \in Nat
    PROVE  /\ cc.pc = "worker" /\ UNCHANGED <<job, ck, ct, size, need>>
           /\ p <= Copy!GetDirSize
           /\ Keeps(cc, cc', CopierFields, {"off"})
           /\ Keeps(co, co', SharedFields, {"progress", "total"})
           /\ co'.progress = p /\ co'.total = Copy!GetDirSize
           /\ posted' = posted \/ posted' = Append(posted, <<p, Copy!GetDirSize>>)
           /\ CopyShapes'
<1>0. IsCopier(cc) /\ DOMAIN co = SharedFields /\ DOMAIN cc = CopierFields
  BY DEF CopyShapes, IsCopier
<1>1. /\ cc.pc = "worker" /\ UNCHANGED <<job, ck, ct, size, need>>
      /\ p <= Copy!GetDirSize
      /\ posted' = posted \/ posted' = Append(posted, <<p, Copy!GetDirSize>>)
      /\ co' = [co EXCEPT !.progress = p, !.total = Copy!GetDirSize] /\ cc' = [cc EXCEPT !.off = p]
  BY DEF Copy!ProcessListener
<1>2. Keeps(cc, cc', CopierFields, {"off"}) /\ cc'.off = p
  BY <1>0, <1>1 DEF Keeps, CopierFields
<1>3. /\ Keeps(co, co', SharedFields, {"progress", "total"})
      /\ co'.progress = p /\ co'.total = Copy!GetDirSize
  BY <1>0, <1>1 DEF Keeps, SharedFields
<1>4. IsCopier(cc')
  BY <1>0, <1>2 DEF IsCopier, Keeps, CopierFields
<1>. QED
  BY <1>1, <1>2, <1>3, <1>4 DEF CopyShapes, Keeps

LEMMA NapiExecDoes ==
    ASSUME CopyShapes, Copy!NapiExecCopy
    PROVE  /\ cc.pc = "worker" /\ UNCHANGED <<job, ck, ct, size, need>>
           /\ Keeps(cc, cc', CopierFields, {"pc", "r"}) /\ cc'.pc = "complete"
           /\ \/ cc'.r # "ok" /\ UNCHANGED <<co, posted>>
              \/ ~job.listener /\ UNCHANGED <<co, posted>>
              \/ /\ job.listener
                 /\ Keeps(co, co', SharedFields, {"progress"}) /\ co'.progress = co.total
                 /\ posted' = Append(posted, <<co.total, co.total>>)
           /\ CopyShapes'
<1>0. IsCopier(cc) /\ DOMAIN co = SharedFields /\ DOMAIN cc = CopierFields
  BY DEF CopyShapes, IsCopier
<1>1. cc.pc = "worker" /\ UNCHANGED <<job, ck, ct, size, need>>
  BY DEF Copy!NapiExecCopy
<1>2. \/ cc' = [cc EXCEPT !.pc = "complete", !.r = "errno"] /\ UNCHANGED <<co, posted>>
      \/ cc' = [cc EXCEPT !.pc = "complete"] /\ ~job.listener /\ UNCHANGED <<co, posted>>
      \/ /\ cc' = [cc EXCEPT !.pc = "complete"] /\ job.listener
         /\ co' = [co EXCEPT !.progress = co.total]
         /\ posted' = Append(posted, <<co.total, co.total>>)
  BY DEF Copy!NapiExecCopy, Copy!Goes
<1>3. Keeps(cc, cc', CopierFields, {"pc", "r"}) /\ cc'.pc = "complete"
  BY <1>0, <1>2 DEF Keeps, CopierFields
<1>4. \/ cc'.r # "ok" /\ UNCHANGED <<co, posted>>
      \/ ~job.listener /\ UNCHANGED <<co, posted>>
      \/ /\ job.listener
         /\ Keeps(co, co', SharedFields, {"progress"}) /\ co'.progress = co.total
         /\ posted' = Append(posted, <<co.total, co.total>>)
  BY <1>0, <1>2 DEF Keeps, CopierFields, SharedFields
<1>5. IsCopier(cc')
  BY <1>0, <1>3, CopierKept
<1>. QED
  BY <1>1, <1>3, <1>4, <1>5 DEF CopyShapes, Keeps

LEMMA NapiCompletesDoes ==
    ASSUME CopyShapes, Copy!NapiCompletes
    PROVE  /\ cc.pc = "complete" /\ UNCHANGED <<job, ck, ct, size, need, posted>>
           /\ GoesTo({"returned"})
           /\ Keeps(co, co', SharedFields, {"reg"})
           /\ CopyShapes'
<1>0. IsCopier(cc) /\ DOMAIN co = SharedFields /\ DOMAIN cc = CopierFields
  BY DEF CopyShapes, IsCopier
<1>1. /\ cc.pc = "complete" /\ UNCHANGED <<job, ck, ct, size, need, posted>>
      /\ co' = [co EXCEPT !.reg = FALSE] /\ cc' = [cc EXCEPT !.pc = "returned", !.r = cc.r]
  BY DEF Copy!NapiCompletes, Copy!Returns
<1>2. GoesTo({"returned"})
  BY <1>0, <1>1 DEF GoesTo, Keeps, CopierFields
<1>3. Keeps(co, co', SharedFields, {"reg"})
  BY <1>0, <1>1 DEF Keeps, SharedFields
<1>4. IsCopier(cc')
  BY <1>0, <1>2, GoesKeeps
<1>. QED
  BY <1>1, <1>2, <1>3, <1>4 DEF CopyShapes, Keeps

LEMMA NapiReportsDoes ==
    ASSUME CopyShapes, Copy!NapiReports
    PROVE  /\ UNCHANGED <<job, ck, cc, ct, size, need>>
           /\ posted # << >> /\ posted' = Tail(posted)
           /\ Keeps(co, co', SharedFields, {"max", "said"})
           /\ Says(co, co', Head(posted)[1], Head(posted)[2])
           /\ CopyShapes'
<1>1. /\ UNCHANGED <<job, ck, cc, ct, size, need>>
      /\ posted # << >> /\ posted' = Tail(posted)
      /\ co' = Copy!ReceiveComplete(co, Head(posted)[1], Head(posted)[2])
  BY DEF Copy!NapiReports, Copy!NapiReceiveComplete
<1>2. /\ Keeps(co, co', SharedFields, {"max", "said"})
      /\ Says(co, co', Head(posted)[1], Head(posted)[2])
  BY <1>1, ReportDoes DEF CopyShapes
<1>. QED
  BY <1>1, <1>2 DEF CopyShapes, Keeps

-----------------------------------------------------------------------------
(* What the steps of the notify thread do.                                 *)

LEMMA ThreadDoes ==
    ASSUME CopyShapes,
           Copy!GetNotifyEvent \/ Copy!NotifyLoop \/ Copy!PollEnters \/ Copy!PollReturns
    PROVE  /\ UNCHANGED <<job, ck, cc, size, need, posted>>
           /\ ct.pc \in {"begin", "loop", "enter", "poll"}
           /\ Keeps(co, co', SharedFields, {"run"})
           /\ CopyShapes'
<1>. USE DEF Copy!ThreadLeaves
<1>0. DOMAIN co = SharedFields /\ DOMAIN ct = ThreadFields
  BY DEF CopyShapes
<1>1. /\ UNCHANGED <<job, ck, cc, size, need, posted>>
      /\ ct.pc \in {"begin", "loop", "enter", "poll"}
  BY DEF Copy!GetNotifyEvent, Copy!NotifyLoop, Copy!PollEnters, Copy!PollReturns
<1>2. co' = co \/ co' = [co EXCEPT !.run = FALSE]
  BY DEF Copy!GetNotifyEvent, Copy!NotifyLoop, Copy!PollEnters, Copy!PollReturns
<1>3. Keeps(co, co', SharedFields, {"run"})
  BY <1>0, <1>2 DEF Keeps, SharedFields
<1>4. \/ ct' = Copy!NoThread
      \/ \E pc, fds : ct' = [ct EXCEPT !.pc = pc, !.fds = fds]
      \/ \E pc, in : ct' = [ct EXCEPT !.pc = pc, !.in = in]
      \/ \E pc : ct' = [ct EXCEPT !.pc = pc]
  <2>1. CASE Copy!GetNotifyEvent
    BY <2>1 DEF Copy!GetNotifyEvent
  <2>2. CASE Copy!NotifyLoop \/ Copy!PollReturns
    BY <2>2 DEF Copy!NotifyLoop, Copy!PollReturns, Copy!ThreadGoes
  <2>3. CASE Copy!PollEnters
    BY <2>3 DEF Copy!PollEnters, Copy!ThreadGoes
  <2>. QED
    BY <2>1, <2>2, <2>3
<1>5. DOMAIN ct' = ThreadFields
  BY <1>0, <1>4 DEF Copy!NoThread, ThreadFields
<1>. QED
  BY <1>1, <1>3, <1>5 DEF CopyShapes, Keeps

LEMMA ReadDoes ==
    ASSUME CopyShapes, Copy!ReadLocks \/ Copy!ReadNotifyEvent
    PROVE  /\ UNCHANGED <<job, cc, size, need, posted>>
           /\ SameTab
           /\ \/ /\ ct.pc = "lock" /\ Keeps(co, co', SharedFields, {"reading"})
                 /\ co'.reading => ct'.pc = "read"
              \/ ct.pc = "read" /\ ct'.pc = "handle" /\ UNCHANGED co
           /\ CopyShapes'
<1>. USE DEF Copy!ThreadLeaves
<1>0. DOMAIN co = SharedFields /\ DOMAIN ct = ThreadFields /\ IsKernel(ck)
  BY DEF CopyShapes
<1>1. CASE Copy!ReadLocks
  <2>1. /\ UNCHANGED <<job, ck, cc, size, need, posted>>
        /\ ct.pc = "lock" /\ co' = [co EXCEPT !.reading = ~co.closed]
        /\ \/ co.closed /\ ct' = [ct EXCEPT !.pc = "loop", !.in = 0]
           \/ ~co.closed /\ ct' = [ct EXCEPT !.pc = "read", !.in = 0]
    BY <1>1 DEF Copy!ReadLocks, Copy!ThreadGoes
  <2>2. Keeps(co, co', SharedFields, {"reading"}) /\ (co'.reading <=> ~co.closed)
    BY <1>0, <2>1 DEF Keeps, SharedFields
  <2>3. DOMAIN ct' = ThreadFields /\ (~co.closed => ct'.pc = "read")
    BY <1>0, <2>1 DEF ThreadFields
  <2>. QED
    BY <1>0, <2>1, <2>2, <2>3 DEF CopyShapes, SameTab, Keeps
<1>2. CASE Copy!ReadNotifyEvent
  <2>1. /\ UNCHANGED <<job, co, cc, size, need, posted>> /\ ct.pc = "read"
        /\ \E b : ct' = [ct EXCEPT !.pc = "handle", !.buf = b]
        /\ ck' = ck \/ \E i : ck' = Copy!Emptied(ck, i)
    BY <1>2 DEF Copy!ReadNotifyEvent
  <2>2. DOMAIN ct' = ThreadFields /\ ct'.pc = "handle"
    BY <1>0, <2>1 DEF ThreadFields
  <2>3. SameTab
    BY <1>0, <2>1, Emptying DEF SameTab
  <2>. QED
    BY <2>1, <2>2, <2>3 DEF CopyShapes, SameTab
<1>. QED
  BY <1>1, <1>2

\* What an event does to the progress.
Handled(y) ==
    \/ y = co
    \/ Copy!IsFile /\ Keeps(co, y, SharedFields, {"progress"}) /\ y.progress = size[Copy!Root]
    \/ \E name \in co.paths : y = Copy!UpdateProgressSize(co, name)
    \/ Copy!Is("cj") /\ ~Copy!IsFile /\ Keeps(co, y, SharedFields, {"progress"})

LEMMA UpdateDoes ==
    ASSUME CopyShapes, NEW name
    PROVE  Keeps(co, Copy!UpdateProgressSize(co, name), SharedFields, {"progress", "seen"})
<1>. DEFINE y == Copy!UpdateProgressSize(co, name)
<1>1. y = co \/ \E p, q : y = [co EXCEPT !.progress = p, !.seen = q]
  BY DEF Copy!UpdateProgressSize
<1>. HIDE DEF y
<1>2. Keeps(co, y, SharedFields, {"progress", "seen"})
  BY <1>1 DEF Keeps, CopyShapes, SharedFields
<1>. QED
  BY <1>2 DEF y

LEMMA HandledIs ==
    ASSUME CopyShapes, NEW e
    PROVE  /\ Handled(Copy!HandleProgress(co, e).o)
           /\ Copy!Is("cj") => Handled(Copy!CjHandleProgress(co, e).o)
<1>0. DOMAIN co = SharedFields
  BY DEF CopyShapes
<1>. DEFINE files == [co EXCEPT !.progress = size[Copy!Root]]
            dirs == [co EXCEPT !.progress = DirSize]
            y == Copy!HandleProgress(co, e).o
            z == Copy!CjHandleProgress(co, e).o
<1>1. Keeps(co, files, SharedFields, {"progress"}) /\ files.progress = size[Copy!Root]
  BY <1>0 DEF Keeps, SharedFields
<1>2. Keeps(co, dirs, SharedFields, {"progress"})
  BY <1>0 DEF Keeps, SharedFields
<1>. HIDE DEF files, dirs
<1>3. \/ y = co \/ (Copy!IsFile /\ y = files)
      \/ e.id \in co.paths /\ y = Copy!UpdateProgressSize(co, e.id)
  BY DEF files, Copy!HandleProgress, Copy!CheckFileValid
<1>4. \/ z = co \/ (Copy!IsFile /\ z = files) \/ (~Copy!IsFile /\ z = dirs)
      \/ e.id \in co.paths /\ z = Copy!UpdateProgressSize(co, e.id)
  BY DEF files, dirs, Copy!CjHandleProgress, Copy!CheckFileValid, Copy!CjUpdateProgressSize
<1>. HIDE DEF y, z
<1>5. Handled(y)
  BY <1>1, <1>3 DEF Handled
<1>6. Copy!Is("cj") => Handled(z)
  BY <1>1, <1>2, <1>4 DEF Handled
<1>. QED
  BY <1>5, <1>6 DEF y, z

LEMMA HandleDoes ==
    ASSUME CopyShapes, Copy!HandleNext
    PROVE  /\ UNCHANGED <<job, ck, cc, size, need, posted>>
           /\ ct.pc = "handle" /\ ct'.pc = "handle"
           /\ \E y :
                /\ Handled(y) /\ Keeps(co, y, SharedFields, {"progress", "seen"})
                /\ \/ Keeps(y, co', SharedFields, {"run"})
                   \/ /\ Keeps(y, co', SharedFields, {"max", "said"})
                      /\ (y.reg /\ Says(y, co', y.progress, y.total)) \/ (~y.reg /\ co' = y)
           /\ CopyShapes'
<1>. USE DEF Copy!ThreadLeaves
<1>0. DOMAIN co = SharedFields /\ DOMAIN ct = ThreadFields
  BY DEF CopyShapes
<1>. DEFINE h == IF Copy!Is("cj") THEN Copy!CjHandleProgress(co, Head(ct.buf))
                 ELSE Copy!HandleProgress(co, Head(ct.buf))
            y == h.o
<1>1. /\ UNCHANGED <<job, ck, cc, size, need, posted>> /\ ct.pc = "handle"
      /\ \E b : ct' = [ct EXCEPT !.buf = b]
      /\ co' = [y EXCEPT !.run = FALSE] \/ co' = y \/ co' = Copy!Reported(y)
  BY DEF Copy!HandleNext
<1>2. Handled(y)
  BY HandledIs
<1>3. DOMAIN ct' = ThreadFields /\ ct'.pc = "handle"
  BY <1>0, <1>1 DEF ThreadFields
<1>. HIDE DEF h, y
<1>4. Keeps(co, y, SharedFields, {"progress", "seen"})
  BY <1>0, <1>2, UpdateDoes DEF Handled, Keeps
<1>5. DOMAIN y = SharedFields
  BY <1>4 DEF Keeps
<1>6. \/ Keeps(y, co', SharedFields, {"run"})
      \/ /\ Keeps(y, co', SharedFields, {"max", "said"})
         /\ (y.reg /\ Says(y, co', y.progress, y.total)) \/ (~y.reg /\ co' = y)
  <2>1. CASE co' = [y EXCEPT !.run = FALSE] \/ co' = y
    BY <1>5, <2>1 DEF Keeps, SharedFields
  <2>2. CASE co' = Copy!Reported(y)
    BY <1>5, <2>2, ReportDoes
  <2>. QED
    BY <1>1, <2>1, <2>2
<1>7. DOMAIN co' = SharedFields
  BY <1>6 DEF Keeps
<1>. QED
  BY <1>1, <1>2, <1>3, <1>4, <1>6, <1>7 DEF CopyShapes

LEMMA ReadEndsDoes ==
    ASSUME CopyShapes, FdsKnown, Copy!ReadEnds
    PROVE  /\ UNCHANGED <<job, cc, size, need, posted>>
           /\ ct.pc = "handle" /\ ct'.pc = "loop"
           /\ \/ Copy!Is("cj") /\ UNCHANGED <<ck, co>>
              \/ /\ co.closed /\ ck' = Copy!CloseFd
                 /\ Keeps(co, co', SharedFields,
                          {"reading", "closed", "eventFd", "notifyFd", "cbEvent", "cbNotify"})
                 /\ co'.cbEvent = 0 /\ co'.cbNotify = 0 /\ co'.reading = FALSE
              \/ /\ ~co.closed /\ UNCHANGED ck /\ Keeps(co, co', SharedFields, {"reading"})
                 /\ co'.reading = FALSE
           /\ CopyShapes'
<1>. USE DEF Copy!ThreadLeaves
<1>0. DOMAIN co = SharedFields /\ DOMAIN ct = ThreadFields /\ IsKernel(ck)
  BY DEF CopyShapes
<1>1. /\ UNCHANGED <<job, cc, size, need, posted>> /\ ct.pc = "handle"
      /\ ct' = [ct EXCEPT !.pc = "loop", !.buf = << >>]
      /\ \/ Copy!Is("cj") /\ UNCHANGED <<ck, co>>
         \/ co.closed /\ ck' = Copy!CloseFd
            /\ co' = [[[co EXCEPT !.reading = FALSE, !.closed = FALSE] EXCEPT !.eventFd = 0, !.notifyFd = 0]
                        EXCEPT !.cbEvent = 0, !.cbNotify = 0]
         \/ ~co.closed /\ UNCHANGED ck /\ co' = [co EXCEPT !.reading = FALSE]
  BY DEF Copy!ReadEnds, Copy!ReadNotifyEventLocked, Copy!NoCallbackFds, Copy!NoInfosFds
<1>2. DOMAIN ct' = ThreadFields /\ ct'.pc = "loop"
  BY <1>0, <1>1 DEF ThreadFields
<1>3. \/ Copy!Is("cj") /\ UNCHANGED <<ck, co>>
      \/ /\ co.closed /\ ck' = Copy!CloseFd
         /\ Keeps(co, co', SharedFields,
                  {"reading", "closed", "eventFd", "notifyFd", "cbEvent", "cbNotify"})
         /\ co'.cbEvent = 0 /\ co'.cbNotify = 0 /\ co'.reading = FALSE
      \/ /\ ~co.closed /\ UNCHANGED ck /\ Keeps(co, co', SharedFields, {"reading"})
         /\ co'.reading = FALSE
  BY <1>0, <1>1 DEF Keeps, SharedFields
<1>4. IsKernel(ck') /\ DOMAIN co' = SharedFields
  BY <1>0, <1>3, ClosesAll DEF Keeps
<1>. QED
  BY <1>1, <1>2, <1>3, <1>4 DEF CopyShapes

-----------------------------------------------------------------------------
(* The invariant is kept.                                                  *)

\* Where the copying thread is.
LEMMA PhasesKept ==
    ASSUME CopyShapes, CopyPhases, FdsInv, Copy!Next
    PROVE  CopyPhases' /\ CopyShapes' /\ UNCHANGED job
<1>. USE DEF CopyPhases, Beginning, AtMember, Ending, BeforeWatch, Copy!Is, GoesTo, FailsWith, StepsOn
<1>1. CASE Copy!DoCopy
  BY <1>1, DoCopyDoes DEF Keeps, CopierFields
<1>2. CASE Copy!ExecLocal
  BY <1>2, ExecLocalDoes DEF Keeps, CopierFields
<1>3. CASE Copy!SubscribeLocalListener
  <2>1. cc.pc = "subscribe"
    BY <1>3 DEF Copy!SubscribeLocalListener
  <2>2. FdsKnown /\ CbClosed
    BY <2>1 DEF FdsInv, FdsPhase
  <2>. QED
    BY <1>3, <2>2, SubscribeDoes DEF Keeps, CopierFields
<1>4. CASE Copy!ExecCopy
  BY <1>4, ExecCopyDoes DEF Keeps, CopierFields
<1>5. CASE Copy!CopySubDir \/ Copy!SkipLink
  BY <1>5, CopySubDirDoes DEF Keeps, CopierFields
<1>6. CASE Copy!CopyFile
  <2>1. cc.at \in DOMAIN job.tree => job.tree[cc.at].len \in Nat
    <3>1. cc.at <= Len(job.tree) /\ Copy!Here = job.tree[cc.at]
      BY <1>6 DEF Copy!CopyFile, Copy!Here
    <3>. QED
      BY <3>1, HereIs
  <2>. QED
    BY <1>6, <2>1, CopyFileDoes DEF Keeps, CopierFields
<1>7. ASSUME NEW n \in 0 .. 1, Copy!SendFile(n) PROVE CopyPhases' /\ CopyShapes' /\ UNCHANGED job
  <2>1. /\ cc.pc = "send" /\ UNCHANGED <<job, co, ct, need, posted>>
        /\ Sends(n) /\ CopyShapes'
    BY <1>7, SendFileDoes
  <2>. QED
    BY <2>1 DEF Sends, Keeps, CopierFields
<1>8. CASE Copy!Copied \/ Copy!Stops \/ Copy!WaitNotifyFinished
  BY <1>8, GoingOnDoes DEF Keeps, CopierFields
<1>9. CASE Copy!CloseNotifyFdLocked \/ Copy!CloseNotifyFd \/ Copy!CloseFdStep \/ Copy!CjCloseNotifyFd
  BY <1>9, ClosingDoes DEF ClosingGoes, FdsInv, Keeps, CopierFields
<1>10. CASE Copy!Ended
  BY <1>10, EndedDoes DEF Keeps, CopierFields
<1>11. ASSUME NEW p \in 1 .. Copy!GetDirSize, Copy!ProcessListener(p)
       PROVE  CopyPhases' /\ CopyShapes' /\ UNCHANGED job
  <2>1. p \in Nat
    OBVIOUS
  <2>. QED
    BY <1>11, <2>1, ListenerDoes DEF Keeps, CopierFields
<1>12. CASE Copy!NapiExecCopy
  BY <1>12, NapiExecDoes DEF Keeps, CopierFields
<1>13. CASE Copy!NapiCompletes
  BY <1>13, NapiCompletesDoes DEF Keeps, CopierFields
<1>14. CASE Copy!NapiReports
  BY <1>14, NapiReportsDoes
<1>15. CASE Copy!GetNotifyEvent \/ Copy!NotifyLoop \/ Copy!PollEnters \/ Copy!PollReturns
  BY <1>15, ThreadDoes
<1>16. CASE Copy!ReadLocks \/ Copy!ReadNotifyEvent
  BY <1>16, ReadDoes
<1>17. CASE Copy!HandleNext
  BY <1>17, HandleDoes
<1>18. CASE Copy!ReadEnds
  BY <1>18, ReadEndsDoes DEF FdsInv
<1>19. CASE Copy!Cancel
  BY <1>19 DEF Copy!Cancel, CopyShapes
<1>. QED
  BY <1>1, <1>2, <1>3, <1>4, <1>5, <1>6, <1>7, <1>8, <1>9, <1>10, <1>11, <1>12, <1>13, <1>14,
     <1>15, <1>16, <1>17, <1>18, <1>19 DEF Copy!Next, Copy!Copies, Copy!Notifies

\* The descriptors.
LEMMA FdsStay ==
    ASSUME CopyPhases, FdsInv, CopyPhases', UNCHANGED job,
           ck'.tab = ck.tab, co'.cbNotify = co.cbNotify, co'.cbEvent = co.cbEvent,
           co.closed => co'.closed, co'.reading = co.reading,
           ct'.pc = ct.pc \/ ct'.pc = "handle" \/ ct.pc \notin {"read", "handle"},
           \/ cc'.pc \notin BeforeWatch \cup {"closing2", "stop", "join", "end", "returned"}
           \/ cc'.pc = cc.pc
           \/ cc'.pc \in BeforeWatch /\ cc.pc \in BeforeWatch
           \/ cc'.pc = "join" /\ cc.pc = "stop"
           \/ cc'.pc = "returned" /\ cc.pc \in {"complete", "end"}
    PROVE  FdsInv'
<1>1. FdsKnown'
  BY DEF FdsInv, FdsKnown, Leaks, Copy!Is, Copy!Refused
<1>2. FdsPhase'
  BY DEF FdsInv, FdsPhase, CbClosed, BeforeWatch, Copy!Is
<1>. QED
  BY <1>1, <1>2 DEF FdsInv

LEMMA FdsNext ==
    ASSUME CopyShapes, CopyPhases, FdsInv, Copy!Next
    PROVE  FdsInv'
<1>0. CopyPhases' /\ CopyShapes' /\ UNCHANGED job
  BY PhasesKept
<1>. USE DEF Beginning, AtMember, Ending, BeforeWatch, GoesTo, FailsWith, StepsOn, SameTab
<1>1. CASE Copy!DoCopy
  BY <1>0, <1>1, DoCopyDoes, FdsStay DEF Keeps, CopierFields, SharedFields
<1>2. CASE Copy!ExecLocal
  BY <1>0, <1>2, ExecLocalDoes, FdsStay DEF Keeps, CopierFields
<1>3. CASE Copy!SubscribeLocalListener
  <2>1. cc.pc = "subscribe"
    BY <1>3 DEF Copy!SubscribeLocalListener
  <2>2. FdsKnown /\ CbClosed
    BY <2>1 DEF FdsInv, FdsPhase
  <2>3. ct.pc = "none"
    BY <2>1 DEF CopyPhases
  <2>4. FdsKnown'
    BY <1>3, <2>2, SubscribeDoes
  <2>5. cc'.pc \in {"close", "exec"} /\ co'.reading = co.reading
    BY <1>3, <2>2, SubscribeDoes DEF Keeps, SharedFields
  <2>6. FdsPhase'
    BY <1>0, <2>3, <2>5 DEF FdsInv, FdsPhase, Copy!Is
  <2>. QED
    BY <2>4, <2>6 DEF FdsInv
<1>4. CASE Copy!ExecCopy
  BY <1>0, <1>4, ExecCopyDoes, FdsStay DEF Keeps, CopierFields
<1>5. CASE Copy!CopySubDir \/ Copy!SkipLink
  BY <1>0, <1>5, CopySubDirDoes, FdsStay DEF Keeps, CopierFields, SharedFields
<1>6. CASE Copy!CopyFile
  BY <1>0, <1>6, CopyFileDoes, FdsStay DEF Keeps, CopierFields, SharedFields
<1>7. ASSUME NEW n \in 0 .. 1, Copy!SendFile(n) PROVE FdsInv'
  <2>1. /\ cc.pc = "send" /\ UNCHANGED <<job, co, ct, need, posted>> /\ Sends(n) /\ SameTab
    BY <1>7, SendFileDoes
  <2>2. cc'.pc \in {"close", "send", "next"}
    BY <2>1 DEF Sends, Keeps, CopierFields
  <2>. QED
    BY <1>0, <2>1, <2>2, FdsStay
<1>8. CASE Copy!Copied \/ Copy!Stops \/ Copy!WaitNotifyFinished
  <2>1. CASE Copy!Copied \/ Copy!Stops
    <3>1. cc'.pc = "close" \/ (cc'.pc = "join" /\ cc.pc = "stop")
      BY <1>8, <2>1, GoingOnDoes DEF Copy!Copied, Copy!Stops
    <3>. QED
      BY <1>0, <1>8, <3>1, GoingOnDoes, FdsStay DEF Keeps, SharedFields
  <2>2. CASE Copy!WaitNotifyFinished
    <3>1. cc.pc = "join" /\ ct.pc = "none" /\ ck' = ck /\ co' = co /\ ct' = ct
      BY <2>2 DEF Copy!WaitNotifyFinished
    <3>2. CbClosed
      BY <3>1 DEF FdsInv, FdsPhase
    <3>3. cc'.pc = "end"
      BY <1>8, <3>1, GoingOnDoes
    <3>4. FdsKnown'
      BY <1>0, <3>1 DEF FdsInv, FdsKnown, Leaks, Copy!Is, Copy!Refused
    <3>5. FdsPhase'
      BY <1>0, <3>1, <3>2, <3>3 DEF FdsInv, FdsPhase, CbClosed, Copy!Is
    <3>. QED
      BY <3>4, <3>5 DEF FdsInv
  <2>. QED
    BY <1>8, <2>1, <2>2
<1>9. CASE Copy!CloseNotifyFdLocked \/ Copy!CloseNotifyFd \/ Copy!CloseFdStep \/ Copy!CjCloseNotifyFd
  <2>1. ClosingGoes /\ UNCHANGED <<job, ct, size, need, posted>> /\ CopyShapes' /\ FdsKnown
    BY <1>9, ClosingDoes DEF FdsInv
  <2>2. ASSUME ck' = ck, co'.cbNotify = co.cbNotify, co'.cbEvent = co.cbEvent
        PROVE  FdsKnown'
    BY <1>0, <2>1, <2>2 DEF FdsKnown, Leaks, Copy!Is, Copy!Refused
  <2>3. CASE /\ cc.pc = "close" /\ Copy!Is("core") /\ UNCHANGED ck
             /\ Keeps(co, co', SharedFields, {"closed"}) /\ co'.closed = TRUE
             /\ (co.reading /\ GoesTo({"stop"})) \/ (~co.reading /\ GoesTo({"closing"}))
    <3>1. co'.cbNotify = co.cbNotify /\ co'.cbEvent = co.cbEvent /\ co'.reading = co.reading
      BY <2>3 DEF Keeps, SharedFields
    <3>2. FdsPhase'
      BY <1>0, <2>1, <2>3, <3>1 DEF FdsInv, FdsPhase, Copy!Is
    <3>. QED
      BY <2>2, <2>3, <3>1, <3>2 DEF FdsInv
  <2>4. CASE /\ cc.pc = "closing" /\ GoesTo({"closefd"}) /\ UNCHANGED ck
             /\ Keeps(co, co', SharedFields, {"closed", "eventFd", "notifyFd"}) /\ co'.closed = FALSE
    <3>1. co'.cbNotify = co.cbNotify /\ co'.cbEvent = co.cbEvent /\ co'.reading = co.reading
      BY <2>4 DEF Keeps, SharedFields
    <3>2. FdsPhase'
      BY <1>0, <2>1, <2>4, <3>1 DEF FdsInv, FdsPhase, Copy!Is
    <3>. QED
      BY <2>2, <2>4, <3>1, <3>2 DEF FdsInv
  <2>5. CASE /\ \/ cc.pc = "closefd" /\ GoesTo({"stop"})
                \/ cc.pc = "close" /\ ~Copy!Is("core") /\ GoesTo({"closing2"})
             /\ ck' = Copy!CloseFd
             /\ Keeps(co, co', SharedFields, {"cbEvent", "cbNotify"}) /\ co'.cbEvent = 0 /\ co'.cbNotify = 0
    <3>1. co'.closed = co.closed /\ co'.reading = co.reading
      BY <2>5 DEF Keeps, SharedFields
    <3>2. FdsPhase'
      BY <1>0, <2>1, <2>5, <3>1 DEF FdsInv, FdsPhase, CbClosed, Copy!Is
    <3>3. FdsKnown'
      BY <1>0, <2>1, <2>5, ClosesAll DEF FdsKnown, Leaks, Copy!Is, Copy!Refused
    <3>. QED
      BY <3>2, <3>3 DEF FdsInv
  <2>6. CASE /\ cc.pc = "closing2" /\ GoesTo({"stop"}) /\ UNCHANGED ck
             /\ Keeps(co, co', SharedFields, {"eventFd", "notifyFd"})
    <3>1. co'.cbNotify = co.cbNotify /\ co'.cbEvent = co.cbEvent /\ co'.reading = co.reading
      BY <2>6 DEF Keeps, SharedFields
    <3>2. FdsPhase'
      BY <1>0, <2>1, <2>6, <3>1 DEF FdsInv, FdsPhase, CbClosed, Copy!Is
    <3>. QED
      BY <2>2, <2>6, <3>1, <3>2 DEF FdsInv
  <2>. QED
    BY <2>1, <2>3, <2>4, <2>5, <2>6 DEF ClosingGoes
<1>10. CASE Copy!Ended
  BY <1>0, <1>10, EndedDoes, FdsStay DEF Keeps, CopierFields, SharedFields
<1>11. ASSUME NEW p \in 1 .. Copy!GetDirSize, Copy!ProcessListener(p) PROVE FdsInv'
  <2>1. p \in Nat
    OBVIOUS
  <2>. QED
    BY <1>0, <1>11, <2>1, ListenerDoes, FdsStay DEF Keeps, CopierFields, SharedFields
<1>12. CASE Copy!NapiExecCopy
  BY <1>0, <1>12, NapiExecDoes, FdsStay DEF Keeps, CopierFields, SharedFields
<1>13. CASE Copy!NapiCompletes
  BY <1>0, <1>13, NapiCompletesDoes, FdsStay DEF Keeps, CopierFields, SharedFields
<1>14. CASE Copy!NapiReports
  BY <1>0, <1>14, NapiReportsDoes, FdsStay DEF Keeps, SharedFields
<1>15. CASE Copy!GetNotifyEvent \/ Copy!NotifyLoop \/ Copy!PollEnters \/ Copy!PollReturns
  BY <1>0, <1>15, ThreadDoes, FdsStay DEF Keeps, SharedFields
<1>16. CASE Copy!ReadLocks \/ Copy!ReadNotifyEvent
  <2>1. /\ UNCHANGED <<job, cc, size, need, posted>> /\ ck'.tab = ck.tab
        /\ \/ /\ ct.pc = "lock" /\ Keeps(co, co', SharedFields, {"reading"})
              /\ co'.reading => ct'.pc = "read"
           \/ ct.pc = "read" /\ ct'.pc = "handle" /\ UNCHANGED co
    BY <1>16, ReadDoes
  <2>2. co'.cbNotify = co.cbNotify /\ co'.cbEvent = co.cbEvent /\ co'.closed = co.closed
    BY <2>1 DEF Keeps, SharedFields
  <2>3. FdsKnown'
    BY <2>1, <2>2 DEF FdsInv, FdsKnown, Leaks, Copy!Is, Copy!Refused
  <2>4. FdsPhase'
    BY <2>1, <2>2 DEF FdsInv, FdsPhase, CbClosed, Copy!Is
  <2>. QED
    BY <2>3, <2>4 DEF FdsInv
<1>17. CASE Copy!HandleNext
  BY <1>0, <1>17, HandleDoes, FdsStay DEF Keeps, SharedFields
<1>18. CASE Copy!ReadEnds
  <2>. USE DEF FdsInv
  <2>1. CASE Copy!Is("cj") /\ UNCHANGED <<ck, co>>
    <3>1. UNCHANGED <<job, cc>>
      BY <1>18, ReadEndsDoes
    <3>. QED
      BY <2>1, <3>1 DEF FdsKnown, FdsPhase, CbClosed, Leaks, Copy!Is, Copy!Refused
  <2>2. CASE /\ co.closed /\ ck' = Copy!CloseFd
             /\ co'.cbEvent = 0 /\ co'.cbNotify = 0 /\ co'.reading = FALSE
    <3>1. FdsKnown'
      BY <1>0, <2>2, ClosesAll DEF FdsKnown, Leaks, Copy!Is, Copy!Refused
    <3>2. FdsPhase'
      BY <1>0, <2>2 DEF FdsPhase, CbClosed
    <3>. QED
      BY <3>1, <3>2
  <2>3. CASE ~co.closed /\ UNCHANGED ck /\ Keeps(co, co', SharedFields, {"reading"}) /\ co'.reading = FALSE
    <3>1. UNCHANGED <<job, cc>> /\ co'.cbNotify = co.cbNotify /\ co'.cbEvent = co.cbEvent
      BY <1>18, <2>3, ReadEndsDoes DEF Keeps, SharedFields
    <3>. QED
      BY <2>3, <3>1 DEF FdsKnown, FdsPhase, CbClosed, Leaks, Copy!Is, Copy!Refused
  <2>. QED
    BY <1>18, <2>1, <2>2, <2>3, ReadEndsDoes
<1>19. CASE Copy!Cancel
  BY <1>0, <1>19, FdsStay DEF Copy!Cancel
<1>. QED
  BY <1>1, <1>2, <1>3, <1>4, <1>5, <1>6, <1>7, <1>8, <1>9, <1>10, <1>11, <1>12, <1>13, <1>14,
     <1>15, <1>16, <1>17, <1>18, <1>19 DEF Copy!Next, Copy!Copies, Copy!Notifies

\* The members of a job.
LEMMA MembersAre ==
    ASSUME CopyShapes
    PROVE  /\ DOMAIN job.tree = 1 .. Len(job.tree) /\ Len(job.tree) \in Nat
           /\ \A n \in DOMAIN job.tree :
                /\ n \in Nat /\ job.tree[n].len \in Nat
                /\ job.tree[n].kind = "file" =>
                    job.tree[n].name \in DOMAIN job.old /\ size[job.tree[n].name] \in Int
<1>0. DOMAIN job.tree = 1 .. Len(job.tree) /\ Len(job.tree) \in Nat
  BY JobsAssumption DEF CopyShapes
<1>1. ASSUME NEW n \in DOMAIN job.tree PROVE job.tree[n].len \in Nat
  <2>. DEFINE M == [kind : {"file", "dir", "link"}, name : STRING, dir : STRING, len : Nat]
  <2>1. job.tree \in Seq(M)
    BY JobsAssumption DEF CopyShapes
  <2>2. \A m \in M : m.len \in Nat
    OBVIOUS
  <2>. HIDE DEF M
  <2>3. job.tree[n] \in M
    BY <1>0, <2>1
  <2>. QED
    BY <2>2, <2>3
<1>2. \A n \in DOMAIN job.tree : job.tree[n].kind = "file" => job.tree[n].name \in DOMAIN job.old
  BY JobsAssumption DEF CopyShapes, FileNames
<1>3. size \in [DOMAIN job.old -> Int]
  BY DEF CopyShapes
<1>. QED
  BY <1>0, <1>1, <1>2, <1>3

\* What has been put there stays.
SizesGrow == \A x \in DOMAIN job.old : size'[x] >= size[x]
LEMMA WholeStays ==
    ASSUME CopyShapes, CopyShapes', UNCHANGED job, SizesGrow
    PROVE  \A n \in DOMAIN job.tree : Whole(n) => Whole(n)'
<1>1. SUFFICES ASSUME NEW n \in DOMAIN job.tree, Whole(n), job.tree[n].kind = "file"
               PROVE  size'[job.tree[n].name] >= job.tree[n].len
  BY DEF Whole
<1>. DEFINE x == job.tree[n].name
<1>2. x \in DOMAIN job.old /\ size[x] \in Int /\ job.tree[n].len \in Nat
  BY <1>1, MembersAre
<1>3. size'[x] \in Int
  BY <1>2 DEF CopyShapes
<1>4. size[x] >= job.tree[n].len /\ size'[x] >= size[x]
  BY <1>1, <1>2 DEF Whole, SizesGrow
<1>. HIDE DEF x
<1>5. size'[x] >= job.tree[n].len
  BY <1>2, <1>3, <1>4
<1>. QED
  BY <1>5 DEF x

\* The steps that touch no file.
OtherThanSizes ==
    \/ Copy!DoCopy \/ Copy!SubscribeLocalListener \/ Copy!ExecCopy \/ Copy!CopySubDir
    \/ Copy!SkipLink \/ Copy!Copied \/ Copy!CloseNotifyFdLocked \/ Copy!CloseNotifyFd
    \/ Copy!CloseFdStep \/ Copy!CjCloseNotifyFd \/ Copy!Stops \/ Copy!WaitNotifyFinished
    \/ Copy!Ended \/ Copy!NapiExecCopy \/ Copy!NapiCompletes
    \/ Copy!Notifies \/ Copy!NapiReports \/ Copy!Cancel
LEMMA OthersKeepSizes == OtherThanSizes => size' = size
BY DEF OtherThanSizes, Copy!DoCopy, Copy!SubscribeLocalListener, Copy!ExecCopy, Copy!CopySubDir, Copy!SkipLink,
   Copy!Copied, Copy!CloseNotifyFdLocked, Copy!CloseNotifyFd, Copy!CloseFdStep, Copy!CjCloseNotifyFd,
   Copy!Stops, Copy!WaitNotifyFinished, Copy!Ended, Copy!NapiExecCopy, Copy!NapiCompletes,
   Copy!Notifies, Copy!GetNotifyEvent, Copy!NotifyLoop, Copy!PollEnters, Copy!PollReturns,
   Copy!ReadLocks, Copy!ReadNotifyEvent, Copy!HandleNext, Copy!ReadEnds, Copy!ThreadLeaves,
   Copy!NapiReports, Copy!Cancel

LEMMA SizesOnlyGrow ==
    ASSUME CopyShapes, CopyPhases, FdsInv, Copy!Next
    PROVE  SizesGrow
<1>0. \A x \in DOMAIN job.old : size[x] \in Int
  BY DEF CopyShapes
<1>1. CASE size' = size
  BY <1>0, <1>1 DEF SizesGrow
<1>2. CASE SizesMade
  BY <1>0, <1>2 DEF SizesGrow, SizesMade
<1>3. ASSUME NEW n \in 0 .. 1, Copy!SendFile(n) PROVE SizesGrow
  <2>1. cc.off + n \in Int
    BY DEF CopyShapes, IsCopier
  <2>2. SizesMoved(n) \/ size' = size
    BY <1>3, SendFileDoes
  <2>. QED
    BY <1>0, <1>1, <2>1, <2>2 DEF SizesGrow, SizesMoved
<1>4. CASE Copy!ExecLocal
  BY <1>2, <1>4, ExecLocalDoes
<1>5. CASE Copy!CopyFile
  BY <1>2, <1>5, CopyFileDoes
<1>6. ASSUME NEW p \in 1 .. Copy!GetDirSize, Copy!ProcessListener(p) PROVE size' = size
  BY <1>6 DEF Copy!ProcessListener
<1>7. ASSUME OtherThanSizes PROVE size' = size
  BY <1>7, OthersKeepSizes
<1>. QED
  BY <1>1, <1>3, <1>4, <1>5, <1>6, <1>7 DEF Copy!Next, Copy!Copies, OtherThanSizes

LEMMA WholeKept ==
    ASSUME CopyShapes, CopyPhases, FdsInv, WholeInv, Copy!Next
    PROVE  WholeInv'
<1>0. CopyPhases' /\ CopyShapes' /\ UNCHANGED job
  BY PhasesKept
<1>1. \A n \in DOMAIN job.tree : Whole(n) => Whole(n)'
  BY <1>0, SizesOnlyGrow, WholeStays
<1>2. /\ DOMAIN job.tree = 1 .. Len(job.tree) /\ Len(job.tree) \in Nat /\ cc.at \in Nat \ {0}
      /\ \A n \in DOMAIN job.tree : n \in Nat
  BY MembersAre DEF CopyShapes, IsCopier
<1>. USE DEF Beginning, AtMember, Ending, GoesTo, FailsWith, StepsOn, Copy!Is
<1>3. ASSUME cc'.pc \in Beginning \cup {"worker", "complete"} PROVE WholeInv'
  BY <1>3 DEF WholeInv
<1>4. ASSUME cc'.pc \in Ending \cup {"returned"}, cc'.r = "ok" => cc.r = "ok" /\ cc.pc \in Ending \cup {"returned"}
      PROVE WholeInv'
  BY <1>0, <1>1, <1>4 DEF WholeInv
<1>5. ASSUME cc' = cc PROVE WholeInv'
  <2>1. cc.pc = "send" => cc.off <= size'[job.tree[cc.at].name]
    <3>1. SUFFICES ASSUME cc.pc = "send" PROVE cc.off <= size'[job.tree[cc.at].name]
      OBVIOUS
    <3>. DEFINE x == job.tree[cc.at].name
    <3>2. x \in DOMAIN job.old /\ size[x] \in Int /\ cc.off \in Nat
      BY <3>1, MembersAre DEF CopyPhases, CopyShapes, IsCopier
    <3>3. size'[x] \in Int /\ size'[x] >= size[x] /\ cc.off <= size[x]
      BY <1>0, <3>1, <3>2, SizesOnlyGrow DEF CopyShapes, SizesGrow, WholeInv
    <3>. HIDE DEF x
    <3>4. cc.off <= size'[x]
      BY <3>2, <3>3
    <3>. QED
      BY <3>4 DEF x
  <2>. QED
    BY <1>0, <1>1, <1>5, <2>1 DEF WholeInv
<1>6. CASE Copy!DoCopy
  BY <1>3, <1>6, DoCopyDoes
<1>7. CASE Copy!ExecLocal
  BY <1>3, <1>4, <1>7, ExecLocalDoes
<1>8. CASE Copy!SubscribeLocalListener
  <2>1. FdsKnown /\ CbClosed
    BY <1>8 DEF FdsInv, FdsPhase, Copy!SubscribeLocalListener, BeforeWatch
  <2>. QED
    BY <1>3, <1>4, <1>8, <2>1, SubscribeDoes
<1>9. CASE Copy!ExecCopy
  <2>1. CASE FailsWith
    BY <1>4, <2>1
  <2>2. CASE GoesTo({"next"})
    <3>1. cc'.pc = "next" /\ cc'.at = cc.at /\ cc.at = 1
      BY <1>9, <2>2, ExecCopyDoes DEF Keeps, CopierFields, CopyPhases
    <3>. QED
      BY <1>0, <1>2, <3>1 DEF WholeInv
  <2>. QED
    BY <1>9, <2>1, <2>2, ExecCopyDoes
<1>10. CASE Copy!CopySubDir \/ Copy!SkipLink
  <2>1. CASE FailsWith
    BY <1>4, <2>1
  <2>2. CASE StepsOn
    <3>1. cc'.pc = "next" /\ cc'.at = cc.at + 1 /\ cc.pc = "next" /\ Whole(cc.at)
      BY <1>10, <2>2, CopySubDirDoes DEF Whole
    <3>2. ASSUME NEW n \in DOMAIN job.tree, n < cc'.at PROVE Whole(n)'
      <4>1. n < cc.at \/ n = cc.at
        BY <1>2, <3>1, <3>2
      <4>. QED
        BY <1>1, <3>1, <4>1 DEF WholeInv
    <3>. QED
      BY <1>0, <3>1, <3>2 DEF WholeInv
  <2>. QED
    BY <1>10, <2>1, <2>2, CopySubDirDoes
<1>11. CASE Copy!CopyFile
  <2>1. CASE FailsWith
    BY <1>4, <2>1
  <2>2. CASE /\ Keeps(cc, cc', CopierFields, {"pc", "off", "len"})
             /\ cc'.pc = "send" /\ cc'.off = 0 /\ size'[job.tree[cc.at].name] >= 0
    <3>1. cc'.at = cc.at /\ cc.pc = "next"
      BY <1>11, <2>2, CopyFileDoes DEF Keeps, CopierFields
    <3>2. job.tree[cc.at].kind = "file" /\ cc.at \in DOMAIN job.tree
      BY <1>11, CopyFileDoes
    <3>3. size'[job.tree[cc.at].name] \in Int
      BY <1>0, <3>2, MembersAre DEF CopyShapes
    <3>4. cc'.off <= size'[job.tree[cc.at].name]
      BY <2>2, <3>3
    <3>. QED
      BY <1>0, <1>1, <2>2, <3>1, <3>4 DEF WholeInv
  <2>. QED
    BY <1>11, <2>1, <2>2, CopyFileDoes
<1>12. ASSUME NEW n \in 0 .. 1, Copy!SendFile(n) PROVE WholeInv'
  <2>. DEFINE x == job.tree[cc.at].name
  <2>1. /\ cc.pc = "send" /\ Sends(n) /\ (SizesMoved(n) \/ (FailsWith /\ size' = size))
        /\ Copy!Here = job.tree[cc.at]
    BY <1>12, SendFileDoes DEF Copy!Here
  <2>2. CASE cc'.pc = "close" /\ cc'.r # "ok"
    BY <1>4, <2>2
  <2>3. CASE cc'.pc # "close"
    <3>1. SizesMoved(n)
      BY <2>1, <2>3
    <3>2. /\ x \in DOMAIN job.old /\ size[x] \in Int /\ cc.off \in Nat /\ cc.len \in Nat
          /\ cc.len = job.tree[cc.at].len /\ cc.at \in DOMAIN job.tree
      BY <2>1, MembersAre DEF CopyPhases, CopyShapes, IsCopier
    <3>3. size'[x] >= cc.off + n /\ size'[x] \in Int
      BY <2>1, <3>1, <3>2 DEF SizesMoved
    <3>. HIDE DEF x
    <3>4. CASE /\ Keeps(cc, cc', CopierFields, {"off", "sent"})
               /\ cc'.off = cc.off + n
      <4>1. cc'.at = cc.at /\ cc'.pc = "send"
        BY <2>1, <3>4 DEF Keeps, CopierFields
      <4>2. cc'.off <= size'[x]
        BY <3>2, <3>3, <3>4
      <4>. QED
        BY <1>0, <1>1, <2>1, <4>1, <4>2 DEF WholeInv, x
    <3>5. CASE StepsOn /\ cc.off + n = cc.len
      <4>1. size'[x] >= job.tree[cc.at].len
        BY <3>2, <3>3, <3>5
      <4>2. ASSUME NEW m \in DOMAIN job.tree, m < cc'.at PROVE Whole(m)'
        <5>1. m < cc.at \/ m = cc.at
          BY <1>2, <3>5, <4>2
        <5>. QED
          BY <1>0, <1>1, <2>1, <4>1, <5>1 DEF WholeInv, Whole, x
      <4>. QED
        BY <1>0, <3>5, <4>2 DEF WholeInv
    <3>. QED
      BY <2>1, <2>3, <3>4, <3>5 DEF Sends
  <2>4. cc'.pc = "close" => cc'.r # "ok"
    BY <2>1 DEF Sends, Keeps, CopierFields
  <2>. QED
    BY <2>2, <2>3, <2>4
<1>13. CASE Copy!Copied \/ Copy!Stops \/ Copy!WaitNotifyFinished
  <2>1. CASE cc.pc = "next" /\ cc.at > Len(job.tree) /\ GoesTo({"close"})
    <3>1. \A n \in DOMAIN job.tree : n < cc.at
      BY <1>2, <2>1
    <3>. QED
      BY <1>0, <1>1, <2>1, <3>1 DEF WholeInv
  <2>2. CASE cc.pc \in {"stop", "join"} /\ GoesTo({"join", "end"})
    BY <1>4, <2>2 DEF Keeps, CopierFields
  <2>. QED
    BY <1>13, <2>1, <2>2, GoingOnDoes
<1>14. CASE Copy!CloseNotifyFdLocked \/ Copy!CloseNotifyFd \/ Copy!CloseFdStep \/ Copy!CjCloseNotifyFd
  <2>1. ClosingGoes
    BY <1>14, ClosingDoes DEF FdsInv
  <2>2. cc.pc \in Ending /\ cc'.pc \in Ending /\ cc'.r = cc.r
    BY <2>1 DEF ClosingGoes, Keeps, CopierFields
  <2>. QED
    BY <1>4, <2>2
<1>15. CASE Copy!Ended
  <2>1. cc.pc = "end" /\ cc'.pc = "returned" /\ (cc'.r = "ok" => cc.r = "ok")
    BY <1>15, EndedDoes
  <2>. QED
    BY <1>4, <2>1
<1>16. CASE Copy!Is("napi")
  <2>1. cc'.pc \notin AtMember
    BY <1>0, <1>16 DEF CopyPhases
  <2>. QED
    BY <1>0, <1>16, <2>1 DEF WholeInv
<1>17. ASSUME NEW p \in 1 .. Copy!GetDirSize, Copy!ProcessListener(p) PROVE Copy!Is("napi")
  BY <1>17 DEF Copy!ProcessListener, CopyPhases
<1>18. ASSUME Copy!NapiExecCopy \/ Copy!NapiCompletes PROVE Copy!Is("napi")
  BY <1>18 DEF Copy!NapiExecCopy, Copy!NapiCompletes, CopyPhases
<1>19. ASSUME Copy!Notifies \/ Copy!NapiReports \/ Copy!Cancel PROVE cc' = cc
  BY <1>19 DEF Copy!Notifies, Copy!GetNotifyEvent, Copy!NotifyLoop, Copy!PollEnters, Copy!PollReturns,
     Copy!ReadLocks, Copy!ReadNotifyEvent, Copy!HandleNext, Copy!ReadEnds, Copy!ThreadLeaves,
     Copy!NapiReports, Copy!Cancel
<1>. QED
  BY <1>5, <1>6, <1>7, <1>8, <1>9, <1>10, <1>11, <1>12, <1>13, <1>14, <1>15, <1>16, <1>17, <1>18,
     <1>19 DEF Copy!Next, Copy!Copies

\* The cancellation.
LEMMA CancelKept ==
    ASSUME CopyShapes, CopyPhases, FdsInv, CancelInv, Copy!Next
    PROVE  CancelInv'
<1>0. CopyPhases' /\ CopyShapes' /\ UNCHANGED job
  BY PhasesKept
<1>2. /\ DOMAIN job.tree = 1 .. Len(job.tree) /\ Len(job.tree) \in Nat
      /\ cc.at \in Nat \ {0} /\ cc.sent \in Nat
      /\ \A n \in DOMAIN job.tree : n \in Nat
  BY MembersAre DEF CopyShapes, IsCopier
<1>. USE DEF Beginning, AtMember, Ending, GoesTo, FailsWith, StepsOn, Copy!Is
<1>3. need => need'
  <2>1. ASSUME NEW n \in 0 .. 1, Copy!SendFile(n) PROVE need' = need
    BY <2>1 DEF Copy!SendFile
  <2>2. ASSUME NEW p \in 1 .. Copy!GetDirSize, Copy!ProcessListener(p) PROVE need' = need
    BY <2>2 DEF Copy!ProcessListener
  <2>3. ASSUME \/ Copy!DoCopy \/ Copy!SubscribeLocalListener \/ Copy!ExecLocal \/ Copy!ExecCopy
               \/ Copy!CopySubDir \/ Copy!SkipLink \/ Copy!CopyFile \/ Copy!Copied
               \/ Copy!CloseNotifyFdLocked \/ Copy!CloseNotifyFd
               \/ Copy!CloseFdStep \/ Copy!CjCloseNotifyFd \/ Copy!Stops \/ Copy!WaitNotifyFinished
               \/ Copy!Ended \/ Copy!NapiExecCopy \/ Copy!NapiCompletes
        PROVE  need' = need
    BY <2>3 DEF Copy!DoCopy, Copy!SubscribeLocalListener, Copy!ExecLocal, Copy!ExecCopy, Copy!CopySubDir,
       Copy!SkipLink, Copy!CopyFile, Copy!Copied, Copy!CloseNotifyFdLocked, Copy!CloseNotifyFd,
       Copy!CloseFdStep, Copy!CjCloseNotifyFd, Copy!Stops, Copy!WaitNotifyFinished, Copy!Ended,
       Copy!NapiExecCopy, Copy!NapiCompletes
  <2>4. ASSUME Copy!Notifies \/ Copy!NapiReports PROVE need' = need
    BY <2>4 DEF Copy!Notifies, Copy!GetNotifyEvent, Copy!NotifyLoop, Copy!PollEnters, Copy!PollReturns,
       Copy!ReadLocks, Copy!ReadNotifyEvent, Copy!HandleNext, Copy!ReadEnds, Copy!ThreadLeaves,
       Copy!NapiReports
  <2>5. ASSUME Copy!Cancel PROVE need'
    BY <2>5 DEF Copy!Cancel
  <2>. QED
    BY <2>1, <2>2, <2>3, <2>4, <2>5 DEF Copy!Next, Copy!Copies
<1>4. ASSUME cc' = cc PROVE CancelInv'
  BY <1>0, <1>3, <1>4 DEF CancelInv, Copy!FilesOf
<1>5. ASSUME cc'.early = cc.early, cc'.sent = cc.sent, cc.pc \in Ending, cc'.pc \in Ending \cup {"returned"},
             cc'.r = "ok" => cc.r = "ok"
      PROVE  CancelInv'
  BY <1>0, <1>3, <1>5 DEF CancelInv, Copy!FilesOf, CopyPhases
<1>6. ASSUME cc'.early = cc.early, cc'.sent = cc.sent, cc.pc \in Beginning \cup AtMember, cc.pc # "call",
             cc'.pc \in Ending, cc'.r # "ok"
      PROVE  CancelInv'
  BY <1>0, <1>3, <1>6 DEF CancelInv
<1>7. ASSUME FailsWith, cc.pc \in Beginning \cup AtMember, cc.pc # "call" PROVE CancelInv'
  BY <1>6, <1>7 DEF Keeps, CopierFields
<1>8. ASSUME cc'.early = cc.early, cc'.sent = cc.sent, cc.pc \in Beginning, cc.pc # "call",
             cc'.pc \in Beginning \ {"call"}
      PROVE  CancelInv'
  BY <1>0, <1>3, <1>8 DEF CancelInv
<1>9. CASE Copy!DoCopy
  <2>1. /\ cc'.pc \in {"worker", "local"} /\ cc'.early = need /\ need' = need
        /\ cc'.sent = 0
    BY <1>9, DoCopyDoes DEF Keeps, CopierFields, CopyPhases
  <2>2. cc'.early => need'
    BY <2>1
  <2>. QED
    BY <2>1, <2>2 DEF CancelInv
<1>10. CASE Copy!ExecLocal
  <2>1. cc.pc = "local" /\ (FailsWith \/ GoesTo({"subscribe", "exec"}))
    BY <1>10, ExecLocalDoes
  <2>. QED
    BY <1>7, <1>8, <2>1 DEF Keeps, CopierFields
<1>11. CASE Copy!SubscribeLocalListener
  <2>1. FdsKnown /\ CbClosed
    BY <1>11 DEF FdsInv, FdsPhase, Copy!SubscribeLocalListener, BeforeWatch
  <2>2. cc.pc = "subscribe" /\ (FailsWith \/ GoesTo({"exec"}))
    BY <1>11, <2>1, SubscribeDoes
  <2>. QED
    BY <1>7, <1>8, <2>2 DEF Keeps, CopierFields
<1>12. CASE Copy!ExecCopy
  <2>1. cc.pc = "exec" /\ (FailsWith \/ GoesTo({"next"}))
    BY <1>12, ExecCopyDoes
  <2>2. CASE GoesTo({"next"})
    <3>1. cc'.early = cc.early /\ cc'.sent = cc.sent /\ cc'.pc = "next" /\ cc'.at = 1
      BY <2>1, <2>2 DEF Keeps, CopierFields, CopyPhases
    <3>. QED
      BY <1>0, <1>2, <1>3, <2>1, <3>1 DEF CancelInv
  <2>. QED
    BY <1>7, <2>1, <2>2
<1>13. CASE Copy!CopySubDir \/ Copy!SkipLink
  <2>1. /\ cc.pc = "next" /\ (FailsWith \/ StepsOn)
        /\ cc.at \in DOMAIN job.tree /\ job.tree[cc.at].kind # "file"
    BY <1>13, CopySubDirDoes
  <2>2. CASE StepsOn
    <3>1. cc'.early = cc.early /\ cc'.sent = cc.sent /\ cc'.pc = "next" /\ cc'.at = cc.at + 1
      BY <2>2 DEF Keeps, CopierFields
    <3>2. \A n \in DOMAIN job.tree : n < cc'.at => n < cc.at \/ n = cc.at
      BY <1>2, <3>1
    <3>. QED
      BY <1>0, <1>3, <2>1, <3>1, <3>2 DEF CancelInv
  <2>. QED
    BY <1>7, <2>1, <2>2
<1>14. CASE Copy!CopyFile
  <2>1. /\ cc.pc = "next"
        /\ \/ FailsWith
           \/ Keeps(cc, cc', CopierFields, {"pc", "off", "len"}) /\ cc'.pc = "send"
    BY <1>14, CopyFileDoes
  <2>2. CASE Keeps(cc, cc', CopierFields, {"pc", "off", "len"}) /\ cc'.pc = "send"
    <3>1. cc'.early = cc.early /\ cc'.sent = cc.sent /\ cc'.at = cc.at
      BY <2>2 DEF Keeps, CopierFields
    <3>. QED
      BY <1>0, <1>3, <2>1, <2>2, <3>1 DEF CancelInv
  <2>. QED
    BY <1>7, <2>1, <2>2
<1>15. ASSUME NEW n \in 0 .. 1, Copy!SendFile(n) PROVE CancelInv'
  <2>1. cc.pc = "send" /\ Sends(n)
    BY <1>15, SendFileDoes
  <2>2. CASE FailsWith
    BY <1>7, <2>1, <2>2
  <2>3. CASE /\ Keeps(cc, cc', CopierFields, {"pc", "r", "sent"})
             /\ cc'.pc = "close" /\ cc'.r # "ok" /\ cc'.sent = cc.sent + n
    <3>1. cc'.early = cc.early
      BY <2>3 DEF Keeps, CopierFields
    <3>2. cc.sent = 0 => cc'.sent <= 1
      BY <2>3
    <3>. QED
      BY <1>0, <1>3, <2>1, <2>3, <3>1, <3>2 DEF CancelInv
  <2>4. CASE ~need /\ (StepsOn \/ Keeps(cc, cc', CopierFields, {"off", "sent"}))
    <3>1. cc'.early = cc.early
      BY <2>4 DEF Keeps, CopierFields
    <3>. QED
      BY <2>4, <3>1 DEF CancelInv
  <2>. QED
    BY <2>1, <2>2, <2>3, <2>4 DEF Sends
<1>16. CASE Copy!Copied \/ Copy!Stops \/ Copy!WaitNotifyFinished
  <2>1. CASE cc.pc = "next" /\ cc.at > Len(job.tree) /\ GoesTo({"close"})
    <3>1. \A n \in DOMAIN job.tree : n < cc.at
      BY <1>2, <2>1
    <3>2. cc'.early = cc.early /\ cc'.sent = cc.sent
      BY <2>1 DEF Keeps, CopierFields
    <3>3. cc.early => Copy!FilesOf(job) = {}
      BY <2>1, <3>1 DEF CancelInv, Copy!FilesOf
    <3>. QED
      BY <1>0, <1>2, <1>3, <2>1, <3>2, <3>3 DEF CancelInv
  <2>2. CASE cc.pc \in {"stop", "join"} /\ GoesTo({"join", "end"})
    BY <1>5, <2>2 DEF Keeps, CopierFields
  <2>. QED
    BY <1>16, <2>1, <2>2, GoingOnDoes
<1>17. CASE Copy!CloseNotifyFdLocked \/ Copy!CloseNotifyFd \/ Copy!CloseFdStep \/ Copy!CjCloseNotifyFd
  <2>1. ClosingGoes
    BY <1>17, ClosingDoes DEF FdsInv
  <2>2. cc.pc \in Ending /\ cc'.pc \in Ending /\ cc'.r = cc.r /\ cc'.early = cc.early /\ cc'.sent = cc.sent
    BY <2>1 DEF ClosingGoes, Keeps, CopierFields
  <2>. QED
    BY <1>5, <2>2
<1>18. CASE Copy!Ended
  <2>1. /\ cc.pc = "end" /\ cc'.pc = "returned" /\ (cc'.r = "ok" => cc.r = "ok")
        /\ cc'.early = cc.early /\ cc'.sent = cc.sent
    BY <1>18, EndedDoes DEF Keeps, CopierFields
  <2>. QED
    BY <1>5, <2>1
<1>19. ASSUME cc'.early = cc.early, cc'.pc # "call", Copy!Is("napi") PROVE CancelInv'
  <2>1. cc'.pc \notin Beginning \cup AtMember \cup Ending
    BY <1>0, <1>19 DEF CopyPhases
  <2>. QED
    BY <1>0, <1>3, <1>19, <2>1 DEF CancelInv
<1>20. ASSUME NEW p \in 1 .. Copy!GetDirSize, Copy!ProcessListener(p) PROVE CancelInv'
  <2>1. p \in Nat
    OBVIOUS
  <2>2. cc'.pc = "worker" /\ Copy!Is("napi") /\ cc'.early = cc.early
    BY <1>20, <2>1, ListenerDoes DEF Keeps, CopierFields, CopyPhases
  <2>. QED
    BY <1>19, <2>2
<1>21. CASE Copy!NapiExecCopy \/ Copy!NapiCompletes
  <2>1. cc'.pc \in {"complete", "returned"} /\ Copy!Is("napi") /\ cc'.early = cc.early
    BY <1>21, NapiExecDoes, NapiCompletesDoes DEF Keeps, CopierFields, CopyPhases
  <2>. QED
    BY <1>19, <2>1
<1>22. ASSUME Copy!Notifies \/ Copy!NapiReports \/ Copy!Cancel PROVE cc' = cc
  BY <1>22 DEF Copy!Notifies, Copy!GetNotifyEvent, Copy!NotifyLoop, Copy!PollEnters, Copy!PollReturns,
     Copy!ReadLocks, Copy!ReadNotifyEvent, Copy!HandleNext, Copy!ReadEnds, Copy!ThreadLeaves,
     Copy!NapiReports, Copy!Cancel
<1>. QED
  BY <1>4, <1>9, <1>10, <1>11, <1>12, <1>13, <1>14, <1>15, <1>16, <1>17, <1>18, <1>20, <1>21, <1>22
     DEF Copy!Next, Copy!Copies

-----------------------------------------------------------------------------
(* The progress that is reported.                                          *)

\* The total is the sum of the lengths.
LenOf == [n \in Copy!FilesOf(job) |-> job.tree[n].len]
LEMMA DirSizeIs ==
    ASSUME CopyShapes
    PROVE  /\ IsFiniteSet(Copy!FilesOf(job)) /\ LenOf \in [Copy!FilesOf(job) -> Nat]
           /\ Copy!GetDirSize = Sum(LenOf, Copy!FilesOf(job))
           /\ Copy!GetDirSize \in Nat
           /\ \A n \in Copy!FilesOf(job) : job.tree[n].len <= Copy!GetDirSize
<1>. DEFINE S == Copy!FilesOf(job)
<1>1. /\ DOMAIN job.tree = 1 .. Len(job.tree) /\ Len(job.tree) \in Nat
      /\ \A n \in DOMAIN job.tree : job.tree[n].len \in Nat
  BY MembersAre
<1>2. S \subseteq 1 .. Len(job.tree)
  BY <1>1 DEF Copy!FilesOf
<1>3. IsFiniteSet(S)
  <2>1. IsFiniteSet(1 .. Len(job.tree))
    BY <1>1, FS_Interval
  <2>. QED
    BY <1>2, <2>1, FS_Subset
<1>4. LenOf \in [S -> Nat]
  BY <1>1 DEF LenOf, Copy!FilesOf
<1>5. Copy!GetDirSize = Sum(Copy!Lengths(job), S)
  BY Zenon DEF Copy!GetDirSize, Copy!LengthOf, Sum, Copy!MapThenSumSet, MapThenSumSet,
     Copy!MapThenFoldSet, MapThenFoldSet
<1>6. \A n \in S : Copy!Lengths(job)[n] = LenOf[n] /\ Copy!Lengths(job)[n] \in Int
  BY <1>1, <1>2 DEF Copy!Lengths, LenOf
<1>. HIDE DEF S
<1>7. Copy!GetDirSize = Sum(LenOf, S)
  BY <1>3, <1>5, <1>6, SumAgrees
<1>8. Sum(LenOf, S) \in Nat /\ \A n \in S : LenOf[n] <= Sum(LenOf, S)
  BY <1>3, <1>4, SumNat
<1>9. \A n \in S : job.tree[n].len <= Copy!GetDirSize
  BY <1>7, <1>8 DEF LenOf, S
<1>. QED
  BY <1>3, <1>4, <1>7, <1>8, <1>9 DEF S

\* A largest element is the maximum.
LEMMA MaxIs ==
    ASSUME NEW S, NEW m \in S, \A y \in S : y \in Int /\ y <= m
    PROVE  Copy!Max(S) = m
<1>1. m \in Int /\ \A y \in S : m >= y
  OBVIOUS
<1>2. \A x \in S : (\A y \in S : x >= y) => x = m
  OBVIOUS
<1>3. (CHOOSE x \in S : \A y \in S : x >= y) = m
  BY <1>1, <1>2
<1>. QED
  BY <1>3 DEF Copy!Max

LEMMA CountNone == ASSUME NEW x PROVE IsCount(<< >>, x) /\ Count(<< >>, x) = 0
<1>1. Counts(<< >>, x) = {0}
  BY DEF Counts
<1>2. Copy!Max({0}) = 0
  BY MaxIs
<1>3. Count(<< >>, x) = 0
  BY <1>1, <1>2 DEF Count
<1>. QED
  BY <1>1, <1>3 DEF IsCount

Noted(q, name, v) == Append(q, <<name, v>>)

\* A larger size of a file counts, and changes nothing for the others.
LEMMA CountMore ==
    ASSUME CountsRight, NEW name \in FileNames(job), NEW x \in FileNames(job), NEW v \in Int,
           ~(v <= Count(co.seen, name))
    PROVE  /\ IsCount(Noted(co.seen, name, v), x)
           /\ Count(Noted(co.seen, name, v), x) = IF x = name THEN v ELSE Count(co.seen, x)
<1>. DEFINE N == FileNames(job)
            q == co.seen
            r == Noted(q, name, v)
<1>a. q \in Seq(N \X Int) /\ IsCount(q, name) /\ IsCount(q, x) /\ v > Count(q, name) /\ name \in N
  BY DEF CountsRight, IsCount
<1>. HIDE DEF N, q
<1>0. /\ DOMAIN r = DOMAIN q \cup {Len(q) + 1} /\ Len(q) \in Nat /\ DOMAIN q = 1 .. Len(q)
      /\ \A n \in DOMAIN q : r[n] = q[n]
      /\ r[Len(q) + 1] = <<name, v>>
  <2>1. <<name, v>> \in N \X Int
    BY <1>a
  <2>2. Len(q) \in Nat /\ DOMAIN q = 1 .. Len(q)
    BY <1>a
  <2>3. /\ Len(r) = Len(q) + 1 /\ DOMAIN r = 1 .. Len(q) + 1
        /\ \A n \in 1 .. Len(q) : r[n] = q[n]
        /\ r[Len(q) + 1] = <<name, v>>
    BY <1>a, <2>1 DEF Noted
  <2>4. 1 .. Len(q) + 1 = 1 .. Len(q) \cup {Len(q) + 1}
    BY <2>2
  <2>. HIDE DEF r
  <2>. QED
    BY <2>2, <2>3, <2>4
<1>. HIDE DEF r
<1>1. r[Len(q) + 1][1] = name /\ r[Len(q) + 1][2] = v
  BY <1>0
<1>2. CASE x = name
  <2>1. Counts(r, x) = Counts(q, x) \cup {v}
    BY <1>0, <1>1, <1>2 DEF Counts
  <2>2. \A y \in Counts(r, x) : y \in Int /\ y <= v
    BY <1>a, <1>2, <2>1 DEF IsCount
  <2>3. Copy!Max(Counts(r, x)) = v
    BY <2>1, <2>2, MaxIs
  <2>. QED
    BY <1>2, <2>1, <2>2, <2>3 DEF IsCount, Count, q, r
<1>3. CASE x # name
  <2>1. Counts(r, x) = Counts(q, x)
    BY <1>0, <1>1, <1>3 DEF Counts
  <2>. QED
    BY <1>a, <1>3, <2>1 DEF IsCount, Count, q, r
<1>. QED
  BY <1>2, <1>3

\* Two files of a job do not share a name.
LEMMA OwnNames ==
    ASSUME CopyShapes, NEW m \in Copy!FilesOf(job), NEW n \in Copy!FilesOf(job),
           job.tree[m].name = job.tree[n].name
    PROVE  m = n
BY JobsAssumption DEF CopyShapes, Copy!FilesOf

\* No file at the destination is longer than its source.
LEMMA SizesKept ==
    ASSUME CopyShapes, CopyPhases, FdsInv, Copy!Next, SizesRight
    PROVE  SizesRight'
<1>0. CopyShapes' /\ UNCHANGED job
  BY PhasesKept
<1>1. \A n \in Copy!FilesOf(job) :
        /\ n \in DOMAIN job.tree /\ job.tree[n].kind = "file" /\ job.tree[n].len \in Nat
        /\ job.tree[n].name \in DOMAIN job.old /\ size[job.tree[n].name] \in Int
        /\ size[job.tree[n].name] <= job.tree[n].len
  BY MembersAre DEF SizesRight, Copy!FilesOf
<1>2. ASSUME size' = size PROVE SizesRight'
  BY <1>0, <1>2 DEF SizesRight, Copy!FilesOf
<1>3. ASSUME SizesMade PROVE SizesRight'
  <2>1. \A n \in Copy!FilesOf(job) : size'[job.tree[n].name] <= job.tree[n].len
    <3>1. SUFFICES ASSUME NEW n \in Copy!FilesOf(job) PROVE size'[job.tree[n].name] <= job.tree[n].len
      OBVIOUS
    <3>. DEFINE x == job.tree[n].name
                l == job.tree[n].len
    <3>2. x \in DOMAIN job.old /\ size[x] \in Int /\ l \in Nat /\ size[x] <= l
      BY <1>1
    <3>3. size'[x] = size[x] \/ size'[x] = 0
      BY <1>3, <3>2 DEF SizesMade
    <3>. HIDE DEF x, l
    <3>4. size'[x] <= l
      BY <3>2, <3>3
    <3>. QED
      BY <3>4 DEF x, l
  <2>. QED
    BY <1>0, <2>1 DEF SizesRight, Copy!FilesOf
<1>4. ASSUME NEW i \in 0 .. 1, Copy!SendFile(i) PROVE SizesRight'
  <2>1. /\ cc.pc = "send" /\ cc.off + i <= Copy!Here.len /\ Copy!Here = job.tree[cc.at]
        /\ SizesMoved(i) \/ size' = size
    BY <1>4, SendFileDoes DEF Copy!Here
  <2>2. cc.at \in Copy!FilesOf(job)
    BY <2>1 DEF CopyPhases, Copy!FilesOf
  <2>3. CASE SizesMoved(i)
    <3>1. ASSUME NEW n \in Copy!FilesOf(job) PROVE size'[job.tree[n].name] <= job.tree[n].len
      <4>. DEFINE x == job.tree[n].name
                  l == job.tree[n].len
      <4>1. x \in DOMAIN job.old /\ size[x] \in Int /\ l \in Nat /\ size[x] <= l
        BY <1>1
      <4>2. x = Copy!Here.name => l = Copy!Here.len
        BY <2>1, <2>2, OwnNames
      <4>3. size'[x] = IF x = Copy!Here.name /\ size[x] < cc.off + i THEN cc.off + i ELSE size[x]
        BY <2>3, <4>1 DEF SizesMoved
      <4>. HIDE DEF x, l
      <4>4. size'[x] <= l
        BY <2>1, <4>1, <4>2, <4>3
      <4>. QED
        BY <4>4 DEF x, l
    <3>. QED
      BY <1>0, <3>1 DEF SizesRight, Copy!FilesOf
  <2>. QED
    BY <1>2, <2>1, <2>3
<1>5. CASE Copy!ExecLocal
  BY <1>3, <1>5, ExecLocalDoes
<1>6. CASE Copy!CopyFile
  BY <1>3, <1>6, CopyFileDoes
<1>7. ASSUME NEW p \in 1 .. Copy!GetDirSize, Copy!ProcessListener(p) PROVE size' = size
  BY <1>7 DEF Copy!ProcessListener
<1>8. ASSUME OtherThanSizes PROVE size' = size
  BY <1>8, OthersKeepSizes
<1>. QED
  BY <1>2, <1>4, <1>5, <1>6, <1>7, <1>8 DEF Copy!Next, Copy!Copies, OtherThanSizes

\* The files' names and what is counted of them, while nothing is counted.
LEMMA CountsStay ==
    ASSUME CountsRight, ProgressSums, UNCHANGED job,
           co'.seen = co.seen, co'.progress = co.progress, co'.paths = co.paths,
           Copy!IsFile \/ Copy!Is("napi") => (co.progress <= co.total => co.progress <= co'.total),
           cc.pc = "returned" => cc'.pc = "returned"
    PROVE  CountsRight' /\ ProgressSums'
<1>1. CountsRight'
  BY DEF CountsRight, FileNames, Copy!IsFile
<1>2. CountOf' = CountOf
  BY DEF CountOf, Copy!FilesOf
<1>3. ProgressSums'
  BY <1>2 DEF ProgressSums, Copy!IsFile, Copy!Is, Copy!FilesOf
<1>. QED
  BY <1>1, <1>3

\* What is counted of a file after an event.
LEMMA UpdateCounts ==
    ASSUME CopyShapes, CountsRight, ProgressSums, SizesRight, NEW name \in co.paths,
           ~Copy!IsFile, ~Copy!Is("napi"), cc.pc # "returned",
           NEW y, y = Copy!UpdateProgressSize(co, name),
           UNCHANGED <<job, cc>>, co'.seen = y.seen, co'.progress = y.progress, co'.paths = co.paths
    PROVE  CountsRight' /\ ProgressSums'
<1>. DEFINE S == Copy!FilesOf(job)
<1>0. name \in FileNames(job) /\ co.progress \in Int /\ co.seen \in Seq(FileNames(job) \X Int)
  BY DEF CountsRight
<1>1. PICK e \in S : job.tree[e].name = name
  BY <1>0 DEF FileNames, Copy!FilesOf
<1>2. size[name] \in Int /\ size[name] <= job.tree[e].len /\ e \in S
  BY <1>1, MembersAre DEF SizesRight, Copy!FilesOf
<1>3. Copy!Counted(co, name) = Count(co.seen, name)
  BY DEF Copy!Counted, Count, Counts
<1>4. IsCount(co.seen, name) /\ Count(co.seen, name) \in Int
  BY <1>0 DEF CountsRight, IsCount
<1>5. CASE size[name] <= Count(co.seen, name)
  <2>1. y = co
    BY <1>3, <1>5 DEF Copy!UpdateProgressSize
  <2>. QED
    BY <2>1, CountsStay
<1>6. CASE ~(size[name] <= Count(co.seen, name))
  <2>. DEFINE p == co.progress + size[name] - Count(co.seen, name)
              q == Noted(co.seen, name, size[name])
  <2>1. co'.progress = p /\ co'.seen = q
    <3>1. y = [co EXCEPT !.progress = p, !.seen = q]
      BY <1>3, <1>6 DEF Copy!UpdateProgressSize, Noted
    <3>2. DOMAIN co = SharedFields
      BY DEF CopyShapes
    <3>. HIDE DEF p, q
    <3>3. y.progress = p /\ y.seen = q
      BY <3>1, <3>2 DEF SharedFields
    <3>. QED
      BY <3>3
  <2>2. ASSUME NEW x \in FileNames(job)
        PROVE  IsCount(q, x) /\ Count(q, x) = IF x = name THEN size[name] ELSE Count(co.seen, x)
    BY <1>0, <1>2, <1>6, CountMore
  <2>3. q \in Seq(FileNames(job) \X Int)
    <3>1. <<name, size[name]>> \in FileNames(job) \X Int
      BY <1>0, <1>2
    <3>. QED
      BY <1>0, <3>1 DEF Noted
  <2>4. p \in Int
    BY <1>0, <1>2, <1>4
  <2>. HIDE DEF p, q
  <2>5. CountsRight'
    BY <2>1, <2>2, <2>3, <2>4 DEF CountsRight, FileNames, Copy!IsFile
  <2>. DEFINE h == [n \in S |-> Count(q, job.tree[n].name)]
  <2>6. CountOf' = h
    BY <2>1 DEF CountOf, Copy!FilesOf
  <2>7. \A n \in S : job.tree[n].name \in FileNames(job)
    BY DEF FileNames, Copy!FilesOf
  <2>8. \A n \in S : Count(co.seen, job.tree[n].name) \in Int
    BY <2>7 DEF CountsRight, IsCount
  <2>9. CountOf \in [S -> Int]
    BY <2>8 DEF CountOf
  <2>10. \A n \in S : n # e => job.tree[n].name # name
    BY <1>1, OwnNames
  <2>11. h[e] = size[name] /\ \A n \in S \ {e} : h[n] = CountOf[n]
    BY <1>1, <2>2, <2>7, <2>10 DEF CountOf
  <2>12. h \in [S -> Int]
    BY <1>2, <2>9, <2>11
  <2>13. IsFiniteSet(S)
    BY DirSizeIs
  <2>14. CountOf[e] = Count(co.seen, name)
    BY <1>1 DEF CountOf
  <2>15. \A n \in S : CountOf[n] <= job.tree[n].len
    BY DEF ProgressSums
  <2>16. co.progress = Sum(CountOf, S)
    BY DEF ProgressSums
  <2>. HIDE DEF S, h
  <2>17. Sum(h, S) = Sum(CountOf, S) - CountOf[e] + h[e] /\ Sum(CountOf, S) \in Int
    BY <1>1, <2>9, <2>11, <2>12, <2>13, SumChanges, SumInt
  <2>18. p = Sum(h, S)
    <3>1. p = Sum(CountOf, S) + size[name] - Count(co.seen, name)
      BY <2>16 DEF p
    <3>2. Sum(h, S) = Sum(CountOf, S) - Count(co.seen, name) + size[name]
      BY <2>11, <2>14, <2>17
    <3>. QED
      BY <1>2, <1>4, <2>17, <3>1, <3>2
  <2>19. \A n \in S : h[n] <= job.tree[n].len
    BY <1>2, <2>11, <2>15
  <2>20. ProgressSums'
    BY <2>1, <2>6, <2>18, <2>19 DEF ProgressSums, Copy!IsFile, Copy!Is, S, Copy!FilesOf
  <2>. QED
    BY <2>5, <2>20
<1>. QED
  BY <1>5, <1>6

\* The progress is never more than the total.
LEMMA ProgressBound ==
    CopyShapes /\ CountsRight /\ ProgressSums /\ cc.pc # "returned" /\ co.total = Copy!GetDirSize
        => co.progress \in Int /\ co.progress <= co.total
<1>. SUFFICES ASSUME CopyShapes, CountsRight, ProgressSums, cc.pc # "returned", co.total = Copy!GetDirSize
              PROVE  co.progress \in Int /\ co.progress <= co.total
  OBVIOUS
<1>0. co.progress \in Int
  BY DEF CountsRight
<1>1. CASE Copy!IsFile \/ Copy!Is("napi")
  BY <1>0, <1>1 DEF ProgressSums
<1>2. CASE ~(Copy!IsFile \/ Copy!Is("napi"))
  <2>. DEFINE S == Copy!FilesOf(job)
  <2>1. \A n \in S : job.tree[n].name \in FileNames(job)
    BY DEF FileNames, Copy!FilesOf
  <2>2. CountOf \in [S -> Int]
    BY <2>1 DEF CountOf, CountsRight, IsCount
  <2>3. IsFiniteSet(S) /\ LenOf \in [S -> Int] /\ Copy!GetDirSize = Sum(LenOf, S)
    BY DirSizeIs
  <2>4. \A n \in S : CountOf[n] <= LenOf[n]
    BY <1>2 DEF ProgressSums, LenOf
  <2>5. co.progress = Sum(CountOf, S)
    BY <1>2 DEF ProgressSums
  <2>. HIDE DEF S
  <2>. QED
    BY <1>0, <2>2, <2>3, <2>4, <2>5, SumMonotone
<1>. QED
  BY <1>1, <1>2

\* One more report.
LEMMA SaidStay ==
    ASSUME SaidRight, co'.total = co.total, co'.max = co.max, co'.said = co.said
    PROVE  SaidRight' /\ (Told => Told')
BY DEF SaidRight, Told

LEMMA SaidMore ==
    ASSUME SaidRight, NEW p \in Int, p <= co.total, co'.total = co.total, Says(co, co', p, co.total)
    PROVE  SaidRight' /\ (p = co.total => Told')
<1>. DEFINE q == co.said
            r == Noted(q, p, co.total)
<1>0. /\ co.total \in Nat /\ co.max \in Nat /\ co.max <= co.total /\ q \in Seq(Int \X Int)
      /\ \A n \in DOMAIN q :
            q[n][1] <= co.total /\ q[n][2] = co.total /\ (n > 1 => q[n - 1][1] <= q[n][1])
      /\ co.max = IF q = << >> THEN 0 ELSE q[Len(q)][1]
  BY DEF SaidRight
<1>1. CASE p < co.max /\ co'.max = co.max /\ co'.said = co.said
  <2>1. p # co.total
    BY <1>0, <1>1
  <2>. QED
    BY <1>1, <2>1, SaidStay
<1>2. CASE ~(p < co.max) /\ co'.max = p /\ co'.said = r
  <2>. HIDE DEF q
  <2>1. <<p, co.total>> \in Int \X Int
    BY <1>0
  <2>2. /\ Len(q) \in Nat /\ DOMAIN q = 1 .. Len(q) /\ (q = << >> <=> Len(q) = 0)
        /\ r \in Seq(Int \X Int) /\ Len(r) = Len(q) + 1 /\ DOMAIN r = 1 .. Len(q) + 1
        /\ \A n \in 1 .. Len(q) : r[n] = q[n]
        /\ r[Len(q) + 1] = <<p, co.total>>
    BY <1>0, <2>1 DEF Noted
  <2>. HIDE DEF r
  <2>3. r[Len(q) + 1][1] = p /\ r[Len(q) + 1][2] = co.total
    BY <2>2
  <2>4. p \in Nat /\ p >= co.max
    BY <1>0, <1>2
  <2>5. ASSUME NEW n \in DOMAIN r
        PROVE  r[n][1] <= co.total /\ r[n][2] = co.total /\ (n > 1 => r[n - 1][1] <= r[n][1])
    <3>1. CASE n \in 1 .. Len(q)
      <4>1. r[n] = q[n] /\ n \in DOMAIN q
        BY <2>2, <3>1
      <4>2. n > 1 => r[n - 1] = q[n - 1]
        <5>0. Len(q) \in Nat
          BY <2>2, Zenon
        <5>1. n > 1 => n - 1 \in 1 .. Len(q)
          BY <3>1, <5>0
        <5>2. \A m \in 1 .. Len(q) : r[m] = q[m]
          BY <2>2, Zenon
        <5>. QED
          BY <5>1, <5>2, Zenon
      <4>. QED
        BY <1>0, <4>1, <4>2
    <3>2. CASE n = Len(q) + 1
      <4>1. n > 1 => Len(q) \in 1 .. Len(q) /\ q # << >> /\ n - 1 = Len(q)
        BY <2>2, <3>2
      <4>2. n > 1 => r[n - 1] = q[Len(q)] /\ co.max = q[Len(q)][1]
        BY <1>0, <2>2, <4>1
      <4>. QED
        BY <2>3, <2>4, <3>2, <4>2
    <3>. QED
      BY <2>2, <3>1, <3>2
  <2>6. r # << >> /\ r[Len(r)][1] = p
    BY <2>2, <2>3
  <2>7. SaidRight'
    BY <1>0, <1>2, <2>2, <2>4, <2>5, <2>6 DEF SaidRight
  <2>8. p = co.total => Told'
    BY <1>2, <2>6 DEF Told
  <2>. QED
    BY <2>7, <2>8
<1>. QED
  BY <1>1, <1>2 DEF Says, Noted

\* The reports on their way.
Rest(q) == Tail(q)

LEMMA PostedMore ==
    ASSUME PostedRight, Copy!Is("napi"), UNCHANGED job, NEW p \in Int, p <= co'.total, co'.total \in Int,
           co'.total = co.total \/ posted = << >>,
           posted' = Noted(posted, p, co'.total)
    PROVE  /\ PostedRight'
           /\ posted' # << >> /\ posted'[Len(posted')][1] = p
<1>. DEFINE r == Noted(posted, p, co'.total)
<1>0. posted' = r
  OBVIOUS
<1>1. posted \in Seq(Int \X Int) /\ <<p, co'.total>> \in Int \X Int
  BY DEF PostedRight
<1>2. /\ Len(posted) \in Nat /\ DOMAIN posted = 1 .. Len(posted) /\ (posted = << >> <=> Len(posted) = 0)
      /\ r \in Seq(Int \X Int) /\ Len(r) = Len(posted) + 1 /\ DOMAIN r = 1 .. Len(posted) + 1
      /\ \A n \in 1 .. Len(posted) : r[n] = posted[n]
      /\ r[Len(posted) + 1] = <<p, co'.total>>
  BY <1>1 DEF Noted
<1>. HIDE DEF r
<1>3. r[Len(posted) + 1][1] = p /\ r[Len(posted) + 1][2] = co'.total
  BY <1>2
<1>4. \A n \in DOMAIN posted : posted[n][1] <= co.total /\ posted[n][2] = co.total
  BY DEF PostedRight
<1>5. ASSUME NEW n \in DOMAIN r
      PROVE  r[n][1] <= co'.total /\ r[n][2] = co'.total
  <2>1. CASE n \in 1 .. Len(posted)
    <3>1. r[n] = posted[n] /\ n \in DOMAIN posted
      BY <1>2, <2>1
    <3>2. posted # << >>
      BY <1>2, <2>1
    <3>3. co'.total = co.total
      BY <3>2
    <3>4. posted[n][1] <= co.total /\ posted[n][2] = co.total
      BY <1>4, <3>1
    <3>. QED
      BY <3>1, <3>3, <3>4
  <2>2. CASE n = Len(posted) + 1
    BY <1>3, <2>2
  <2>. QED
    BY <1>2, <2>1, <2>2
<1>6. r # << >> /\ r[Len(r)][1] = p
  BY <1>2, <1>3
<1>. QED
  BY <1>0, <1>2, <1>5, <1>6 DEF PostedRight, Copy!Is

LEMMA PostedLess ==
    ASSUME PostedRight, posted # << >>, posted' = Rest(posted), UNCHANGED job, co'.total = co.total
    PROVE  /\ PostedRight' /\ Copy!Is("napi")
           /\ Head(posted)[1] \in Int /\ Head(posted)[1] <= co.total /\ Head(posted)[2] = co.total
           /\ posted' = << >> => Head(posted) = posted[Len(posted)]
           /\ posted' # << >> => posted'[Len(posted')] = posted[Len(posted)]
<1>. DEFINE r == Rest(posted)
<1>1. posted \in Seq(Int \X Int)
  BY DEF PostedRight
<1>2. /\ Len(posted) \in Nat /\ DOMAIN posted = 1 .. Len(posted) /\ Len(posted) >= 1
      /\ Head(posted) = posted[1] /\ posted[1] \in Int \X Int
      /\ r \in Seq(Int \X Int) /\ Len(r) = Len(posted) - 1 /\ DOMAIN r = 1 .. Len(posted) - 1
      /\ \A n \in 1 .. Len(posted) - 1 : r[n] = posted[n + 1]
      /\ r = << >> <=> Len(r) = 0
  <2>1. /\ Len(posted) \in Nat /\ DOMAIN posted = 1 .. Len(posted) /\ Len(posted) >= 1
        /\ Head(posted) = posted[1]
    BY <1>1
  <2>2. posted[1] \in Int \X Int
    BY <1>1, <2>1
  <2>3. /\ r \in Seq(Int \X Int) /\ Len(r) = Len(posted) - 1
        /\ \A n \in 1 .. Len(posted) - 1 : r[n] = posted[n + 1]
    BY <1>1 DEF Rest
  <2>. HIDE DEF r
  <2>4. DOMAIN r = 1 .. Len(posted) - 1 /\ (r = << >> <=> Len(r) = 0)
    BY <2>1, <2>3
  <2>. QED
    BY <2>1, <2>2, <2>3, <2>4
<1>3. posted' = r
  OBVIOUS
<1>. HIDE DEF r
<1>4. \A n \in DOMAIN posted : posted[n][1] <= co.total /\ posted[n][2] = co.total
  BY DEF PostedRight
<1>5. ASSUME NEW n \in DOMAIN r
      PROVE  r[n][1] <= co.total /\ r[n][2] = co.total
  <2>1. r[n] = posted[n + 1] /\ n + 1 \in DOMAIN posted
    BY <1>2, SMTT(40)
  <2>2. posted[n + 1][1] <= co.total /\ posted[n + 1][2] = co.total
    BY <1>4, <2>1
  <2>. QED
    BY <2>1, <2>2
<1>6. Head(posted)[1] \in Int /\ Head(posted)[1] <= co.total /\ Head(posted)[2] = co.total
  BY <1>2, <1>4
<1>7. r = << >> => Head(posted) = posted[Len(posted)]
  BY <1>2
<1>8. r # << >> => r[Len(r)] = posted[Len(posted)]
  BY <1>2
<1>9. Copy!Is("napi")
  BY DEF PostedRight
<1>10. PostedRight'
  BY <1>2, <1>3, <1>5, <1>9 DEF PostedRight, Copy!Is
<1>. QED
  BY <1>3, <1>6, <1>7, <1>8, <1>9, <1>10

-----------------------------------------------------------------------------
(* The reports stay right.                                                 *)

\* A step that neither counts nor reports.
QuietFields == {"total", "max", "said", "progress", "seen", "paths", "reg"}
Outside == {"call", "worker", "complete", "returned"}
QuietStep ==
    /\ UNCHANGED <<job, posted>>
    /\ \A f \in QuietFields : co'[f] = co[f]
    /\ ct'.pc # "none" => ct.pc # "none"
    /\ \/ cc'.pc = cc.pc /\ cc'.r = cc.r
       \/ /\ cc.pc \notin Outside /\ cc'.pc \notin Outside
          /\ cc'.pc \in {"local", "subscribe"} => cc.pc \in {"local", "subscribe"}

LEMMA QuietKeeps ==
    ASSUME Reports, QuietStep
    PROVE  Reports'
<1>. USE DEF Reports
<1>1. /\ co'.total = co.total /\ co'.max = co.max /\ co'.said = co.said /\ co'.progress = co.progress
      /\ co'.seen = co.seen /\ co'.paths = co.paths /\ co'.reg = co.reg
      /\ UNCHANGED <<job, posted>>
  BY DEF QuietStep, QuietFields
<1>2. SaidRight' /\ (Told => Told')
  BY <1>1, SaidStay
<1>3. PostedRight'
  BY <1>1 DEF PostedRight, Copy!Is
<1>4. CountsRight' /\ ProgressSums'
  BY <1>1, CountsStay DEF QuietStep, Outside
<1>5. Copy!GetDirSize' = Copy!GetDirSize
  BY <1>1 DEF Copy!GetDirSize
<1>6. TotalKnown'
  BY <1>1, <1>2, <1>5 DEF TotalKnown, QuietStep, Outside, Copy!Is
<1>. QED
  BY <1>2, <1>3, <1>4, <1>6

QuietSteps ==
    \/ Copy!ExecLocal \/ Copy!ExecCopy \/ Copy!CopySubDir \/ Copy!SkipLink \/ Copy!Copied
    \/ \E n \in 0 .. 1 : Copy!SendFile(n)
    \/ Copy!CloseNotifyFdLocked \/ Copy!CloseNotifyFd \/ Copy!CloseFdStep \/ Copy!CjCloseNotifyFd
    \/ Copy!Stops \/ Copy!WaitNotifyFinished
    \/ Copy!GetNotifyEvent \/ Copy!NotifyLoop \/ Copy!PollEnters \/ Copy!PollReturns
    \/ Copy!ReadLocks \/ Copy!ReadNotifyEvent \/ Copy!ReadEnds \/ Copy!Cancel

LEMMA QuietDoes ==
    ASSUME CopyShapes, CopyPhases, FdsInv, QuietSteps
    PROVE  QuietStep
<1>. USE DEF QuietStep, QuietFields, SharedFields, Outside, GoesTo, FailsWith, StepsOn
<1>1. CASE Copy!ExecLocal
  BY <1>1, ExecLocalDoes
<1>2. CASE Copy!ExecCopy
  BY <1>2, ExecCopyDoes
<1>3. CASE Copy!CopySubDir \/ Copy!SkipLink
  BY <1>3, CopySubDirDoes DEF Keeps
<1>4. CASE Copy!Copied \/ Copy!Stops \/ Copy!WaitNotifyFinished
  BY <1>4, GoingOnDoes DEF Keeps
<1>5. ASSUME NEW n \in 0 .. 1, Copy!SendFile(n) PROVE QuietStep
  <2>1. cc.pc = "send" /\ UNCHANGED <<job, co, ct, need, posted>> /\ Sends(n)
    BY <1>5, SendFileDoes
  <2>2. cc'.pc \in {"close", "send", "next"}
    BY <2>1 DEF Sends, Keeps, CopierFields
  <2>. QED
    BY <2>1, <2>2
<1>6. CASE Copy!CloseNotifyFdLocked \/ Copy!CloseNotifyFd \/ Copy!CloseFdStep \/ Copy!CjCloseNotifyFd
  BY <1>6, ClosingDoes DEF ClosingGoes, FdsInv, Keeps
<1>7. CASE Copy!GetNotifyEvent \/ Copy!NotifyLoop \/ Copy!PollEnters \/ Copy!PollReturns
  BY <1>7, ThreadDoes DEF Keeps
<1>8. CASE Copy!ReadLocks \/ Copy!ReadNotifyEvent
  BY <1>8, ReadDoes DEF Keeps
<1>9. CASE Copy!ReadEnds
  BY <1>9, ReadEndsDoes DEF FdsInv, Keeps
<1>10. CASE Copy!Cancel
  BY <1>10 DEF Copy!Cancel
<1>. QED
  BY <1>1, <1>2, <1>3, <1>4, <1>5, <1>6, <1>7, <1>8, <1>9, <1>10 DEF QuietSteps

\* The call, the subscription and the opening of a file.
LEMMA BeginningReports ==
    ASSUME CopyShapes, CopyPhases, FdsInv, Reports,
           Copy!DoCopy \/ Copy!SubscribeLocalListener \/ Copy!CopyFile
    PROVE  Reports'
<1>. USE DEF Reports
<1>1. CASE Copy!DoCopy
  <2>1. /\ cc.pc = "call" /\ UNCHANGED <<job, ct, posted>>
        /\ cc'.pc = IF Copy!Is("napi") THEN "worker" ELSE "local"
        /\ Keeps(co, co', SharedFields, {"reg"}) /\ co'.reg = TRUE
    BY <1>1, DoCopyDoes
  <2>2. /\ co'.total = co.total /\ co'.max = co.max /\ co'.said = co.said /\ co'.progress = co.progress
        /\ co'.seen = co.seen /\ co'.paths = co.paths
    BY <2>1 DEF Keeps, SharedFields
  <2>3. SaidRight' /\ (Told => Told')
    BY <2>2, SaidStay
  <2>4. CountsRight' /\ ProgressSums'
    BY <2>1, <2>2, CountsStay
  <2>5. PostedRight'
    BY <2>1, <2>2 DEF PostedRight, Copy!Is
  <2>6. ct.pc = "none"
    BY <2>1 DEF CopyPhases, BeforeWatch
  <2>7. TotalKnown'
    BY <2>1, <2>2, <2>6 DEF TotalKnown, Copy!Is
  <2>. QED
    BY <2>3, <2>4, <2>5, <2>7
<1>2. CASE Copy!SubscribeLocalListener
  <2>0. cc.pc = "subscribe"
    BY <1>2 DEF Copy!SubscribeLocalListener
  <2>1. FdsKnown /\ CbClosed
    BY <2>0 DEF FdsInv, FdsPhase, BeforeWatch
  <2>2. UNCHANGED <<job, posted>> /\ ~Copy!Is("napi")
    BY <1>2, <2>0, <2>1, SubscribeDoes DEF CopyPhases
  <2>3. CASE FailsWith /\ UNCHANGED <<co, ct>>
    <3>1. QuietStep
      BY <2>0, <2>2, <2>3 DEF QuietStep, Outside, FailsWith
    <3>. QED
      BY <3>1, QuietKeeps
  <2>4. CASE /\ GoesTo({"exec"}) /\ co'.total = Copy!GetDirSize
             /\ Keeps(co, co', SharedFields, {"notifyFd", "eventFd", "cbNotify", "cbEvent", "wds", "total"})
    <3>1. /\ co'.max = co.max /\ co'.said = co.said /\ co'.progress = co.progress
          /\ co'.seen = co.seen /\ co'.paths = co.paths /\ co'.reg = co.reg
      BY <2>4 DEF Keeps, SharedFields
    <3>2. co.total = 0 /\ co.said = << >> /\ posted = << >> /\ co.reg
      BY <2>0 DEF TotalKnown
    <3>3. co'.total \in Nat /\ cc'.pc = "exec"
      BY <2>4, DirSizeIs DEF GoesTo
    <3>4. SaidRight'
      BY <3>1, <3>2, <3>3 DEF SaidRight
    <3>5. PostedRight'
      BY <2>2, <3>2 DEF PostedRight, Copy!Is
    <3>6. co.progress \in Int
      BY DEF CountsRight
    <3>7. co.progress <= co.total => co.progress <= co'.total
      BY <3>2, <3>3, <3>6
    <3>8. CountsRight' /\ ProgressSums'
      BY <2>0, <2>2, <3>1, <3>7, CountsStay
    <3>9. Copy!GetDirSize' = Copy!GetDirSize
      BY <2>2 DEF Copy!GetDirSize
    <3>10. TotalKnown'
      BY <2>2, <2>4, <3>1, <3>2, <3>3, <3>9 DEF TotalKnown, Copy!Is
    <3>. QED
      BY <3>4, <3>5, <3>8, <3>10
  <2>. QED
    BY <1>2, <2>1, <2>3, <2>4, SubscribeDoes
<1>3. CASE Copy!CopyFile
  <2>1. /\ cc.pc = "next" /\ UNCHANGED <<job, ct, posted>>
        /\ cc.at \in DOMAIN job.tree /\ job.tree[cc.at].kind = "file"
        /\ Keeps(co, co', SharedFields, {"paths"})
        /\ co'.paths = IF Copy!IsFile THEN co.paths ELSE co.paths \cup {job.tree[cc.at].name}
    BY <1>3, CopyFileDoes
  <2>2. cc'.pc \in {"close", "send"}
    BY <1>3, CopyFileDoes DEF FailsWith
  <2>3. /\ co'.total = co.total /\ co'.max = co.max /\ co'.said = co.said /\ co'.progress = co.progress
        /\ co'.seen = co.seen /\ co'.reg = co.reg
    BY <2>1 DEF Keeps, SharedFields
  <2>4. SaidRight'
    BY <2>3, SaidStay
  <2>5. PostedRight'
    BY <2>1, <2>3 DEF PostedRight, Copy!Is
  <2>6. co'.paths \subseteq FileNames(job) /\ (Copy!IsFile => co'.paths = {})
    BY <2>1 DEF CountsRight, FileNames
  <2>7. CountsRight'
    BY <2>1, <2>3, <2>6 DEF CountsRight, FileNames, Copy!IsFile
  <2>8. CountOf' = CountOf
    BY <2>1, <2>3 DEF CountOf, Copy!FilesOf
  <2>9. ProgressSums'
    BY <2>1, <2>2, <2>3, <2>8 DEF ProgressSums, Copy!IsFile, Copy!Is, Copy!FilesOf
  <2>10. Copy!GetDirSize' = Copy!GetDirSize
    BY <2>1 DEF Copy!GetDirSize
  <2>11. TotalKnown'
    BY <2>1, <2>2, <2>3, <2>10 DEF TotalKnown, Copy!Is
  <2>. QED
    BY <2>4, <2>5, <2>7, <2>9, <2>11
<1>. QED
  BY <1>1, <1>2, <1>3

\* An event that is handled.
LEMMA HandlingReports ==
    ASSUME CopyShapes, CopyPhases, SizesRight, Reports, Copy!Fresh, Copy!HandleNext
    PROVE  Reports'
<1>. USE DEF Reports
<1>1. /\ UNCHANGED <<job, ck, cc, size, need, posted>>
      /\ ct.pc = "handle" /\ ct'.pc = "handle" /\ CopyShapes'
  BY HandleDoes
<1>2. /\ ~Copy!Is("napi") /\ cc.pc \notin BeforeWatch \cup {"end", "returned"}
      /\ co.reg /\ co.total = Copy!GetDirSize
  BY <1>1 DEF CopyPhases, BeforeWatch, TotalKnown
<1>3. PICK y :
        /\ Handled(y) /\ Keeps(co, y, SharedFields, {"progress", "seen"})
        /\ \/ Keeps(y, co', SharedFields, {"run"})
           \/ /\ Keeps(y, co', SharedFields, {"max", "said"})
              /\ (y.reg /\ Says(y, co', y.progress, y.total)) \/ (~y.reg /\ co' = y)
  BY HandleDoes
<1>4. /\ y.max = co.max /\ y.said = co.said /\ y.total = co.total /\ y.reg = co.reg
      /\ co'.progress = y.progress /\ co'.seen = y.seen
      /\ co'.total = co.total /\ co'.reg = co.reg /\ co'.paths = co.paths
  BY <1>3 DEF Keeps, SharedFields
<1>5. CountsRight' /\ ProgressSums'
  <2>1. CASE y = co
    BY <1>1, <1>4, <2>1, CountsStay
  <2>2. CASE Copy!IsFile /\ Keeps(co, y, SharedFields, {"progress"}) /\ y.progress = size[Copy!Root]
    <3>1. y.seen = co.seen
      BY <2>2 DEF Keeps, SharedFields
    <3>2. 1 \in Copy!FilesOf(job) /\ Copy!Root = job.tree[1].name
      <4>1. Len(job.tree) = 1 /\ job.tree[1].kind = "file"
        BY <2>2, JobsAssumption DEF CopyShapes, Copy!IsFile
      <4>2. 1 \in DOMAIN job.tree
        BY <4>1, MembersAre
      <4>. QED
        BY <2>2, <4>1, <4>2 DEF Copy!FilesOf, Copy!Root
    <3>. DEFINE v == size[Copy!Root]
                l == job.tree[1].len
    <3>3. v \in Int /\ v <= l /\ l \in Nat
      BY <3>2, MembersAre DEF SizesRight, Copy!FilesOf
    <3>4. l <= Copy!GetDirSize /\ Copy!GetDirSize \in Nat
      BY <3>2, DirSizeIs
    <3>5. co'.progress = v
      BY <1>4, <2>2
    <3>. HIDE DEF v, l
    <3>6. co'.progress \in Int /\ co'.progress <= co'.total
      BY <1>2, <1>4, <3>3, <3>4, <3>5
    <3>7. CountsRight'
      BY <1>1, <1>4, <3>1, <3>6 DEF CountsRight, FileNames, Copy!IsFile
    <3>8. ProgressSums'
      BY <1>1, <2>2, <3>6 DEF ProgressSums, Copy!IsFile
    <3>. QED
      BY <3>7, <3>8
  <2>3. ASSUME NEW name \in co.paths, y = Copy!UpdateProgressSize(co, name)
        PROVE  CountsRight' /\ ProgressSums'
    <3>1. ~Copy!IsFile
      BY DEF CountsRight
    <3>. QED
      BY <1>1, <1>2, <1>4, <2>3, <3>1, UpdateCounts
  <2>4. ~(Copy!Is("cj") /\ ~Copy!IsFile)
    BY DEF Copy!Fresh
  <2>. QED
    BY <1>3, <2>1, <2>2, <2>3, <2>4 DEF Handled
<1>6. Copy!GetDirSize' = Copy!GetDirSize
  BY <1>1 DEF Copy!GetDirSize
<1>7. co'.progress \in Int /\ co'.progress <= co'.total
  <2>1. (cc.pc # "returned" /\ co.total = Copy!GetDirSize)'
    BY <1>1, <1>2, <1>4, <1>6
  <2>2. (co.progress \in Int /\ co.progress <= co.total)'
    BY <1>1, <1>5, <2>1, ProgressBound, PTL
  <2>. QED
    BY <2>2
<1>8. SaidRight'
  <2>1. CASE Keeps(y, co', SharedFields, {"run"})
    <3>1. co'.max = co.max /\ co'.said = co.said
      BY <1>4, <2>1 DEF Keeps, SharedFields
    <3>. QED
      BY <1>4, <3>1, SaidStay
  <2>2. CASE Says(y, co', y.progress, y.total)
    <3>. DEFINE p == co'.progress
    <3>1. Says(co, co', p, co.total)
      BY <1>4, <2>2 DEF Says
    <3>2. p \in Int /\ p <= co.total
      BY <1>4, <1>7
    <3>. HIDE DEF p
    <3>. QED
      BY <1>4, <3>1, <3>2, SaidMore
  <2>. QED
    BY <1>2, <1>3, <1>4, <2>1, <2>2
<1>9. PostedRight'
  BY <1>1, <1>4 DEF PostedRight, Copy!Is
<1>10. TotalKnown'
  BY <1>1, <1>2, <1>4, <1>6 DEF TotalKnown, BeforeWatch, Copy!Is
<1>. QED
  BY <1>5, <1>8, <1>9, <1>10

\* The end of a local copy.
LEMMA EndingReports ==
    ASSUME CopyShapes, CopyPhases, Reports, Copy!Ended
    PROVE  Reports'
<1>. USE DEF Reports
<1>1. /\ cc.pc = "end" /\ UNCHANGED <<job, ck, ct, size, need, posted>>
      /\ cc'.pc = "returned" /\ ct.pc = "none" /\ co.reg
      /\ ~Copy!Is("napi")
  BY EndedDoes DEF CopyPhases, TotalKnown
<1>2. co'.total = co.total /\ co'.seen = co.seen /\ co'.paths = co.paths
  BY EndedDoes DEF Keeps, SharedFields
<1>3. PostedRight'
  BY <1>1, <1>2 DEF PostedRight, Copy!Is
<1>4. CASE \/ cc.r # "ok" /\ cc'.r = cc.r /\ Keeps(co, co', SharedFields, {"ex", "reg"})
           \/ ~job.listener /\ Keeps(co, co', SharedFields, {"reg"})
  <2>1. co'.max = co.max /\ co'.said = co.said /\ co'.progress = co.progress
    BY <1>4 DEF Keeps, SharedFields
  <2>2. SaidRight'
    BY <1>2, <2>1, SaidStay
  <2>3. CountsRight' /\ ProgressSums'
    BY <1>1, <1>2, <2>1, CountsStay
  <2>4. TotalKnown'
    BY <1>1, <1>4 DEF TotalKnown, Copy!Is
  <2>. QED
    BY <1>3, <2>2, <2>3, <2>4
<1>5. CASE co'.progress = co.total /\ Says(co, co', co.total, co.total)
  <2>. DEFINE p == co.total
  <2>1. p \in Int /\ p <= co.total
    BY DEF SaidRight
  <2>2. Says(co, co', p, co.total)
    BY <1>5
  <2>3. p = co.total
    OBVIOUS
  <2>. HIDE DEF p
  <2>4. SaidRight' /\ Told'
    BY <1>2, <2>1, <2>2, <2>3, SaidMore
  <2>5. co'.progress \in Int /\ co'.progress <= co'.total
    BY <1>2, <1>5, <2>1, <2>3
  <2>6. CountsRight'
    BY <1>1, <1>2, <2>5 DEF CountsRight, FileNames, Copy!IsFile
  <2>7. CountOf' = CountOf
    BY <1>1, <1>2 DEF CountOf, Copy!FilesOf
  <2>8. ProgressSums'
    BY <1>1, <2>5, <2>7 DEF ProgressSums, Copy!IsFile, Copy!Is, Copy!FilesOf
  <2>9. TotalKnown'
    BY <1>1, <2>4 DEF TotalKnown, Copy!Is
  <2>. QED
    BY <1>3, <2>4, <2>6, <2>8, <2>9
<1>. QED
  BY <1>1, <1>4, <1>5, EndedDoes

\* The dynamic binding.
LEMMA NapiReportsKeep ==
    ASSUME CopyShapes, CopyPhases, Reports, Copy!NapiReports
    PROVE  Reports'
<1>. USE DEF Reports
<1>. DEFINE p == Head(posted)[1]
            v == Head(posted)[2]
<1>1. /\ UNCHANGED <<job, ck, cc, ct, size, need>> /\ posted # << >> /\ posted' = Rest(posted)
      /\ Keeps(co, co', SharedFields, {"max", "said"}) /\ Says(co, co', p, v)
  BY NapiReportsDoes DEF Rest
<1>2. /\ co'.total = co.total /\ co'.progress = co.progress
      /\ co'.seen = co.seen /\ co'.paths = co.paths /\ co'.reg = co.reg
  BY <1>1 DEF Keeps, SharedFields
<1>3. /\ PostedRight' /\ Copy!Is("napi") /\ p \in Int /\ p <= co.total /\ v = co.total
      /\ posted' = << >> => Head(posted) = posted[Len(posted)]
      /\ posted' # << >> => posted'[Len(posted')] = posted[Len(posted)]
  BY <1>1, <1>2, PostedLess
<1>4. posted' = << >> => p = posted[Len(posted)][1]
  BY <1>3
<1>. HIDE DEF p, v
<1>5. Says(co, co', p, co.total)
  BY <1>1, <1>3
<1>6. SaidRight' /\ (p = co.total => Told')
  BY <1>2, <1>3, <1>5, SaidMore
<1>7. CountsRight' /\ ProgressSums'
  BY <1>1, <1>2, CountsStay
<1>8. Copy!GetDirSize' = Copy!GetDirSize
  BY <1>1 DEF Copy!GetDirSize
<1>9. TotalKnown'
  <2>1. /\ cc.pc \notin {"call", "local", "subscribe"}
        /\ cc.pc = "worker" => co.total = Copy!GetDirSize
        /\ ct.pc # "none" => co.total = Copy!GetDirSize
        /\ cc.pc \notin {"call", "complete", "returned"} => co.reg
    BY <1>1 DEF TotalKnown
  <2>2. cc.pc \in {"complete", "returned"} /\ cc.r = "ok" /\ job.listener => posted[Len(posted)][1] = co.total
    BY <1>1, <1>3 DEF TotalKnown
  <2>3. cc.pc \in {"complete", "returned"} /\ cc.r = "ok" /\ job.listener =>
          IF posted' = << >> THEN Told' ELSE posted'[Len(posted')][1] = co.total
    BY <1>3, <1>4, <1>6, <2>2
  <2>. QED
    BY <1>1, <1>2, <1>3, <1>8, <2>1, <2>3 DEF TotalKnown, Copy!Is
<1>. QED
  BY <1>3, <1>6, <1>7, <1>9

LEMMA NapiCopyReports ==
    ASSUME CopyShapes, CopyPhases, Reports,
           (\E p \in 1 .. Copy!GetDirSize : Copy!ProcessListener(p)) \/ Copy!NapiExecCopy \/ Copy!NapiCompletes
    PROVE  Reports'
<1>. USE DEF Reports
<1>1. ASSUME NEW p \in 1 .. Copy!GetDirSize, Copy!ProcessListener(p) PROVE Reports'
  <2>0. p \in Nat /\ p \in Int
    OBVIOUS
  <2>1. /\ cc.pc = "worker" /\ UNCHANGED <<job, ck, ct, size, need>>
        /\ p <= Copy!GetDirSize
        /\ Keeps(cc, cc', CopierFields, {"off"})
        /\ Keeps(co, co', SharedFields, {"progress", "total"})
        /\ co'.progress = p /\ co'.total = Copy!GetDirSize
        /\ posted' = posted \/ posted' = Noted(posted, p, co'.total)
    BY <1>1, <2>0, ListenerDoes DEF Noted
  <2>2. Copy!Is("napi") /\ ct.pc = "none" /\ cc'.pc = "worker"
    BY <2>1 DEF CopyPhases, BeforeWatch, Keeps, CopierFields
  <2>3. /\ co'.max = co.max /\ co'.said = co.said /\ co'.seen = co.seen
        /\ co'.paths = co.paths /\ co'.reg = co.reg
    BY <2>1 DEF Keeps, SharedFields
  <2>4. co'.total = co.total \/ (co.total = 0 /\ co.said = << >> /\ posted = << >>)
    BY <2>1 DEF TotalKnown
  <2>5. co'.total \in Nat /\ p <= co'.total
    BY <2>1, DirSizeIs
  <2>6. SaidRight'
    <3>1. CASE co'.total = co.total
      BY <2>3, <3>1, SaidStay
    <3>2. CASE co.said = << >>
      BY <2>3, <2>5, <3>2 DEF SaidRight
    <3>. QED
      BY <2>4, <3>1, <3>2
  <2>7. PostedRight'
    <3>1. CASE posted' = posted
      <4>1. CASE co'.total = co.total
        BY <2>1, <3>1, <4>1 DEF PostedRight, Copy!Is
      <4>2. CASE posted = << >>
        BY <2>1, <3>1, <4>2 DEF PostedRight, Copy!Is
      <4>. QED
        BY <2>4, <4>1, <4>2
    <3>2. CASE posted' = Noted(posted, p, co'.total)
      BY <2>0, <2>1, <2>2, <2>4, <2>5, <3>2, PostedMore
    <3>. QED
      BY <2>1, <3>1, <3>2
  <2>8. CountsRight'
    BY <2>0, <2>1, <2>3 DEF CountsRight, FileNames, Copy!IsFile
  <2>9. ProgressSums'
    BY <2>1, <2>2, <2>5 DEF ProgressSums, Copy!Is
  <2>10. Copy!GetDirSize' = Copy!GetDirSize
    BY <2>1 DEF Copy!GetDirSize
  <2>11. TotalKnown'
    BY <2>1, <2>2, <2>3, <2>10 DEF TotalKnown
  <2>. QED
    BY <2>6, <2>7, <2>8, <2>9, <2>11
<1>2. CASE Copy!NapiExecCopy
  <2>1. /\ cc.pc = "worker" /\ UNCHANGED <<job, ck, ct, size, need>> /\ cc'.pc = "complete"
        /\ \/ cc'.r # "ok" /\ UNCHANGED <<co, posted>>
           \/ ~job.listener /\ UNCHANGED <<co, posted>>
           \/ /\ Keeps(co, co', SharedFields, {"progress"}) /\ co'.progress = co.total
              /\ posted' = Noted(posted, co.total, co.total)
    BY <1>2, NapiExecDoes DEF Noted
  <2>2. Copy!Is("napi") /\ ct.pc = "none" /\ co.total \in Nat
    BY <2>1 DEF CopyPhases, BeforeWatch, SaidRight
  <2>3. CASE (cc'.r # "ok" \/ ~job.listener) /\ UNCHANGED <<co, posted>>
    <3>1. SaidRight' /\ PostedRight'
      BY <2>1, <2>3 DEF SaidRight, PostedRight, Copy!Is
    <3>2. CountsRight' /\ ProgressSums'
      BY <2>1, <2>3, CountsStay
    <3>3. TotalKnown'
      BY <2>1, <2>2, <2>3 DEF TotalKnown, Copy!Is
    <3>. QED
      BY <3>1, <3>2, <3>3
  <2>4. CASE /\ Keeps(co, co', SharedFields, {"progress"}) /\ co'.progress = co.total
             /\ posted' = Noted(posted, co.total, co.total)
    <3>. DEFINE p == co.total
    <3>1. /\ co'.total = co.total /\ co'.max = co.max /\ co'.said = co.said
          /\ co'.seen = co.seen /\ co'.paths = co.paths
      BY <2>4 DEF Keeps, SharedFields
    <3>2. p \in Int /\ p <= co'.total /\ co'.total \in Int /\ p = co'.total /\ posted' = Noted(posted, p, co'.total)
      BY <2>2, <2>4, <3>1
    <3>3. co'.progress = p
      BY <2>4
    <3>. HIDE DEF p
    <3>4. PostedRight' /\ posted' # << >> /\ posted'[Len(posted')][1] = p
      BY <2>1, <2>2, <3>1, <3>2, PostedMore
    <3>5. SaidRight'
      BY <3>1, SaidStay
    <3>6. CountsRight'
      BY <2>1, <3>1, <3>2, <3>3 DEF CountsRight, FileNames, Copy!IsFile
    <3>7. ProgressSums'
      BY <2>1, <2>2, <3>2, <3>3 DEF ProgressSums, Copy!Is
    <3>8. TotalKnown'
      BY <2>1, <2>2, <3>2, <3>4 DEF TotalKnown, Copy!Is
    <3>. QED
      BY <3>4, <3>5, <3>6, <3>7, <3>8
  <2>. QED
    BY <2>1, <2>3, <2>4
<1>3. CASE Copy!NapiCompletes
  <2>1. /\ cc.pc = "complete" /\ UNCHANGED <<job, ck, ct, size, need, posted>>
        /\ cc'.pc = "returned" /\ cc'.r = cc.r
        /\ Keeps(co, co', SharedFields, {"reg"})
    BY <1>3, NapiCompletesDoes DEF GoesTo, Keeps, CopierFields
  <2>2. Copy!Is("napi") /\ ct.pc = "none"
    BY <2>1 DEF CopyPhases, BeforeWatch
  <2>3. /\ co'.total = co.total /\ co'.max = co.max /\ co'.said = co.said
        /\ co'.progress = co.progress /\ co'.seen = co.seen /\ co'.paths = co.paths
    BY <2>1 DEF Keeps, SharedFields
  <2>4. SaidRight' /\ (Told => Told')
    BY <2>3, SaidStay
  <2>5. PostedRight'
    BY <2>1, <2>3 DEF PostedRight, Copy!Is
  <2>6. CountsRight' /\ ProgressSums'
    BY <2>1, <2>3, CountsStay
  <2>7. TotalKnown'
    BY <2>1, <2>2, <2>3, <2>4 DEF TotalKnown, Copy!Is
  <2>. QED
    BY <2>4, <2>5, <2>6, <2>7
<1>. QED
  BY <1>1, <1>2, <1>3

LEMMA ProgressKept ==
    ASSUME CopyShapes, CopyPhases, FdsInv, ProgressInv, Copy!Next
    PROVE  ProgressInv'
<1>0. UNCHANGED job
  BY PhasesKept
<1>1. Copy!Fresh' <=> Copy!Fresh
  BY <1>0 DEF Copy!Fresh, Copy!FilesOf, Copy!Is, Copy!IsFile
<1>2. SUFFICES ASSUME Copy!Fresh PROVE (SizesRight /\ Reports)'
  BY <1>1 DEF ProgressInv
<1>3. SizesRight /\ Reports
  BY <1>2 DEF ProgressInv
<1>4. SizesRight'
  BY <1>3, SizesKept
<1>5. ASSUME QuietSteps PROVE Reports'
  BY <1>3, <1>5, QuietDoes, QuietKeeps
<1>6. ASSUME Copy!DoCopy \/ Copy!SubscribeLocalListener \/ Copy!CopyFile PROVE Reports'
  BY <1>3, <1>6, BeginningReports
<1>7. ASSUME Copy!HandleNext PROVE Reports'
  BY <1>2, <1>3, <1>7, HandlingReports
<1>8. ASSUME Copy!Ended PROVE Reports'
  BY <1>3, <1>8, EndingReports
<1>9. ASSUME (\E p \in 1 .. Copy!GetDirSize : Copy!ProcessListener(p)) \/ Copy!NapiExecCopy \/ Copy!NapiCompletes PROVE Reports'
  BY <1>3, <1>9, NapiCopyReports
<1>10. ASSUME Copy!NapiReports PROVE Reports'
  BY <1>3, <1>10, NapiReportsKeep
<1>. QED
  BY <1>4, <1>5, <1>6, <1>7, <1>8, <1>9, <1>10 DEF QuietSteps, Copy!Next, Copy!Copies, Copy!Notifies

-----------------------------------------------------------------------------
(* The watchers' descriptors.                                              *)

IsSeq(s) == s \in Seq(Range(s))
KernelOk(kern) ==
    /\ DOMAIN kern = {"tab", "inst", "files"}
    /\ kern.tab \in [1 .. MaxFd -> Nat]
    /\ IsSeq(kern.inst)
    /\ \A i \in DOMAIN kern.inst : "kind" \in DOMAIN kern.inst[i]
    /\ \A n \in 1 .. MaxFd : kern.tab[n] # 0 => kern.tab[n] \in DOMAIN kern.inst
OthersOpen(kern) ==
    \A i \in DOMAIN kern.inst : kern.inst[i].kind = "other" => \E n \in DOMAIN kern.tab : kern.tab[n] = i
Own(kern, fd, ev) ==
    /\ NumbersOf(kern, "inotify") = {fd} \ {0} /\ NumbersOf(kern, "event") = {ev} \ {0}
    /\ OthersOpen(kern)

\* The numbers the manager knows are the open ones of their kinds.
FdsHeld ==
    /\ KernelOk(k)
    /\ notifyFd \in 0 .. MaxFd /\ eventFd \in 0 .. MaxFd /\ (notifyFd = 0 => eventFd = 0)
    /\ Own(k, notifyFd, eventFd)

\* A polling thread that is alone and reads has said so, and reads what is open.
PollerFields == {"pc", "who", "fds", "at", "buf", "todo"}
Waiting == {"none", "begin"}
ReadsOn == {"read", "reading", "unlock", "notify", "call"}
PollersShape == DOMAIN poller = Pollers /\ \A p \in Pollers : DOMAIN poller[p] = PollerFields
LoneReader ==
    /\ \A p, q \in Pollers : p # q => poller[p].pc \in Waiting \/ poller[q].pc \in Waiting
    /\ \A p \in Pollers : poller[p].pc \in ReadsOn => reading = TRUE
    /\ \A p \in Pollers :
        poller[p].pc = "reading" => notifyFd # 0 /\ InstanceOf(k, notifyFd) = poller[p].at[2]
WatchInv ==
    /\ plan.binding \in {"napi", "core", "cj"} /\ doubled \in BOOLEAN
    /\ FdsHeld /\ PollersShape
    /\ ~Is("cj") /\ doubled = FALSE => LoneReader

\* Sequences, whatever is in them.
LEMMA SeqIs ==
    ASSUME NEW s, IsSeq(s)
    PROVE  Len(s) \in Nat /\ DOMAIN s = 1 .. Len(s)
BY DEF IsSeq

LEMMA SeqMore ==
    ASSUME NEW s, IsSeq(s), NEW x
    PROVE  /\ IsSeq(Append(s, x)) /\ DOMAIN Append(s, x) = 1 .. Len(s) + 1
           /\ \A i \in 1 .. Len(s) : Append(s, x)[i] = s[i]
           /\ Append(s, x)[Len(s) + 1] = x
<1>. DEFINE S == Range(s) \cup {x}
            t == Append(s, x)
<1>1. s \in Seq(S) /\ x \in S
  BY DEF IsSeq
<1>. HIDE DEF S
<1>2. /\ t \in Seq(S) /\ Len(t) = Len(s) + 1 /\ DOMAIN t = 1 .. Len(s) + 1
      /\ \A i \in 1 .. Len(s) : t[i] = s[i]
      /\ t[Len(s) + 1] = x
  BY <1>1
<1>. HIDE DEF t
<1>3. Len(t) \in Nat /\ DOMAIN t = 1 .. Len(t) /\ t \in [1 .. Len(t) -> Range(t)]
  BY <1>2 DEF Range
<1>4. t \in Seq(Range(t))
  BY <1>3
<1>. QED
  BY <1>2, <1>4 DEF IsSeq, t

LEMMA SeqMapped ==
    ASSUME NEW s, IsSeq(s), NEW t, t = [i \in DOMAIN s |-> t[i]]
    PROVE  IsSeq(t) /\ DOMAIN t = DOMAIN s
<1>1. Len(s) \in Nat /\ DOMAIN s = 1 .. Len(s)
  BY SeqIs
<1>2. t \in [1 .. Len(s) -> Range(t)]
  BY <1>1 DEF Range
<1>3. t \in Seq(Range(t))
  BY <1>1, <1>2
<1>. QED
  BY <1>3 DEF IsSeq

\* The operations that leave the numbers and the kinds alone.
SameKinds(x, y) ==
    /\ KernelOk(y) /\ y.tab = x.tab /\ DOMAIN y.inst = DOMAIN x.inst
    /\ \A i \in DOMAIN x.inst : y.inst[i].kind = x.inst[i].kind

LEMMA KindsAsBefore ==
    ASSUME NEW x, KernelOk(x), NEW y, DOMAIN y = {"tab", "inst", "files"}, y.tab = x.tab,
           y.inst = [i \in DOMAIN x.inst |-> y.inst[i]],
           \A i \in DOMAIN x.inst : "kind" \in DOMAIN y.inst[i] /\ y.inst[i].kind = x.inst[i].kind
    PROVE  SameKinds(x, y)
<1>1. IsSeq(y.inst) /\ DOMAIN y.inst = DOMAIN x.inst
  BY SeqMapped DEF KernelOk
<1>. QED
  BY <1>1 DEF SameKinds, KernelOk

LEMMA WAdding ==
    ASSUME NEW x, KernelOk(x), NEW fd, NEW file, NEW evs
    PROVE  SameKinds(x, AddWatch(x, fd, file, evs))
<1>. DEFINE y == AddWatch(x, fd, file, evs)
<1>1. /\ DOMAIN y = {"tab", "inst", "files"} /\ y.tab = x.tab
      /\ y.inst = [i \in DOMAIN x.inst |-> y.inst[i]]
      /\ \A i \in DOMAIN x.inst : "kind" \in DOMAIN y.inst[i] /\ y.inst[i].kind = x.inst[i].kind
  BY DEF AddWatch, KernelOk
<1>. HIDE DEF y
<1>2. SameKinds(x, y)
  BY <1>1, KindsAsBefore
<1>. QED
  BY <1>2 DEF y

LEMMA WRemoving ==
    ASSUME NEW x, KernelOk(x), NEW fd, NEW n
    PROVE  SameKinds(x, RmWatch(x, fd, n))
<1>. DEFINE y == RmWatch(x, fd, n)
<1>1. /\ DOMAIN y = {"tab", "inst", "files"} /\ y.tab = x.tab
      /\ y.inst = [i \in DOMAIN x.inst |-> y.inst[i]]
      /\ \A i \in DOMAIN x.inst : "kind" \in DOMAIN y.inst[i] /\ y.inst[i].kind = x.inst[i].kind
  BY DEF RmWatch, KernelOk
<1>. HIDE DEF y
<1>2. SameKinds(x, y)
  BY <1>1, KindsAsBefore
<1>. QED
  BY <1>2 DEF y

LEMMA WHappening ==
    ASSUME NEW x, KernelOk(x), NEW file, NEW event, NEW id
    PROVE  SameKinds(x, Happens(x, file, event, id)) /\ SameKinds(x, Deleted(x, file))
<1>. DEFINE y == Happens(x, file, event, id)
            z == Deleted(x, file)
<1>1. /\ DOMAIN y = {"tab", "inst", "files"} /\ y.tab = x.tab
      /\ y.inst = [i \in DOMAIN x.inst |-> y.inst[i]]
      /\ \A i \in DOMAIN x.inst : "kind" \in DOMAIN y.inst[i] /\ y.inst[i].kind = x.inst[i].kind
  BY DEF Happens, KernelOk
<1>2. /\ DOMAIN z = {"tab", "inst", "files"} /\ z.tab = x.tab
      /\ z.inst = [i \in DOMAIN x.inst |-> z.inst[i]]
      /\ \A i \in DOMAIN x.inst : "kind" \in DOMAIN z.inst[i] /\ z.inst[i].kind = x.inst[i].kind
  BY DEF Deleted, KernelOk
<1>. HIDE DEF y, z
<1>3. SameKinds(x, y) /\ SameKinds(x, z)
  BY <1>1, <1>2, KindsAsBefore
<1>. QED
  BY <1>3 DEF y, z

LEMMA WWriting ==
    ASSUME NEW x, KernelOk(x), NEW fd, NEW i
    PROVE  SameKinds(x, Written(x, fd)) /\ SameKinds(x, Emptied(x, i)) /\ SameKinds(x, x)
<1>. DEFINE y == Written(x, fd)
            z == Emptied(x, i)
<1>0. SameKinds(x, x)
  BY DEF SameKinds
<1>1. ASSUME fd # 0 PROVE SameKinds(x, y)
  <2>1. /\ DOMAIN y = {"tab", "inst", "files"} /\ y.tab = x.tab
        /\ y.inst = [j \in DOMAIN x.inst |-> y.inst[j]]
        /\ \A j \in DOMAIN x.inst : "kind" \in DOMAIN y.inst[j] /\ y.inst[j].kind = x.inst[j].kind
    BY <1>1 DEF Written, KernelOk
  <2>. HIDE DEF y
  <2>. QED
    BY <2>1, KindsAsBefore
<1>2. ASSUME fd = 0 PROVE SameKinds(x, y)
  BY <1>0, <1>2 DEF Written
<1>3. SameKinds(x, z)
  <2>1. /\ DOMAIN z = {"tab", "inst", "files"} /\ z.tab = x.tab
        /\ z.inst = [j \in DOMAIN x.inst |-> z.inst[j]]
        /\ \A j \in DOMAIN x.inst : "kind" \in DOMAIN z.inst[j] /\ z.inst[j].kind = x.inst[j].kind
    BY DEF Emptied, KernelOk
  <2>. HIDE DEF z
  <2>. QED
    BY <2>1, KindsAsBefore
<1>4. SameKinds(x, y)
  BY <1>1, <1>2
<1>. HIDE DEF y, z
<1>. QED
  BY <1>0, <1>3, <1>4 DEF y, z

LEMMA KindsHeld ==
    ASSUME NEW x, KernelOk(x), NEW y, SameKinds(x, y), NEW fd, NEW ev, Own(x, fd, ev)
    PROVE  Own(y, fd, ev)
<1>1. \A n \in 1 .. MaxFd : KindOf(y, y.tab[n]) = KindOf(x, x.tab[n])
  BY DEF KindOf, SameKinds, KernelOk
<1>2. OthersOpen(y)
  BY DEF OthersOpen, SameKinds, Own
<1>. QED
  BY <1>1, <1>2 DEF Own, NumbersOf

\* Closing the two numbers leaves none of their kinds and closes no other.
LEMMA ClosesOwn ==
    ASSUME NEW x, KernelOk(x), NEW fd \in 0 .. MaxFd, NEW ev \in 0 .. MaxFd, Own(x, fd, ev)
    PROVE  KernelOk(Closed(Closed(x, fd), ev)) /\ Own(Closed(Closed(x, fd), ev), 0, 0)
<1>. DEFINE y == Closed(Closed(x, fd), ev)
<1>. DEFINE y1 == Closed(x, fd)
<1>0. y1.tab \in [1 .. MaxFd -> Nat] /\ DOMAIN y1 = {"tab", "inst", "files"}
  BY DEF Closed, KernelOk
<1>2. y.tab \in [1 .. MaxFd -> Nat]
  <2>. HIDE DEF y1
  <2>1. Closed(y1, ev).tab \in [1 .. MaxFd -> Nat]
    BY <1>0 DEF Closed
  <2>. QED
    BY <2>1 DEF y1
<1>1. /\ DOMAIN y = {"tab", "inst", "files"} /\ y.inst = x.inst /\ DOMAIN y.tab = 1 .. MaxFd
      /\ \A n \in 1 .. MaxFd : y.tab[n] = IF n = fd \/ n = ev THEN 0 ELSE x.tab[n]
  BY NumbersAssumption DEF Closed, KernelOk
<1>. HIDE DEF y
<1>3. KernelOk(y)
  BY <1>1, <1>2 DEF KernelOk
<1>4. \A n \in 1 .. MaxFd : KindOf(y, y.tab[n]) = IF n = fd \/ n = ev THEN "none" ELSE KindOf(x, x.tab[n])
  BY <1>1 DEF KindOf
<1>5. NumbersOf(y, "inotify") = {} /\ NumbersOf(y, "event") = {}
  BY <1>4 DEF NumbersOf, Own
<1>6. OthersOpen(y)
  <2>. SUFFICES ASSUME NEW i \in DOMAIN x.inst, x.inst[i].kind = "other"
                PROVE  \E n \in DOMAIN y.tab : y.tab[n] = i
    BY <1>1 DEF OthersOpen
  <2>1. PICK n \in 1 .. MaxFd : x.tab[n] = i
    BY DEF Own, OthersOpen, KernelOk
  <2>2. i # 0
    BY SeqIs DEF KernelOk
  <2>3. KindOf(x, x.tab[n]) = "other"
    BY <2>1, <2>2 DEF KindOf
  <2>4. n # fd /\ n # ev
    BY <2>3 DEF Own, NumbersOf
  <2>. QED
    BY <1>1, <2>1, <2>4
<1>. QED
  BY <1>3, <1>5, <1>6 DEF Own, y

\* A number that is opened was free, and is the only one that changes.
LEMMA OpensNew ==
    ASSUME NEW x, KernelOk(x), Free(x) # {}, OthersOpen(x), NEW kind
    PROVE  /\ NewFd(x) \in 1 .. MaxFd /\ x.tab[NewFd(x)] = 0
           /\ KernelOk(Opened(x, kind)) /\ OthersOpen(Opened(x, kind))
           /\ \A n \in 1 .. MaxFd :
                /\ n # NewFd(x) => Opened(x, kind).tab[n] = x.tab[n]
                /\ KindOf(Opened(x, kind), Opened(x, kind).tab[n]) =
                     IF n = NewFd(x) THEN kind ELSE KindOf(x, x.tab[n])
<1>. DEFINE y == Opened(x, kind)
            fd == NewFd(x)
            new == Len(x.inst) + 1
<1>1. fd \in Free(x)
  BY MinNat, NumbersAssumption DEF Free, NewFd
<1>2. fd \in 1 .. MaxFd /\ x.tab[fd] = 0
  BY <1>1 DEF Free
<1>. HIDE DEF fd
<1>3. /\ DOMAIN y = {"tab", "inst", "files"}
      /\ y.tab = [x.tab EXCEPT ![fd] = new] /\ y.inst = Append(x.inst, Instance(kind))
  BY DEF Opened, KernelOk, fd
<1>. HIDE DEF y
<1>4. Len(x.inst) \in Nat /\ DOMAIN x.inst = 1 .. Len(x.inst)
  BY SeqIs DEF KernelOk
<1>5. /\ IsSeq(y.inst) /\ DOMAIN y.inst = 1 .. Len(x.inst) + 1
      /\ \A i \in 1 .. Len(x.inst) : y.inst[i] = x.inst[i]
      /\ y.inst[Len(x.inst) + 1] = Instance(kind)
  BY <1>3, SeqMore DEF KernelOk
<1>6. /\ y.tab \in [1 .. MaxFd -> Nat] /\ y.tab[fd] = new
      /\ \A n \in 1 .. MaxFd : n # fd => y.tab[n] = x.tab[n]
  <2>1. new \in Nat
    BY <1>4
  <2>. HIDE DEF new
  <2>2. x.tab \in [1 .. MaxFd -> Nat]
    BY DEF KernelOk
  <2>. QED
    BY <1>2, <1>3, <2>1, <2>2
<1>7. "kind" \in DOMAIN Instance(kind) /\ Instance(kind).kind = kind
  BY DEF Instance
<1>8. KernelOk(y)
  <2>1. \A i \in DOMAIN y.inst : "kind" \in DOMAIN y.inst[i]
    BY <1>4, <1>5, <1>7 DEF KernelOk
  <2>2. \A n \in 1 .. MaxFd : y.tab[n] # 0 => y.tab[n] \in DOMAIN y.inst
    BY <1>4, <1>5, <1>6 DEF KernelOk
  <2>. QED
    BY <2>1, <2>2, <1>3, <1>5, <1>6 DEF KernelOk
<1>9. \A n \in 1 .. MaxFd : KindOf(y, y.tab[n]) = IF n = fd THEN kind ELSE KindOf(x, x.tab[n])
  <2>1. KindOf(y, y.tab[fd]) = kind
    BY <1>4, <1>5, <1>6, <1>7 DEF KindOf
  <2>2. \A n \in 1 .. MaxFd : n # fd => KindOf(y, y.tab[n]) = KindOf(x, x.tab[n])
    BY <1>4, <1>5, <1>6 DEF KindOf, KernelOk
  <2>. QED
    BY <2>1, <2>2
<1>10. OthersOpen(y)
  <2>. SUFFICES ASSUME NEW i \in DOMAIN y.inst, y.inst[i].kind = "other"
                PROVE  \E n \in DOMAIN y.tab : y.tab[n] = i
    BY DEF OthersOpen
  <2>1. CASE i = new
    BY <2>1, <1>2, <1>6
  <2>2. CASE i \in 1 .. Len(x.inst)
    <3>1. PICK n \in 1 .. MaxFd : x.tab[n] = i
      BY <2>2, <1>4, <1>5 DEF OthersOpen, KernelOk
    <3>2. n # fd
      BY <3>1, <2>2, <1>2, <1>4
    <3>. QED
      BY <3>1, <3>2, <1>6
  <2>. QED
    BY <2>1, <2>2, <1>4, <1>5
<1>. QED
  BY <1>2, <1>6, <1>8, <1>9, <1>10 DEF y, fd

\* What a step of the manager may do with the numbers.
NumbersStay == SameKinds(k, k') /\ UNCHANGED <<notifyFd, eventFd>>
NumbersClose ==
    \E x : SameKinds(k, x) /\ k' = Closed(Closed(x, notifyFd), eventFd) /\ notifyFd' = 0 /\ eventFd' = 0
NumbersOpen ==
    \/ notifyFd = 0 /\ InitNotify
    \/ /\ notifyFd = 0 /\ Free(k) # {}
       /\ k' = Opened(k, "inotify") /\ notifyFd' = NewFd(k) /\ eventFd' = 0
    \/ Free(k) # {} /\ k' = Opened(k, "other") /\ UNCHANGED <<notifyFd, eventFd>>

LEMMA StayHeld ==
    ASSUME FdsHeld, NumbersStay
    PROVE  FdsHeld' /\ \A n \in 0 .. MaxFd : InstanceOf(k', n) = InstanceOf(k, n)
<1>1. KernelOk(k') /\ k'.tab = k.tab
  BY DEF NumbersStay, SameKinds
<1>2. Own(k', notifyFd, eventFd)
  BY KindsHeld DEF FdsHeld, NumbersStay
<1>. QED
  BY <1>1, <1>2 DEF FdsHeld, NumbersStay, InstanceOf

LEMMA CloseHeld ==
    ASSUME FdsHeld, NumbersClose
    PROVE  FdsHeld'
<1>1. PICK x : SameKinds(k, x) /\ k' = Closed(Closed(x, notifyFd), eventFd) /\ notifyFd' = 0 /\ eventFd' = 0
  BY DEF NumbersClose
<1>2. KernelOk(x) /\ Own(x, notifyFd, eventFd)
  BY <1>1, KindsHeld DEF FdsHeld, SameKinds
<1>3. KernelOk(k') /\ Own(k', 0, 0)
  BY <1>1, <1>2, ClosesOwn DEF FdsHeld
<1>. QED
  BY <1>1, <1>3, NumbersAssumption DEF FdsHeld

\* Of two free numbers one is left when the first is taken.
LEMMA OneLeft ==
    ASSUME NEW x, KernelOk(x), Cardinality(Free(x)) > 1, NEW kind
    PROVE  Free(x) # {} /\ Free(Opened(x, kind)) # {}
<1>1. IsFiniteSet(Free(x))
  <2>1. IsFiniteSet(1 .. MaxFd) /\ Free(x) \subseteq 1 .. MaxFd
    BY FS_Interval, NumbersAssumption DEF Free
  <2>. QED
    BY <2>1, FS_Subset
<1>2. Free(x) # {}
  BY FS_EmptySet
<1>3. Free(x) \ {NewFd(x)} # {}
  <2>. SUFFICES ASSUME Free(x) \ {NewFd(x)} = {} PROVE FALSE
    OBVIOUS
  <2>1. Free(x) = {NewFd(x)}
    BY <1>2
  <2>2. Cardinality(Free(x)) = 1
    BY <2>1, FS_Singleton
  <2>. QED
    BY <2>2
<1>4. PICK n \in Free(x) : n # NewFd(x)
  BY <1>3
<1>5. Opened(x, kind).tab[n] = 0
  BY <1>4 DEF Free, Opened, KernelOk
<1>. QED
  BY <1>2, <1>4, <1>5 DEF Free

LEMMA OpenHeld ==
    ASSUME FdsHeld, NumbersOpen
    PROVE  FdsHeld' /\ (notifyFd # 0 => notifyFd' = notifyFd /\ InstanceOf(k', notifyFd) = InstanceOf(k, notifyFd))
<1>0. KernelOk(k) /\ OthersOpen(k) /\ MaxFd \in Nat
  BY NumbersAssumption DEF FdsHeld, Own
<1>1. ASSUME notifyFd = 0, InitNotify PROVE FdsHeld'
  <2>. DEFINE k1 == Opened(k, "inotify")
  <2>1. Free(k) # {} /\ Free(k1) # {}
    BY <1>0, <1>1, OneLeft DEF InitNotify
  <2>2. /\ NewFd(k) \in 1 .. MaxFd /\ KernelOk(k1) /\ OthersOpen(k1) /\ k1.tab[NewFd(k)] # 0
        /\ \A n \in 1 .. MaxFd : KindOf(k1, k1.tab[n]) = IF n = NewFd(k) THEN "inotify" ELSE KindOf(k, k.tab[n])
    <3>1. /\ NewFd(k) \in 1 .. MaxFd /\ KernelOk(k1) /\ OthersOpen(k1)
          /\ \A n \in 1 .. MaxFd : KindOf(k1, k1.tab[n]) = IF n = NewFd(k) THEN "inotify" ELSE KindOf(k, k.tab[n])
      BY <2>1, <1>0, OpensNew
    <3>. QED
      BY <3>1 DEF KindOf
  <2>. HIDE DEF k1
  <2>3. k' = Opened(k1, "event") /\ notifyFd' = NewFd(k) /\ eventFd' = NewFd(k1)
    BY <1>1 DEF InitNotify, k1
  <2>4. /\ NewFd(k1) \in 1 .. MaxFd /\ KernelOk(k') /\ OthersOpen(k') /\ k1.tab[NewFd(k1)] = 0
        /\ \A n \in 1 .. MaxFd : KindOf(k', k'.tab[n]) = IF n = NewFd(k1) THEN "event" ELSE KindOf(k1, k1.tab[n])
    BY <2>1, <2>2, <2>3, OpensNew
  <2>5. \A n \in 1 .. MaxFd : KindOf(k, k.tab[n]) # "inotify" /\ KindOf(k, k.tab[n]) # "event"
    BY <1>1 DEF FdsHeld, Own, NumbersOf
  <2>6. NumbersOf(k', "inotify") = {notifyFd'} /\ NumbersOf(k', "event") = {eventFd'}
    BY <2>2, <2>3, <2>4, <2>5 DEF NumbersOf
  <2>7. Own(k', notifyFd', eventFd')
    BY <2>2, <2>3, <2>4, <2>6 DEF Own
  <2>. QED
    BY <2>2, <2>3, <2>4, <2>7 DEF FdsHeld
<1>2. ASSUME notifyFd = 0, Free(k) # {}, k' = Opened(k, "inotify"), notifyFd' = NewFd(k), eventFd' = 0
      PROVE  FdsHeld'
  <2>1. /\ NewFd(k) \in 1 .. MaxFd /\ KernelOk(k') /\ OthersOpen(k')
        /\ \A n \in 1 .. MaxFd : KindOf(k', k'.tab[n]) = IF n = NewFd(k) THEN "inotify" ELSE KindOf(k, k.tab[n])
    BY <1>0, <1>2, OpensNew
  <2>2. \A n \in 1 .. MaxFd : KindOf(k, k.tab[n]) # "inotify" /\ KindOf(k, k.tab[n]) # "event"
    BY <1>2 DEF FdsHeld, Own, NumbersOf
  <2>3. NumbersOf(k', "inotify") = {notifyFd'} /\ NumbersOf(k', "event") = {}
    BY <1>2, <2>1, <2>2 DEF NumbersOf
  <2>4. Own(k', notifyFd', eventFd')
    BY <1>2, <2>1, <2>3 DEF Own
  <2>. QED
    BY <1>0, <1>2, <2>1, <2>4 DEF FdsHeld
<1>3. ASSUME Free(k) # {}, k' = Opened(k, "other"), UNCHANGED <<notifyFd, eventFd>>
      PROVE  FdsHeld' /\ (notifyFd # 0 => InstanceOf(k', notifyFd) = InstanceOf(k, notifyFd))
  <2>1. /\ NewFd(k) \in 1 .. MaxFd /\ KernelOk(k') /\ OthersOpen(k') /\ k.tab[NewFd(k)] = 0
        /\ \A n \in 1 .. MaxFd :
             /\ n # NewFd(k) => k'.tab[n] = k.tab[n]
             /\ KindOf(k', k'.tab[n]) = IF n = NewFd(k) THEN "other" ELSE KindOf(k, k.tab[n])
    BY <1>0, <1>3, OpensNew
  <2>2. KindOf(k, k.tab[NewFd(k)]) = "none"
    BY <2>1 DEF KindOf
  <2>3. NumbersOf(k', "inotify") = NumbersOf(k, "inotify") /\ NumbersOf(k', "event") = NumbersOf(k, "event")
    BY <2>1, <2>2 DEF NumbersOf
  <2>4. notifyFd # 0 => notifyFd # NewFd(k)
    <3>1. notifyFd # 0 => notifyFd \in NumbersOf(k, "inotify")
      BY DEF FdsHeld, Own
    <3>. QED
      BY <3>1, <2>2 DEF NumbersOf
  <2>5. Own(k', notifyFd', eventFd')
    BY <1>3, <2>1, <2>3 DEF Own, FdsHeld
  <2>. QED
    BY <1>3, <2>1, <2>4, <2>5 DEF FdsHeld, InstanceOf
<1>. QED
  BY <1>1, <1>2, <1>3 DEF NumbersOpen

-----------------------------------------------------------------------------
(* The polling threads.                                                    *)

\* The threads other than p are where they were.
OnlyOf(p) == PollersShape' /\ \A q \in Pollers : q # p => poller'[q] = poller[q]

LEMMA StepsGo ==
    ASSUME PollersShape, NEW p \in Pollers, NEW pc, Steps(p, pc)
    PROVE  OnlyOf(p) /\ poller'[p].pc = pc
<1>. DEFINE to == IF pc = "none" THEN NoPoller ELSE [poller[p] EXCEPT !.pc = pc, !.at = <<0, 0>>]
<1>1. DOMAIN to = PollerFields /\ to.pc = pc
  BY DEF PollersShape, PollerFields, NoPoller
<1>2. poller' = [poller EXCEPT ![p] = to]
  BY DEF Steps
<1>. HIDE DEF to
<1>. QED
  BY <1>1, <1>2 DEF OnlyOf, PollersShape

LEMMA SpawnedBegins ==
    ASSUME PollersShape, NEW w, poller' = Spawned(w)
    PROVE  PollersShape' /\ \A q \in Pollers : poller'[q] = poller[q] \/ poller'[q].pc \in Waiting
<1>. DEFINE to == [NoPoller EXCEPT !.pc = "begin", !.who = w]
            p == Min({q \in Pollers : poller[q].pc = "none"})
<1>1. DOMAIN to = PollerFields /\ to.pc = "begin"
  BY DEF PollerFields, NoPoller
<1>2. poller' = [poller EXCEPT ![p] = to]
  BY DEF Spawned
<1>. HIDE DEF to, p
<1>. QED
  BY <1>1, <1>2 DEF PollersShape, Waiting

\* A step that leaves the threads where they are, or begins or ends a waiting one.
LEMMA LoneStays ==
    ASSUME LoneReader, \A q \in Pollers : poller'[q] = poller[q] \/ poller'[q].pc \in Waiting,
           reading = TRUE => reading' = TRUE,
           notifyFd # 0 => notifyFd' = notifyFd /\ InstanceOf(k', notifyFd) = InstanceOf(k, notifyFd)
    PROVE  LoneReader'
<1>1. \A p, q \in Pollers : p # q => poller'[p].pc \in Waiting \/ poller'[q].pc \in Waiting
  BY DEF LoneReader
<1>2. \A p \in Pollers : poller'[p].pc \in ReadsOn => reading' = TRUE
  BY DEF LoneReader, Waiting, ReadsOn
<1>3. \A p \in Pollers : poller'[p].pc = "reading" => notifyFd' # 0 /\ InstanceOf(k', notifyFd') = poller'[p].at[2]
  BY DEF LoneReader, Waiting
<1>. QED
  BY <1>1, <1>2, <1>3 DEF LoneReader

\* While nobody reads the descriptors may go.
LEMMA LoneUnread ==
    ASSUME LoneReader, reading # TRUE, poller' = poller
    PROVE  LoneReader'
<1>1. \A p \in Pollers : poller[p].pc \notin ReadsOn
  BY DEF LoneReader
<1>. QED
  BY <1>1 DEF LoneReader, ReadsOn

\* A step of the one thread that polls: the others wait.
LEMMA LoneGoes ==
    ASSUME LoneReader, NEW p \in Pollers, poller[p].pc \notin Waiting, OnlyOf(p),
           poller'[p].pc \in ReadsOn => reading' = TRUE,
           poller'[p].pc = "reading" => notifyFd' # 0 /\ InstanceOf(k', notifyFd') = poller'[p].at[2]
    PROVE  LoneReader'
<1>1. \A q \in Pollers : q # p => poller'[q].pc \in Waiting
  BY DEF LoneReader, OnlyOf
<1>2. \A q \in Pollers : q # p => poller'[q].pc \notin ReadsOn /\ poller'[q].pc # "reading"
  BY <1>1 DEF Waiting, ReadsOn
<1>3. \A q, s \in Pollers : q # s => poller'[q].pc \in Waiting \/ poller'[s].pc \in Waiting
  BY <1>1
<1>. QED
  BY <1>2, <1>3 DEF LoneReader

\* A thread that begins to poll does so alone, or the two are marked.
LEMMA LoneBegins ==
    ASSUME LoneReader, NEW p \in Pollers, OnlyOf(p), poller[p].pc = "begin",
           poller'[p].pc = "run", \A q \in Pollers \ {p} : poller[q].pc \in Waiting
    PROVE  LoneReader'
<1>1. \A q \in Pollers : q # p => poller'[q].pc \in Waiting
  BY DEF OnlyOf
<1>2. \A q \in Pollers : poller'[q].pc \notin ReadsOn /\ poller'[q].pc # "reading"
  BY <1>1 DEF Waiting, ReadsOn
<1>3. \A q, s \in Pollers : q # s => poller'[q].pc \in Waiting \/ poller'[s].pc \in Waiting
  BY <1>1
<1>. QED
  BY <1>2, <1>3 DEF LoneReader

-----------------------------------------------------------------------------
(* The watchers' steps.                                                    *)

\* A step that reads nothing, ends no read and takes no descriptor away.
LEMMA KeepsInv ==
    ASSUME WatchInv, UNCHANGED <<plan, doubled, reading>>, NumbersStay \/ NumbersOpen, PollersShape',
           \A q \in Pollers : poller'[q] = poller[q] \/ poller'[q].pc \in Waiting
    PROVE  WatchInv'
<1>1. FdsHeld' /\ (notifyFd # 0 => notifyFd' = notifyFd /\ InstanceOf(k', notifyFd) = InstanceOf(k, notifyFd))
  <2>1. CASE NumbersStay
    <3>1. notifyFd' = notifyFd /\ notifyFd \in 0 .. MaxFd
      BY <2>1 DEF NumbersStay, WatchInv, FdsHeld
    <3>. QED
      BY <2>1, <3>1, StayHeld DEF WatchInv
  <2>2. CASE NumbersOpen
    BY <2>2, OpenHeld DEF WatchInv
  <2>. QED
    BY <2>1, <2>2
<1>2. LoneReader => LoneReader'
  BY <1>1, LoneStays
<1>. QED
  BY <1>1, <1>2 DEF WatchInv, Is

\* Cangjie has no such promise to keep: its descriptors are held all the same.
LEMMA CjInv ==
    ASSUME WatchInv, Is("cj"), UNCHANGED <<plan, doubled>>, NumbersStay \/ NumbersOpen \/ NumbersClose,
           PollersShape'
    PROVE  WatchInv'
<1>1. FdsHeld'
  BY StayHeld, OpenHeld, CloseHeld DEF WatchInv
<1>. QED
  BY <1>1 DEF WatchInv, Is

LEMMA ClosingInv ==
    ASSUME WatchInv, UNCHANGED <<plan, doubled, poller>>, NumbersClose, reading # TRUE
    PROVE  WatchInv'
<1>1. FdsHeld'
  BY CloseHeld DEF WatchInv
<1>2. LoneReader => LoneReader'
  BY LoneUnread
<1>. QED
  BY <1>1, <1>2 DEF WatchInv, Is, PollersShape

LEMMA PollingInv ==
    ASSUME WatchInv, NEW p \in Pollers, poller[p].pc \notin Waiting, OnlyOf(p), UNCHANGED <<plan, doubled>>,
           NumbersStay \/ NumbersClose,
           ~Is("cj") /\ LoneReader =>
             /\ poller'[p].pc \in ReadsOn => reading' = TRUE
             /\ poller'[p].pc = "reading" => notifyFd' # 0 /\ InstanceOf(k', notifyFd') = poller'[p].at[2]
    PROVE  WatchInv'
<1>1. FdsHeld'
  BY StayHeld, CloseHeld DEF WatchInv
<1>2. ~Is("cj") /\ LoneReader => LoneReader'
  BY LoneGoes
<1>. QED
  BY <1>1, <1>2 DEF WatchInv, Is, OnlyOf

LEMMA KernelStays ==
    ASSUME FdsHeld, k' = k, UNCHANGED <<notifyFd, eventFd>>
    PROVE  NumbersStay
BY WWriting DEF FdsHeld, NumbersStay

LEMMA SubscribesStays ==
    ASSUME FdsHeld, NEW w, NEW es, Subscribes(w, es) \/ NotifyToWatchNewEvents(w, es), UNCHANGED <<notifyFd, eventFd>>
    PROVE  NumbersStay
<1>1. k' = k \/ k' = AddWatch(k, notifyFd, FileOf(w), es)
  BY DEF Subscribes, NotifyToWatchNewEvents
<1>2. SameKinds(k, k') 
  BY <1>1, WAdding, WWriting DEF FdsHeld
<1>. QED
  BY <1>2 DEF NumbersStay

LEMMA PollersStay ==
    ASSUME PollersShape, poller' = poller
    PROVE  PollersShape' /\ \A q \in Pollers : poller'[q] = poller[q] \/ poller'[q].pc \in Waiting
BY DEF PollersShape

LEMMA CreatesInv ==
    ASSUME WatchInv, NEW w, CreateWatcher(w) \/ AniCreateWatcher(w) \/ CjCreateWatcher(w)
    PROVE  WatchInv'
<1>1. UNCHANGED <<plan, doubled, reading, poller>>
  BY DEF CreateWatcher, AniCreateWatcher, CoreCreateWatcher, CjCreateWatcher, Begins, flags
<1>2. NumbersStay \/ NumbersOpen
  <2>1. Initialises(w) \/ InitRefused \/ CjInitRefused
    BY DEF CreateWatcher, AniCreateWatcher, CoreCreateWatcher, CjCreateWatcher
  <2>2. CASE UNCHANGED <<k, notifyFd, eventFd>>
    BY <2>2, KernelStays DEF WatchInv
  <2>3. CASE ~UNCHANGED <<k, notifyFd, eventFd>>
    BY <2>1, <2>3 DEF Initialises, InitRefused, CjInitRefused, NumbersOpen
  <2>. QED
    BY <2>2, <2>3
<1>. QED
  BY <1>1, <1>2, KeepsInv, PollersStay DEF WatchInv

LEMMA StartsInv ==
    ASSUME WatchInv, NEW w, Start(w) \/ AniStart(w) \/ CjStart(w)
    PROVE  WatchInv'
<1>1. UNCHANGED <<plan, doubled, reading, notifyFd, eventFd>>
  BY DEF Start, AniStart, CjStart, CoreStartNotify, StartsLeave, flags
<1>2. poller' = poller \/ poller' = Spawned(w)
  BY DEF Start, AniStart, CjStart, CoreStartNotify, StartRefused
<1>3. k' = k \/ \E es : Subscribes(w, es)
  <2>1. ASSUME NEW seen, StartNotify(w, seen) \/ StartRefused(w, seen)
        PROVE  k' = k \/ \E es : Subscribes(w, es)
    BY <2>1 DEF StartNotify, StartRefused
  <2>. QED
    BY <2>1 DEF Start, AniStart, CjStart, CjStartNotify, CoreStartNotify
<1>4. NumbersStay
  BY <1>1, <1>3, KernelStays, SubscribesStays DEF WatchInv
<1>. QED
  BY <1>1, <1>2, <1>4, KeepsInv, PollersStay, SpawnedBegins DEF WatchInv

LEMMA StopsInv ==
    ASSUME WatchInv, NEW w, Stop(w) \/ AniStop(w)
    PROVE  WatchInv'
<1>1. UNCHANGED <<plan, doubled, reading, poller, notifyFd, eventFd>>
  BY DEF Stop, AniStop, StopNotify, CoreStopNotify, StopsLeave, flags
<1>2. k' = k \/ \E es : NotifyToWatchNewEvents(w, es)
  BY DEF Stop, AniStop, StopNotify, CoreStopNotify
<1>3. NumbersStay
  BY <1>1, <1>2, KernelStays, SubscribesStays DEF WatchInv
<1>. QED
  BY <1>1, <1>3, KeepsInv, PollersStay DEF WatchInv

LEMMA CjStopsInv ==
    ASSUME WatchInv, NEW w, CjStop(w)
    PROVE  WatchInv'
<1>1. Is("cj") /\ UNCHANGED <<plan, doubled, poller>>
  BY DEF CjStop, CjStopNotify, StopsLeave
<1>2. NumbersStay \/ NumbersClose
  <2>1. CASE UNCHANGED <<k, notifyFd, eventFd>>
    BY <2>1, KernelStays DEF WatchInv
  <2>2. CASE \E es : NotifyToWatchNewEvents(w, es) /\ UNCHANGED <<notifyFd, eventFd>>
    BY <2>2, SubscribesStays DEF WatchInv
  <2>3. CASE CjRemoves(w)
    <3>. DEFINE k1 == IF CanRemove(k, notifyFd, wd[w]) THEN RmWatch(k, notifyFd, wd[w]) ELSE k
    <3>1. SameKinds(k, k1)
      BY WRemoving, WWriting DEF WatchInv, FdsHeld
    <3>2. CjCloseNotifyFd(k1, Without(w))
      BY <2>3 DEF CjRemoves
    <3>. HIDE DEF k1
    <3>. QED
      BY <3>1, <3>2 DEF CjCloseNotifyFd, NumbersStay, NumbersClose
  <2>. QED
    BY <2>1, <2>2, <2>3 DEF CjStop, CjStopNotify
<1>. QED
  BY <1>1, <1>2, CjInv, PollersStay DEF WatchInv

LEMMA ProceedsInv ==
    ASSUME WatchInv, Added \/ CoreSubscribe \/ AsyncGetNotifyEvent \/ AssignThread \/ CoreShrink \/ RmWatchStep
    PROVE  WatchInv'
<1>1. UNCHANGED <<plan, doubled, reading, notifyFd, eventFd>>
  BY DEF Added, CoreSubscribe, AsyncGetNotifyEvent, AssignThread, CoreShrink, RmWatchStep, StartsLeave, StopsLeave, flags
<1>2. poller' = poller \/ \E w : poller' = Spawned(w)
  BY DEF Added, CoreSubscribe, AsyncGetNotifyEvent, AssignThread, CoreShrink, RmWatchStep, StopsLeave
<1>3. NumbersStay
  <2>1. CASE k' = k
    BY <1>1, <2>1, KernelStays DEF WatchInv
  <2>2. CASE CoreSubscribe \/ CoreShrink
    <3>1. k' = k \/ \E w, es : Subscribes(w, es) \/ NotifyToWatchNewEvents(w, es)
      BY <2>2 DEF CoreSubscribe, CoreShrink
    <3>. QED
      BY <1>1, <2>1, <3>1, SubscribesStays DEF WatchInv
  <2>3. CASE RmWatchStep
    <3>1. k' = k \/ k' = RmWatch(k, notifyFd, wd[js.w])
      BY <2>3 DEF RmWatchStep
    <3>2. SameKinds(k, k')
      BY <3>1, WRemoving, WWriting DEF WatchInv, FdsHeld
    <3>. QED
      BY <1>1, <3>2 DEF NumbersStay
  <2>. QED
    BY <2>1, <2>2, <2>3 DEF Added, AsyncGetNotifyEvent, AssignThread
<1>. QED
  BY <1>1, <1>2, <1>3, KeepsInv, PollersStay, SpawnedBegins DEF WatchInv

\* The two ways to close, once the lock is had.
LEMMA ClosesHow ==
    ASSUME FdsHeld, CloseNotifyFd \/ CoreCloseNotifyFd
    PROVE  NumbersStay \/ NumbersClose
<1>1. CASE UNCHANGED <<k, notifyFd, eventFd>>
  BY <1>1, KernelStays
<1>2. CASE Closes
  <2>1. SameKinds(k, k)
    BY WWriting DEF FdsHeld
  <2>. QED
    BY <1>2, <2>1 DEF Closes, NumbersClose
<1>3. CASE k' = Closed(Closed(WakeupThread, notifyFd), eventFd) /\ notifyFd' = 0 /\ eventFd' = 0
  <2>1. SameKinds(k, WakeupThread)
    BY WWriting DEF FdsHeld, WakeupThread
  <2>. QED
    BY <1>3, <2>1 DEF NumbersClose
<1>. QED
  BY <1>1, <1>2, <1>3 DEF CloseNotifyFd, CoreCloseNotifyFd, KeepsOpen

LEMMA StopClosesInv ==
    ASSUME WatchInv, StopCloses
    PROVE  WatchInv'
<1>1. UNCHANGED <<plan, doubled, poller, reading>>
  BY DEF StopCloses, StopsLeave, CloseNotifyFdLocked, CoreCloseNotifyFdLocked
<1>2. CASE reading = TRUE
  <2>1. UNCHANGED <<k, notifyFd, eventFd>>
    BY <1>2 DEF StopCloses, CloseNotifyFdLocked, CoreCloseNotifyFdLocked, KeepsOpen
  <2>2. NumbersStay
    BY <2>1, KernelStays DEF WatchInv
  <2>. QED
    BY <1>1, <2>2, KeepsInv, PollersStay DEF WatchInv
<1>3. CASE reading # TRUE
  <2>1. UNCHANGED <<k, notifyFd, eventFd>> \/ CloseNotifyFd \/ CoreCloseNotifyFd
    BY DEF StopCloses, CloseNotifyFdLocked, CoreCloseNotifyFdLocked, KeepsOpen
  <2>2. NumbersStay \/ NumbersClose
    BY <2>1, KernelStays, ClosesHow DEF WatchInv
  <2>3. CASE NumbersStay
    BY <1>1, <2>3, KeepsInv, PollersStay DEF WatchInv
  <2>4. CASE NumbersClose
    BY <1>1, <1>3, <2>4, ClosingInv
  <2>. QED
    BY <2>2, <2>3, <2>4
<1>. QED
  BY <1>2, <1>3

LEMMA BeginsPolling ==
    ASSUME WatchInv, NEW p \in Pollers, GetNotifyEvent(p)
    PROVE  WatchInv'
<1>. DEFINE pc == IF run THEN "none" ELSE "run"
            Two == ~run /\ \E q \in Pollers \ {p} : poller[q].pc \notin {"none", "begin"}
<1>1. poller[p].pc = "begin" /\ UNCHANGED <<plan, reading, k, notifyFd, eventFd>> /\ Steps(p, pc)
  BY DEF GetNotifyEvent, flags
<1>2. OnlyOf(p) /\ poller'[p].pc = pc
  BY <1>1, StepsGo DEF WatchInv
<1>3. doubled' = (doubled \/ Two)
  BY DEF GetNotifyEvent
<1>. HIDE DEF pc, Two
<1>4. doubled' \in BOOLEAN /\ (doubled' = FALSE => doubled = FALSE /\ ~Two)
  BY <1>3 DEF WatchInv
<1>5. FdsHeld' /\ \A n \in 0 .. MaxFd : InstanceOf(k', n) = InstanceOf(k, n)
  <2>1. NumbersStay
    BY <1>1, KernelStays DEF WatchInv
  <2>. QED
    BY <2>1, StayHeld DEF WatchInv
<1>6. ASSUME ~Is("cj"), doubled' = FALSE PROVE LoneReader'
  <2>1. LoneReader /\ ~Two
    BY <1>4, <1>6 DEF WatchInv
  <2>2. CASE run
    <3>1. pc = "none"
      BY <2>2 DEF pc
    <3>2. \A q \in Pollers : poller'[q] = poller[q] \/ poller'[q].pc \in Waiting
      BY <1>2, <3>1 DEF OnlyOf, Waiting
    <3>. QED
      BY <2>1, <3>2, <1>1, LoneStays
  <2>3. CASE ~run
    <3>1. pc = "run"
      BY <2>3 DEF pc
    <3>2. \A q \in Pollers \ {p} : poller[q].pc \in Waiting
      BY <2>1, <2>3 DEF Two, Waiting
    <3>. QED
      BY <2>1, <3>1, <3>2, <1>1, <1>2, LoneBegins
  <2>. QED
    BY <2>2, <2>3
<1>. QED
  BY <1>1, <1>2, <1>4, <1>5, <1>6 DEF WatchInv, OnlyOf, Is

\* The steps of a poll that hold no read.
LEMMA PollsInv ==
    ASSUME WatchInv, NEW p \in Pollers,
           \/ PollBegins(p) \/ PollEnters(p) \/ PollLoads(p) \/ PollReturns(p) \/ PollInvalid(p)
           \/ DestroyTaskThread(p) \/ ClearCache(p)
    PROVE  WatchInv'
<1>1. UNCHANGED <<plan, doubled, k, notifyFd, eventFd>>
  BY DEF PollBegins, PollEnters, PollLoads, PollReturns, PollInvalid, DestroyTaskThread, ClearCache, PollerLeaves
<1>2. poller[p].pc \in {"run", "loop", "load", "poll", "invalid", "destroy", "clear"}
  BY DEF PollBegins, PollEnters, PollLoads, PollReturns, PollInvalid, DestroyTaskThread, ClearCache
<1>3. OnlyOf(p) /\ (poller'[p].pc \in ReadsOn => Is("cj"))
  <2>0. PollersShape
    BY DEF WatchInv
  <2>1. CASE \E pc : Steps(p, pc) /\ (pc \in ReadsOn => Is("cj"))
    BY <2>0, <2>1, StepsGo
  <2>2. CASE PollLoads(p)
    BY <2>0, <2>2 DEF PollLoads, OnlyOf, PollersShape, PollerFields, ReadsOn
  <2>3. CASE PollEnters(p) /\ ~\E pc : Steps(p, pc) /\ (pc \in ReadsOn => Is("cj"))
    <3>1. poller' = [poller EXCEPT ![p].pc = "poll", ![p].at = <<InstanceOf(k, poller[p].fds[1]), InstanceOf(k, poller[p].fds[2])>>]
      BY <2>3 DEF PollEnters, Ended, ReadsOn
    <3>. QED
      BY <2>0, <3>1 DEF OnlyOf, PollersShape, PollerFields, ReadsOn
  <2>. QED
    BY <2>1, <2>2, <2>3 DEF PollBegins, PollReturns, PollInvalid, DestroyTaskThread, ClearCache, Ended, ReadsOn
<1>4. NumbersStay
  BY <1>1, KernelStays DEF WatchInv
<1>5. poller[p].pc \notin Waiting
  BY <1>2 DEF Waiting
<1>6. ~Is("cj") => poller'[p].pc \notin ReadsOn /\ poller'[p].pc # "reading"
  BY <1>3 DEF ReadsOn
<1>. QED
  BY <1>1, <1>3, <1>4, <1>5, <1>6, PollingInv

LEMMA CjBeginsPolling ==
    ASSUME WatchInv, NEW p \in Pollers, CjGetNotifyEvent(p)
    PROVE  WatchInv'
<1>1. Is("cj") /\ UNCHANGED <<plan, doubled, k, notifyFd, eventFd>> /\ Steps(p, "run")
  BY DEF CjGetNotifyEvent, PollerLeaves
<1>2. NumbersStay /\ PollersShape'
  BY <1>1, KernelStays, StepsGo DEF WatchInv, OnlyOf
<1>. QED
  BY <1>1, <1>2, CjInv

\* The steps of a read: it is announced, and what it reads stays open.
LEMMA ReadsInv ==
    ASSUME WatchInv, NEW p \in Pollers, ReadBegins(p) \/ ReadEnters(p)
    PROVE  WatchInv'
<1>1. UNCHANGED <<plan, doubled, k, notifyFd, eventFd>>
  BY DEF ReadBegins, ReadEnters, PollerLeaves
<1>2. NumbersStay /\ poller[p].pc \notin Waiting
  BY <1>1, KernelStays DEF WatchInv, ReadBegins, ReadEnters, Waiting
<1>3. CASE ReadBegins(p)
  <2>1. OnlyOf(p) /\ poller'[p].pc = IF closed THEN "loop" ELSE "read"
    BY <1>3, StepsGo DEF ReadBegins, WatchInv
  <2>2. poller'[p].pc \in ReadsOn => reading' = TRUE
    BY <1>3, <2>1 DEF ReadBegins, ReadsOn
  <2>. QED
    BY <1>1, <1>2, <2>1, <2>2, PollingInv
<1>4. CASE ReadEnters(p)
  <2>. DEFINE i == InstanceOf(k, notifyFd)
              good == KindOf(k, i) = "inotify"
  <2>1. poller' = [poller EXCEPT ![p].at = <<0, i>>, ![p].pc = IF good THEN "reading" ELSE "unlock"]
        /\ poller[p].pc = "read" /\ reading' = reading
    BY <1>4 DEF ReadEnters, flags
  <2>2. good => notifyFd # 0
    BY DEF InstanceOf, KindOf
  <2>. HIDE DEF i, good
  <2>3. OnlyOf(p) /\ poller'[p].pc = (IF good THEN "reading" ELSE "unlock") /\ poller'[p].at = <<0, i>>
    BY <2>1 DEF OnlyOf, WatchInv, PollersShape, PollerFields
  <2>4. LoneReader => reading' = TRUE
    BY <2>1 DEF LoneReader, ReadsOn
  <2>5. poller'[p].pc = "reading" => notifyFd' # 0 /\ InstanceOf(k', notifyFd') = poller'[p].at[2]
    BY <2>2, <2>3, <1>1 DEF i
  <2>. QED
    BY <1>1, <1>2, <2>3, <2>4, <2>5, PollingInv
<1>. QED
  BY <1>3, <1>4

LEMMA DeliversInv ==
    ASSUME WatchInv, NEW p \in Pollers,
           ReadReturns(p) \/ NotifyNext(p) \/ CoreNotifyFinds(p) \/ CoreNotifyEvent(p)
    PROVE  WatchInv'
<1>1. UNCHANGED <<plan, doubled, notifyFd, eventFd, reading>>
  BY DEF ReadReturns, NotifyNext, CoreNotifyFinds, CoreNotifyEvent, PollerLeaves, flags
<1>2. k' = k \/ k' = Emptied(k, poller[p].at[2])
  BY DEF ReadReturns, NotifyNext, CoreNotifyFinds, CoreNotifyEvent
<1>3. NumbersStay
  BY <1>1, <1>2, WWriting DEF WatchInv, FdsHeld, NumbersStay
<1>4. poller[p].pc \in {"reading", "notify", "call"}
  BY DEF ReadReturns, NotifyNext, CoreNotifyFinds, CoreNotifyEvent
<1>5. OnlyOf(p) /\ poller'[p].pc # "reading"
  <2>0. PollersShape
    BY DEF WatchInv
  <2>1. CASE ReadReturns(p)
    BY <2>0, <2>1 DEF ReadReturns, OnlyOf, PollersShape, PollerFields
  <2>2. CASE NotifyNext(p)
    BY <2>0, <2>2 DEF NotifyNext, OnlyOf, PollersShape, PollerFields
  <2>3. CASE CoreNotifyFinds(p)
    BY <2>0, <2>3 DEF CoreNotifyFinds, OnlyOf, PollersShape, PollerFields
  <2>4. CASE CoreNotifyEvent(p)
    BY <2>0, <2>4 DEF CoreNotifyEvent, OnlyOf, PollersShape, PollerFields
  <2>. QED
    BY <2>1, <2>2, <2>3, <2>4
<1>6. LoneReader => reading' = TRUE
  BY <1>1, <1>4 DEF LoneReader, ReadsOn
<1>7. poller[p].pc \notin Waiting
  BY <1>4 DEF Waiting
<1>. QED
  BY <1>1, <1>3, <1>5, <1>6, <1>7, PollingInv

LEMMA ReadEndsInv ==
    ASSUME WatchInv, NEW p \in Pollers, ReadEnds(p)
    PROVE  WatchInv'
<1>1. UNCHANGED <<plan, doubled>> /\ Steps(p, "loop") /\ poller[p].pc \notin Waiting
  BY DEF ReadEnds, Waiting
<1>2. OnlyOf(p) /\ poller'[p].pc = "loop"
  BY <1>1, StepsGo DEF WatchInv
<1>3. NumbersStay \/ NumbersClose
  <2>1. UNCHANGED <<k, notifyFd, eventFd>> \/ CloseNotifyFd \/ CoreCloseNotifyFd
    BY DEF ReadEnds, KeepsOpen, Is, WatchInv
  <2>. QED
    BY <2>1, KernelStays, ClosesHow DEF WatchInv
<1>. QED
  BY <1>1, <1>2, <1>3, PollingInv DEF ReadsOn

LEMMA WorldInv ==
    ASSUME WatchInv, OtherOpens \/ (\E f \in Files : FileGoes(f)) \/ \E f \in Files, b \in AllEvents : FileChanges(f, b)
    PROVE  WatchInv'
<1>1. UNCHANGED <<plan, doubled, reading, poller, notifyFd, eventFd>>
  BY DEF OtherOpens, FileGoes, FileChanges, flags
<1>2. NumbersStay \/ NumbersOpen
  <2>1. CASE OtherOpens
    BY <2>1 DEF OtherOpens, NumbersOpen
  <2>2. CASE \E f \in Files : FileGoes(f)
    BY <1>1, <2>2, WHappening DEF FileGoes, WatchInv, FdsHeld, NumbersStay
  <2>3. CASE \E f \in Files, b \in AllEvents : FileChanges(f, b)
    BY <1>1, <2>3, WHappening DEF FileChanges, WatchInv, FdsHeld, NumbersStay
  <2>. QED
    BY <2>1, <2>2, <2>3
<1>. QED
  BY <1>1, <1>2, KeepsInv, PollersStay DEF WatchInv

LEMMA WatchInitInv ==
    ASSUME NEW x \in Plans, InitWith(x)
    PROVE  WatchInv
<1>1. /\ plan = x /\ k = Kernel /\ notifyFd = 0 /\ eventFd = 0 /\ doubled = FALSE
      /\ poller = [p \in Pollers |-> NoPoller]
  BY DEF InitWith
<1>2. IsSeq(k.inst) /\ DOMAIN k.inst = {} /\ k.tab = [n \in 1 .. MaxFd |-> 0] /\ DOMAIN k = {"tab", "inst", "files"}
  <2>1. << >> \in Seq(Range(<< >>)) /\ DOMAIN << >> = {}
    OBVIOUS
  <2>. QED
    BY <2>1, <1>1 DEF Kernel, IsSeq
<1>3. KernelOk(k)
  BY <1>2 DEF KernelOk
<1>4. \A n \in 1 .. MaxFd : KindOf(k, k.tab[n]) = "none"
  BY <1>2 DEF KindOf
<1>5. FdsHeld
  BY <1>1, <1>2, <1>3, <1>4, NumbersAssumption DEF FdsHeld, Own, NumbersOf, OthersOpen
<1>6. PollersShape /\ LoneReader
  BY <1>1 DEF PollersShape, LoneReader, NoPoller, PollerFields, Waiting, ReadsOn
<1>. QED
  BY <1>1, <1>5, <1>6, PlansAssumption DEF WatchInv

LEMMA WatchNextInv ==
    ASSUME WatchInv, Next \/ UNCHANGED watchVars
    PROVE  WatchInv'
<1>1. CASE UNCHANGED watchVars
  BY <1>1 DEF watchVars, WatchInv, FdsHeld, PollersShape, LoneReader, Is
<1>2. ASSUME NEW w, Program(w) PROVE WatchInv'
  BY <1>2, CreatesInv, StartsInv, StopsInv, CjStopsInv DEF Program
<1>3. CASE Proceeds
  BY <1>3, ProceedsInv, StopClosesInv DEF Proceeds
<1>4. ASSUME NEW p \in Pollers, Polls(p) PROVE WatchInv'
  BY <1>4, BeginsPolling, CjBeginsPolling, PollsInv, ReadsInv, DeliversInv, ReadEndsInv DEF Polls
<1>. QED
  BY <1>1, <1>2, <1>3, <1>4, WorldInv DEF Next

LEMMA WatchInvHolds == ScenesSpec => []WatchInv
<1>1. ScenesInit => WatchInv
  <2>. SUFFICES ASSUME ScenesInit PROVE WatchInv
    OBVIOUS
  <2>1. \E x \in Plans : InitWith(x)
    <3>1. (CHOOSE x \in Plans : TRUE) \in Plans
      BY PlansAssumption
    <3>. QED
      BY <3>1 DEF ScenesInit, Init
  <2>. QED
    BY <2>1, WatchInitInv
<1>2. WatchInv /\ [ScenesNext]_scenesVars => WatchInv'
  <2>. SUFFICES ASSUME WatchInv, [ScenesNext]_scenesVars PROVE WatchInv'
    OBVIOUS
  <2>1. Next \/ UNCHANGED watchVars
    BY DEF ScenesNext, scenesVars
  <2>. QED
    BY <2>1, WatchNextInv
<1>. QED
  BY <1>1, <1>2, PTL DEF ScenesSpec, scenesVars

\* No watcher loses a descriptor, closes another part's or closes one under its
\* reader: for every binding, any number of watchers, threads and descriptors, any
\* plan, refusals and other openings included, the open inotify and event
\* descriptors are the two the manager knows (CloseNotifyFd, StartNotify), and what
\* a lone polling thread reads is still the instance in use (ReadNotifyEventLocked).
THEOREM WatchersFdsSafe == ScenesSpec => []NotifyFdsSafe
<1>1. WatchInv => NotifyFdsSafe
  <2>. SUFFICES ASSUME WatchInv PROVE NotifyFdsSafe
    OBVIOUS
  <2>1. NotifyFdsOwned
    BY DEF WatchInv, FdsHeld, Own, OthersOpen, NotifyFdsOwned
  <2>2. ~doubled => doubled = FALSE
    BY Zenon DEF WatchInv
  <2>3. NotClosedWhileRead
    BY <2>2 DEF WatchInv, LoneReader, NotClosedWhileRead
  <2>. QED
    BY <2>1, <2>3 DEF NotifyFdsSafe
<1>. QED
  BY <1>1, WatchInvHolds, PTL

-----------------------------------------------------------------------------
(* The theorems.                                                           *)

LEMMA CopyInitInv ==
    ASSUME NEW j \in CopyJobs, Copy!InitWith(j)
    PROVE  CopyInv
<1>1. /\ job = j /\ co = Copy!Shared /\ cc = Copy!Copying /\ ct = Copy!NoThread
      /\ size = job.old /\ need = FALSE /\ posted = << >>
      /\ \E f : ck = [Copy!Kernel EXCEPT !.files = f]
  BY DEF Copy!InitWith
<1>2. IsKernel(ck) /\ \A n \in 1 .. MaxFd : ck.tab[n] = 0
  BY <1>1 DEF Copy!Kernel, IsKernel
<1>3. /\ DOMAIN co = SharedFields
      /\ co.cbNotify = 0 /\ co.cbEvent = 0 /\ co.reading = FALSE /\ co.paths = {} /\ co.seen = << >>
      /\ co.progress = 0 /\ co.total = 0 /\ co.max = 0 /\ co.said = << >>
  BY <1>1 DEF Copy!Shared, SharedFields
<1>4. IsCopier(cc) /\ cc.pc = "call" /\ cc.at = 1 /\ cc.sent = 0 /\ cc.r = "ok" /\ cc.early = FALSE
  BY <1>1 DEF Copy!Copying, IsCopier, CopierFields
<1>5. DOMAIN ct = ThreadFields /\ ct.pc = "none"
  BY <1>1 DEF Copy!NoThread, ThreadFields
<1>6. CopyShapes
  BY <1>1, <1>2, <1>3, <1>4, <1>5, JobsAssumption DEF CopyShapes
<1>7. CopyPhases
  BY <1>4, <1>5 DEF CopyPhases, Beginning, AtMember, Ending, BeforeWatch
<1>8. FdsInv
  BY <1>2, <1>3, <1>4 DEF FdsInv, FdsKnown, FdsPhase, CbClosed, BeforeWatch
<1>9. WholeInv /\ CancelInv
  BY <1>4 DEF WholeInv, CancelInv, AtMember, Ending
<1>10. SUFFICES ASSUME Copy!Fresh PROVE SizesRight /\ Reports
  BY <1>6, <1>7, <1>8, <1>9 DEF CopyInv, ProgressInv
<1>11. SizesRight
  BY <1>1, <1>10 DEF SizesRight, Copy!Fresh
<1>12. SaidRight
  BY <1>3 DEF SaidRight
<1>13. PostedRight
  BY <1>1 DEF PostedRight
<1>14. TotalKnown
  BY <1>1, <1>3, <1>4, <1>5 DEF TotalKnown
<1>15. CountsRight
  BY <1>3, CountNone DEF CountsRight
<1>16. ProgressSums
  <2>. DEFINE S == Copy!FilesOf(job)
  <2>1. CountOf = [n \in S |-> 0]
    BY <1>3, CountNone DEF CountOf
  <2>2. \A n \in S : job.tree[n].len \in Nat
    BY <1>6, MembersAre DEF Copy!FilesOf
  <2>3. \A n \in S : CountOf[n] = 0 /\ CountOf[n] <= job.tree[n].len
    BY <2>1, <2>2
  <2>4. IsFiniteSet(S)
    BY <1>6, DirSizeIs
  <2>. HIDE DEF S
  <2>5. Sum(CountOf, S) = 0
    BY <2>3, <2>4, SumZero
  <2>. QED
    BY <1>3, <2>3, <2>5 DEF ProgressSums, S
<1>. QED
  BY <1>11, <1>12, <1>13, <1>14, <1>15, <1>16 DEF Reports

LEMMA CopyNextInv == CopyInv /\ (Copy!Next \/ UNCHANGED copyVars) => CopyInv'
<1>. SUFFICES ASSUME CopyInv, Copy!Next \/ UNCHANGED copyVars PROVE CopyInv'
  OBVIOUS
<1>. USE DEF CopyInv
<1>1. CASE Copy!Next
  <2>1. CopyPhases' /\ CopyShapes'
    BY <1>1, PhasesKept
  <2>2. FdsInv'
    BY <1>1, FdsNext
  <2>3. WholeInv'
    BY <1>1, WholeKept
  <2>4. CancelInv'
    BY <1>1, CancelKept
  <2>5. ProgressInv'
    BY <1>1, ProgressKept
  <2>. QED
    BY <2>1, <2>2, <2>3, <2>4, <2>5
<1>2. CASE UNCHANGED copyVars
  <2>1. UNCHANGED <<job, ck, co, cc, ct, size, need, posted>>
    BY <1>2 DEF copyVars
  <2>2. CopyShapes' /\ CopyPhases'
    BY <2>1 DEF CopyShapes, CopyPhases, IsKernel, IsCopier, Copy!Is
  <2>3. FdsInv'
    BY <2>1 DEF FdsInv, FdsKnown, FdsPhase, Leaks, CbClosed, Copy!Is, Copy!Refused
  <2>4. WholeInv' /\ CancelInv'
    BY <2>1 DEF WholeInv, Whole, CancelInv, Copy!Is, Copy!FilesOf
  <2>5. (Copy!Fresh' <=> Copy!Fresh) /\ (SizesRight => SizesRight')
    BY <2>1 DEF Copy!Fresh, SizesRight, Copy!FilesOf, Copy!Is, Copy!IsFile
  <2>6. QuietStep
    BY <2>1 DEF QuietStep
  <2>7. ProgressInv'
    BY <2>5, <2>6, QuietKeeps DEF ProgressInv
  <2>. QED
    BY <2>2, <2>3, <2>4, <2>7
<1>. QED
  BY <1>1, <1>2

\* What the invariant says of a call that has returned and of the reports.
LEMMA CopyInvMeans ==
    CopyInv => Copy!NoDescriptorLeft /\ Copy!CopiedAll /\ Copy!CancelHeeded /\ Copy!ProgressRight
<1>. SUFFICES ASSUME CopyInv
              PROVE  Copy!NoDescriptorLeft /\ Copy!CopiedAll /\ Copy!CancelHeeded /\ Copy!ProgressRight
  OBVIOUS
<1>. USE DEF CopyInv
<1>1. Copy!NoDescriptorLeft
  <2>1. DOMAIN ck.tab = 1 .. MaxFd /\ \A n \in 1 .. MaxFd : n # 0
    BY NumbersAssumption DEF CopyShapes, IsKernel
  <2>. QED
    BY <2>1 DEF Copy!NoDescriptorLeft, FdsInv, FdsKnown, FdsPhase, CbClosed, Leaks
<1>2. Copy!CopiedAll
  BY DEF Copy!CopiedAll, WholeInv, Whole, Copy!FilesOf
<1>3. Copy!CancelHeeded
  BY DEF Copy!CancelHeeded, CancelInv
<1>4. Copy!ProgressRight
  <2>. SUFFICES ASSUME Copy!Fresh
                PROVE  /\ \A n \in DOMAIN co.said :
                            /\ co.said[n][1] <= co.said[n][2]
                            /\ n > 1 => co.said[n - 1][1] <= co.said[n][1]
                       /\ (Copy!Over /\ cc.r = "ok" /\ job.listener) => Copy!Last(co.said)[1] = co.total
    BY DEF Copy!ProgressRight
  <2>1. Reports
    BY DEF ProgressInv
  <2>2. \A n \in DOMAIN co.said :
          /\ co.said[n][1] <= co.said[n][2]
          /\ n > 1 => co.said[n - 1][1] <= co.said[n][1]
    BY <2>1 DEF Reports, SaidRight
  <2>3. Copy!Over /\ cc.r = "ok" /\ job.listener => Told
    BY <2>1 DEF Copy!Over, Reports, TotalKnown
  <2>. QED
    BY <2>2, <2>3 DEF Told, Copy!Last
<1>. QED
  BY <1>1, <1>2, <1>3, <1>4

LEMMA RemoteInvMeans ==
    RemoteInv => Remote!NoTemporaryLeft /\ Remote!NoStrayReport /\ Remote!CancelEndsCopy
BY DEF RemoteInv, TemporaryMine, CallbackOff, CancelMine, Remote!NoTemporaryLeft,
   Remote!NoStrayReport, Remote!CancelEndsCopy, Remote!Returned

\* The invariant of both kinds of copies.
CopiesInv == CopyInv /\ RemoteInv

LEMMA CopiesInvHolds == ScenesSpec => []CopiesInv
<1>1. ScenesInit => CopiesInv
  <2>. SUFFICES ASSUME ScenesInit PROVE CopiesInv
    OBVIOUS
  <2>1. \E j \in CopyJobs : Copy!InitWith(j)
    <3>1. (CHOOSE j \in CopyJobs : TRUE) \in CopyJobs
      BY JobsAssumption
    <3>. QED
      BY <3>1 DEF ScenesInit, Copy!Init
  <2>2. \E x \in RemoteCalls : Remote!InitWith(x)
    <3>1. (CHOOSE x \in RemoteCalls : TRUE) \in RemoteCalls
      BY CallsAssumption
    <3>. QED
      BY <3>1 DEF ScenesInit, Remote!Init
  <2>. QED
    BY <2>1, <2>2, CopyInitInv, RemoteInitInv DEF CopiesInv
<1>2. CopiesInv /\ [ScenesNext]_scenesVars => CopiesInv'
  <2>. SUFFICES ASSUME CopiesInv, [ScenesNext]_scenesVars PROVE CopiesInv'
    OBVIOUS
  <2>1. Copy!Next \/ UNCHANGED copyVars
    BY DEF ScenesNext, scenesVars
  <2>2. Remote!Next \/ UNCHANGED remoteVars
    BY DEF ScenesNext, scenesVars
  <2>3. CopyInv'
    BY <2>1, CopyNextInv DEF CopiesInv
  <2>4. RemoteInv'
    BY <2>2, RemoteNextInv DEF CopiesInv
  <2>. QED
    BY <2>3, <2>4 DEF CopiesInv
<1>. QED
  BY <1>1, <1>2, PTL DEF ScenesSpec, scenesVars

\* A copy that returned has left nothing behind, for all jobs and calls: neither
\* thread leaves a descriptor to the other that nobody closes (CloseNotifyFdLocked
\* and ReadNotifyEventLocked), and the temporary directory of a remote copy goes
\* with the call, whoever ended it, unless the name in the sandbox was refused.
THEOREM NothingLeftBehind == ScenesSpec => []CopiesLeaveNothing
<1>1. CopiesInv => CopiesLeaveNothing
  BY CopyInvMeans, RemoteInvMeans DEF CopiesInv, CopiesLeaveNothing
<1>. QED
  BY <1>1, CopiesInvHolds, PTL

\* What the program is told of a copy is right, for trees of any size and files of
\* any length: the progress grows, never passes the total and ends there, success
\* means that every file is there in full, a cancelled copy does not succeed, and
\* a report that the service makes after the end is told by no thread.
THEOREM ToldRight == ScenesSpec => []ReportsRight
<1>1. CopiesInv => ReportsRight
  BY CopyInvMeans, RemoteInvMeans DEF CopiesInv, ReportsRight
<1>. QED
  BY <1>1, CopiesInvHolds, PTL

=============================================================================

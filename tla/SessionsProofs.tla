--------------------------- MODULE SessionsProofs ---------------------------
(***************************************************************************)
(* What the sessions of the native libraries promise, for any number of    *)
(* requests, calls, chunks and starts: every request of HyperAio and every *)
(* asynchronous call is accounted for (RequestsSettled), the streams go    *)
(* quiet after a Cancel (QuietAfterCancel), and both streams deliver what  *)
(* they were given (StreamsComplete).                                      *)
(***************************************************************************)
EXTENDS MCSessions, SequenceTheorems, SumLemmas

-----------------------------------------------------------------------------
(* HyperAio: a request is in one place at a time, and unanswered there.    *)

Distinct(s) == \A i, j \in DOMAIN s : s[i] = s[j] => i = j

HyperTypes ==
    /\ made \in 0 .. MaxReqs /\ count \in Nat
    /\ reqs \in Seq(Nat) /\ sq \in Seq(Nat) /\ cq \in Seq(Nat)
    /\ answers \in [Reqs -> 0 .. 2]
    /\ \A r \in DOMAIN cancels : r \in Nat /\ r <= made /\ cancels[r] # r

Places == ToSet(reqs) \cup ToSet(sq) \cup inflight \cup ToSet(cq)

OnePlace ==
    /\ Places \subseteq 1 .. made
    /\ Distinct(reqs) /\ Distinct(sq) /\ Distinct(cq)
    /\ ToSet(reqs) \cap (ToSet(sq) \cup inflight \cup ToSet(cq)) = {}
    /\ ToSet(sq) \cap (inflight \cup ToSet(cq)) = {}
    /\ inflight \cap ToSet(cq) = {}

Unanswered ==
    ~faulty => \A r \in Reqs : answers[r] <= 1 /\ (r \in Places \/ r > made => answers[r] = 0)

HyperControl ==
    /\ pc = "sqe" => reqs # <<>>
    /\ pc = "submit" => sq # <<>>
    /\ pc \in {"idle", "stop", "join"} => reqs = <<>>
    /\ initialized \/ destroyed \/ made = 0
    /\ pc \in {"stop", "join"} => destroyed

HyperInv == HyperTypes /\ OnePlace /\ Unanswered /\ HyperControl /\ NothingForgotten

-----------------------------------------------------------------------------
(* Asynchronous calls: where the context of a call is.                     *)

Under(i) == at # "idle" /\ this = i

Unborn(i) ==
    /\ form[i] = "none" /\ ~Under(i) /\ context[i] = "none" /\ work[i] = "none"
    /\ i \notin events /\ said[i] = "none" /\ aAnswers[i] = 0
Beginning(i) ==
    /\ Under(i) /\ at \in {"checkCallback", "checkPromise", "create", "queue"}
    /\ at \in {"create", "queue"} => aHeld
    /\ context[i] = (IF aHeld THEN "live" ELSE "none")
    /\ work[i] = (IF at = "queue" THEN "created" ELSE "none")
    /\ i \notin events /\ said[i] = "none" /\ aAnswers[i] = 0
Handing(i) ==
    /\ Under(i) /\ at = "transfer" /\ aHeld /\ context[i] = "live"
    /\ work[i] \in {"queued", "executed"}
    /\ i \notin events /\ said[i] = "none" /\ aAnswers[i] = 0
Refused(i) ==
    /\ Under(i) /\ at = "leave"
    /\ context[i] = (IF aHeld THEN "live" ELSE "none") /\ work[i] \in {"none", "created"}
    /\ said[i] = "failed" \/ (said[i] = "threw" /\ form[i] = "callback")
    /\ i \notin events /\ aAnswers[i] = 0
Accepted(i) ==
    /\ Under(i) => at = "leave" /\ ~aHeld
    /\ context[i] = "live" /\ work[i] \in {"queued", "executed"}
    /\ said[i] = "accepted" /\ i \notin events /\ aAnswers[i] = 0
Settled(i) ==
    /\ ~Under(i) /\ said[i] = "accepted" /\ i \notin events
    /\ \/ work[i] = "deleted" /\ context[i] = "freed" /\ aAnswers[i] = 1
       \/ work[i] = "stuck" /\ context[i] = "live" /\ aAnswers[i] = 0
Dropped(i) ==
    /\ ~Under(i) /\ work[i] \in {"none", "created"} /\ aAnswers[i] = 0
    /\ said[i] = "failed" \/ (said[i] = "threw" /\ form[i] = "callback")
    /\ \/ i \in events /\ context[i] = "live"
       \/ i \notin events /\ context[i] \in {"none", "freed"}
       \/ i \notin events /\ form[i] = "promise"  /\ context[i] = "live"

AsyncTypes ==
    /\ form \in [AsyncCalls -> {"none", "callback", "promise"}]
    /\ context \in [AsyncCalls -> {"none", "live", "freed", "misused"}]
    /\ work \in [AsyncCalls -> {"none", "created", "queued", "executed", "deleted", "stuck"}]
    /\ said \in [AsyncCalls -> {"none", "threw", "failed", "accepted"}]
    /\ aAnswers \in [AsyncCalls -> Nat]
    /\ at = "idle" => ~aHeld
    /\ at # "idle" => this \in AsyncCalls /\ form[this] # "none"
    /\ at = "checkCallback" => form[this] = "callback"
    /\ at = "checkPromise" => form[this] = "promise"

CallOk(i) ==
    /\ form[i] # "none" \/ Unborn(i)
    /\ \/ Unborn(i) \/ Beginning(i) \/ Handing(i) \/ Refused(i)
       \/ Accepted(i) \/ Settled(i) \/ Dropped(i)

AsyncInv == AsyncTypes /\ \A i \in AsyncCalls : CallOk(i)

-----------------------------------------------------------------------------
(* The streams: how many callbacks may still come of a call that looked at *)
(* the result before the Cancel.                                           *)

WriterQuiet ==
    /\ buf \in Seq(Nat) /\ wLate \in Nat /\ cancelled \in {"no", "yes", "stale"}
    /\ cancelled = "yes" \/ (cancelled = "no" /\ cpc \in {"reset", "state"}) => result = "cancel"
    /\ cancelled # "yes" => wLate = 0
    /\ wLate <= 2
    /\ wPc = "remainder" => wLate <= 1
    /\ wPc = "update round" /\ Len(buf) = BufSize => wLate <= 1
    /\ wPc = "finish round" => wLate <= 1 /\ (Len(buf) = BufSize => wLate = 0)

ReaderQuiet ==
    /\ rLate \in Nat
    /\ ~cancel => rLate = 0
    /\ rLate <= 1 /\ (rPc \in {"inflate", "handle"} => rLate = 0)

WriterTypes ==
    /\ wAvailIn \in Seq(Nat) /\ inside \in Seq(Nat) /\ wDelivered \in Seq(Nat)
    /\ given \in Seq(Nat) /\ left \in Seq(Nat)

Compressing == wPc \in {"update", "update round", "finish", "finish round", "remainder"}

\* An Update drops what an earlier session left, and Start leaves zlib empty.
WriterSession ==
    /\ left = <<>> \/ given = <<>>
    /\ wPc \in {"start state", "start result"} => inside = <<>> /\ buf = <<>>
    /\ wPc = "start result" \/ Compressing => state # "ended"

\* No call failed and no Cancel has touched the stream since Start.
Clean == ~wFailed /\ cpc = "idle" /\ cancelled = "no"

\* What was given is delivered, in the buffer, inside zlib or to be taken by it.
WriterFollows ==
    Clean =>
        /\ wPc \in {"idle", "push"} /\ state \in {"started", "canceled"} =>
            (wDelivered \o buf) \o inside = given /\ wAvailIn = left
        /\ wPc \in {"update", "update round"} => left = <<>>
        /\ Compressing => (wDelivered \o buf) \o (inside \o wAvailIn) = given \o left
        /\ wPc = "remainder" => inside = <<>> /\ wAvailIn = <<>>
        /\ wPc = "idle" /\ state = "ended" => wDelivered = given \o left

\* Where the bytes of the reader's stream are: those it has delivered, those in the
\* output block, and those still ahead (decoded and held back, in the input of this
\* Update, or not yet given).
ReaderTypes ==
    /\ todo \in Seq(Nat) /\ rAvailIn \in Seq(Nat)
    /\ held \in Nat /\ outLen \in Nat /\ rDelivered \in Nat /\ original \in Nat
Ahead == held + Read!Bytes(rAvailIn) + Read!Bytes(todo)
ReaderPlaces ==
    /\ rPc = "idle" /\ rRet = "ok" => rAvailIn = <<>> /\ rDelivered + Ahead = original
    /\ rPc \in {"check", "inflate"} => rDelivered + Ahead = original
    /\ rPc = "handle" =>
        /\ rDelivered + outLen + Ahead = original
        /\ streamEnd \/ outLen < BlockSize => rAvailIn = <<>>
ReaderFollows == ReaderTypes /\ ReaderPlaces

StreamInv ==
    WriterTypes /\ WriterSession /\ WriterQuiet /\ WriterFollows /\ ReaderQuiet /\ ReaderFollows
SessionsInv == HyperInv /\ AsyncInv /\ StreamInv

-----------------------------------------------------------------------------
(* The decompressing stream                                                *)

LEMMA ReaderInit == Read!Init => ReaderQuiet
BY DEF Read!Init, ReaderQuiet

LEMMA ReaderSame == ReaderQuiet /\ UNCHANGED rVars => ReaderQuiet'
BY DEF ReaderQuiet, rVars

LEMMA ReaderStep == ASSUME ReaderQuiet, Read!Next PROVE ReaderQuiet'
<1> USE DEF ReaderQuiet
<1>1. ASSUME NEW codes, Read!Start(codes) PROVE ReaderQuiet'
    BY <1>1 DEF Read!Start
<1>2. ASSUME NEW n, Read!Update(n) PROVE ReaderQuiet'
    BY <1>2 DEF Read!Update
<1>3. CASE Read!UpdateCheck
    BY <1>3 DEF Read!UpdateCheck, Read!Return
<1>4. CASE Read!Inflate
    BY <1>4 DEF Read!Inflate
<1>5. CASE Read!StreamReadHandle
    <2>1. rPc = "handle" /\ (rPc' = "idle" \/ rPc' = "check") /\ cancel' = cancel
        BY <1>5, Zenon DEF Read!StreamReadHandle, Read!Return
    <2>2. rLate = 0 /\ rLate' = IF cancel /\ rLate < 2 THEN rLate + 1 ELSE rLate
        BY <1>5, <2>1 DEF Read!StreamReadHandle
    <2> QED BY <2>1, <2>2
<1>6. CASE Read!End
    BY <1>6 DEF Read!End, Read!Return
<1>7. CASE Read!Cancel
    BY <1>7 DEF Read!Cancel
<1> QED BY <1>1, <1>2, <1>3, <1>4, <1>5, <1>6, <1>7 DEF Read!Next

-----------------------------------------------------------------------------
(* The compressing stream                                                  *)

LEMMA Sizes == BufSize \in Nat /\ BufSize # 0 /\ MaxChunk \in Nat
BY SessionsConstants

LEMMA WriterInit == Write!Init => WriterTypes /\ WriterSession /\ WriterQuiet /\ WriterFollows
<1> SUFFICES ASSUME Write!Init PROVE WriterTypes /\ WriterSession /\ WriterQuiet /\ WriterFollows
    OBVIOUS
<1>1. WriterTypes /\ WriterSession /\ WriterQuiet
    BY SessionsConstants DEF Write!Init, WriterTypes, WriterSession, WriterQuiet, Compressing
<1>2. WriterFollows
    BY DEF Write!Init, WriterFollows, Compressing
<1> QED BY <1>1, <1>2

LEMMA WriterSame ==
    ASSUME WriterTypes, WriterSession, WriterQuiet, WriterFollows, UNCHANGED wVars
    PROVE  WriterTypes' /\ WriterSession' /\ WriterQuiet' /\ WriterFollows'
<1>1. WriterTypes' /\ WriterSession'
    BY DEF WriterTypes, WriterSession, Compressing, wVars
<1>2. WriterQuiet'
    BY DEF WriterQuiet, wVars
<1>3. WriterFollows'
    BY DEF WriterFollows, Compressing, Clean, wVars
<1> QED BY <1>1, <1>2, <1>3

LEMMA LenIsNat == ASSUME NEW s \in Seq(Nat) PROVE Len(s) \in Nat
BY LenProperties

LEMMA Assoc ==
    ASSUME NEW a \in Seq(Nat), NEW b \in Seq(Nat), NEW c \in Seq(Nat)
    PROVE  (a \o b) \o c = a \o (b \o c)
BY ConcatAssociative, SMTT(40)

\* What deflate puts out and what it keeps is what it had.
LEMMA Split ==
    ASSUME NEW s \in Seq(Nat), NEW n \in 0 .. Len(s)
    PROVE  /\ SubSeq(s, 1, n) \in Seq(Nat) /\ SubSeq(s, n + 1, Len(s)) \in Seq(Nat)
           /\ Len(SubSeq(s, 1, n)) = n
           /\ SubSeq(s, 1, n) \o SubSeq(s, n + 1, Len(s)) = s
<1>1. Len(s) \in Nat
    BY LenProperties
<1>2. SubSeq(s, 1, n) \in Seq(Nat) /\ Len(SubSeq(s, 1, n)) = n
    <2>1. \A i \in 1 .. n : s[i] \in Nat
        BY <1>1, ElementOfSeq
    <2> QED BY <2>1, <1>1, SubSeqProperties
<1>3. SubSeq(s, n + 1, Len(s)) \in Seq(Nat)
    <2>1. \A i \in n + 1 .. Len(s) : s[i] \in Nat
        BY <1>1, ElementOfSeq
    <2> QED BY <2>1, <1>1, SubSeqProperties
<1>4. SubSeq(s, 1, n) \o SubSeq(s, n + 1, Len(s)) = SubSeq(s, 1, Len(s))
    <2>1. 1 \in 1 .. Len(s) + 1 /\ n \in 1 - 1 .. Len(s) /\ Len(s) \in n .. Len(s)
        BY <1>1
    <2> QED BY <2>1, ConcatAdjacentSubSeq
<1>5. SubSeq(s, 1, Len(s)) = s
    BY SubSeqFull
<1> QED BY <1>2, <1>3, <1>4, <1>5

LEMMA DeflateEffect ==
    ASSUME NEW finish \in BOOLEAN, Write!Deflate(finish), WriterTypes, buf \in Seq(Nat)
    PROVE  /\ buf' \in Seq(Nat) /\ inside' \in Seq(Nat) /\ wAvailIn' \in Seq(Nat)
           /\ buf' \o (inside' \o wAvailIn') = buf \o (inside \o wAvailIn)
           /\ finished' => finish /\ inside' = <<>> /\ wAvailIn' = <<>>
<1>1. PICK k \in 0 .. Len(wAvailIn), n \in 0 .. (BufSize - Len(buf)) :
        LET all == inside \o SubSeq(wAvailIn, 1, k) IN
        /\ n <= Len(all)
        /\ buf' = buf \o SubSeq(all, 1, n)
        /\ inside' = SubSeq(all, n + 1, Len(all))
        /\ wAvailIn' = SubSeq(wAvailIn, k + 1, Len(wAvailIn))
        /\ finished' => finish /\ k = Len(wAvailIn) /\ n = Len(all)
    BY Zenon DEF Write!Deflate
<1>2. wAvailIn \in Seq(Nat) /\ inside \in Seq(Nat)
    BY DEF WriterTypes
<1> DEFINE t == SubSeq(wAvailIn, 1, k)
           r == SubSeq(wAvailIn, k + 1, Len(wAvailIn))
<1>3. t \in Seq(Nat) /\ r \in Seq(Nat) /\ t \o r = wAvailIn /\ wAvailIn' = r
    BY <1>1, <1>2, Split
<1> DEFINE all == inside \o t
           p == SubSeq(all, 1, n)
           q == SubSeq(all, n + 1, Len(all))
<1>4. all \in Seq(Nat)
    BY <1>2, <1>3, ConcatProperties
<1>5. /\ n <= Len(all) /\ buf' = buf \o p /\ inside' = q
      /\ finished' => finish /\ k = Len(wAvailIn) /\ n = Len(all)
    BY <1>1, Zenon
<1> HIDE DEF t, r, all
<1>6. n \in 0 .. Len(all) /\ Len(all) \in Nat /\ Len(wAvailIn) \in Nat
    BY <1>2, <1>4, <1>5, LenProperties, SessionsConstants
<1>7. p \in Seq(Nat) /\ q \in Seq(Nat) /\ p \o q = all
    BY <1>4, <1>6, Split
<1> HIDE DEF p, q
<1>8. buf \o p \in Seq(Nat)
    BY <1>7, ConcatProperties
<1>9. (buf \o p) \o (q \o r) = buf \o (inside \o wAvailIn)
    <2>1. (buf \o p) \o (q \o r) = buf \o ((p \o q) \o r)
        <3>1. p \in Seq(Nat) /\ q \in Seq(Nat) /\ r \in Seq(Nat)
            BY <1>3, <1>7
        <3> DEFINE u == q \o r
        <3>2. u \in Seq(Nat)
            BY <3>1, ConcatProperties
        <3> HIDE DEF u
        <3>3. (buf \o p) \o u = buf \o (p \o u)
            BY <3>1, <3>2, Assoc, ZenonT(40)
        <3>4. p \o (q \o r) = (p \o q) \o r
            BY <3>1, Assoc, ZenonT(40)
        <3> QED BY <3>3, <3>4, Zenon DEF u
    <2>2. (inside \o t) \o r = inside \o (t \o r)
        <3>1. inside \in Seq(Nat) /\ t \in Seq(Nat) /\ r \in Seq(Nat)
            BY <1>2, <1>3
        <3> QED BY <3>1, Assoc, ZenonT(40)
    <2> QED BY <2>1, <2>2, <1>3, <1>7, Zenon DEF all
<1>10. ASSUME finished' PROVE finish /\ inside' = <<>> /\ wAvailIn' = <<>>
    <2>1. finish /\ k = Len(wAvailIn) /\ n = Len(all)
        BY <1>5, <1>10, Zenon
    <2>2. inside' = <<>>
        BY <2>1, <1>5, <1>6, SubSeqEmpty DEF q
    <2>3. wAvailIn' = <<>>
        BY <2>1, <1>3, <1>6, SubSeqEmpty DEF r
    <2> QED BY <2>1, <2>2, <2>3
<1> QED BY <1>3, <1>5, <1>7, <1>8, <1>9, <1>10, Zenon

LEMMA WriterTypesStep ==
    ASSUME WriterTypes, buf \in Seq(Nat), Write!Next PROVE WriterTypes' /\ buf' \in Seq(Nat)
<1> USE DEF WriterTypes
<1>1. CASE Write!Start
    BY <1>1 DEF Write!Start
<1>2. CASE Write!StartCancels
    BY <1>2, EmptySeq DEF Write!StartCancels, Write!Reset
<1>3. CASE Write!StartCanceled
    BY <1>3 DEF Write!StartCanceled
<1>4. CASE Write!StartResets
    BY <1>4, EmptySeq DEF Write!StartResets, Write!Reset
<1>5. CASE Write!StartState
    BY <1>5 DEF Write!StartState
<1>6. CASE Write!StartResult
    BY <1>6, EmptySeq DEF Write!StartResult
<1>7. CASE Write!Update
    BY <1>7 DEF Write!Update
<1>8. ASSUME NEW n \in 0 .. MaxChunk, Write!PushDataSequential(n) PROVE WriterTypes' /\ buf' \in Seq(Nat)
    <2>1. UNCHANGED <<inside, buf, wDelivered>>
        BY <1>8 DEF Write!PushDataSequential
    <2>2. CASE UNCHANGED <<wAvailIn, given, left>>
        BY <2>1, <2>2
    <2>3. ASSUME NEW data, data = [i \in 1 .. n |-> Len(given) + i],
                 wAvailIn' = data, given' = given \o data, left' = <<>>
          PROVE  wAvailIn' \in Seq(Nat) /\ given' \in Seq(Nat) /\ left' \in Seq(Nat)
        <3>0. Len(given) \in Nat
            BY LenIsNat
        <3>1. Len(given) \in Nat /\ n \in Nat
            BY <3>0, Sizes
        <3>2. data \in [1 .. n -> Nat]
            BY <2>3, <3>1
        <3>3. data \in Seq(Nat)
            BY <3>1, <3>2, SeqDef
        <3> QED BY <2>3, <3>3, ConcatProperties, EmptySeq
    <2> QED BY <1>8, <2>1, <2>2, <2>3 DEF Write!PushDataSequential
<1>9. CASE Write!End
    BY <1>9 DEF Write!End
<1>10. CASE Write!FlushCheck
    BY <1>10 DEF Write!FlushCheck
<1>11. CASE Write!FlushBuffer
    <2>1. UNCHANGED <<wAvailIn, inside, given, left>> /\
          (UNCHANGED <<wDelivered, buf>> \/ (wDelivered' = wDelivered \o buf /\ buf' = <<>>))
        BY <1>11, Zenon DEF Write!FlushBuffer
    <2>2. wDelivered \o buf \in Seq(Nat) /\ <<>> \in Seq(Nat)
        BY ConcatProperties, EmptySeq
    <2> QED BY <2>1, <2>2
<1>12. CASE Write!FlushInternalData
    BY <1>12, DeflateEffect DEF Write!FlushInternalData
<1>13. CASE Write!DeflateFails
    BY <1>13 DEF Write!DeflateFails
<1>14. CASE Write!EndRemainder
    <2>1. UNCHANGED <<wAvailIn, inside, given, left, buf>>
          /\ (wDelivered' = wDelivered \/ wDelivered' = wDelivered \o buf)
        BY <1>14, Zenon DEF Write!EndRemainder
    <2>2. wDelivered \o buf \in Seq(Nat)
        BY ConcatProperties
    <2> QED BY <2>1, <2>2
<1>15. CASE Write!CancelBegin
    BY <1>15 DEF Write!CancelBegin
<1>16. CASE Write!CancelResult
    BY <1>16 DEF Write!CancelResult
<1>17. CASE Write!CancelReset
    BY <1>17, EmptySeq DEF Write!CancelReset, Write!Reset
<1>18. CASE Write!CancelReturns
    BY <1>18 DEF Write!CancelReturns
<1> QED BY <1>1, <1>2, <1>3, <1>4, <1>5, <1>6, <1>7, <1>8, <1>9, <1>10, <1>11, <1>12, <1>13, <1>14,
           <1>15, <1>16, <1>17, <1>18 DEF Write!Next

LEMMA WriterSessionStep == ASSUME WriterSession, Write!Next PROVE WriterSession'
<1> USE DEF WriterSession, Compressing
<1>1. CASE Write!Start
    BY <1>1 DEF Write!Start
<1>2. CASE Write!StartCancels
    BY <1>2 DEF Write!StartCancels
<1>3. CASE Write!StartCanceled
    BY <1>3 DEF Write!StartCanceled
<1>4. CASE Write!StartResets
    BY <1>4 DEF Write!StartResets, Write!Reset, Write!Return
<1>5. CASE Write!StartState
    BY <1>5 DEF Write!StartState
<1>6. CASE Write!StartResult
    BY <1>6 DEF Write!StartResult
<1>7. CASE Write!Update
    BY <1>7 DEF Write!Update, Write!Return
<1>8. ASSUME NEW n \in 0 .. MaxChunk, Write!PushDataSequential(n) PROVE WriterSession'
    <2>1. /\ wPc' = "idle" \/ (wPc' = "update" /\ state = "started")
          /\ left' = <<>> \/ UNCHANGED <<left, given>>
          /\ state' = state
        BY <1>8, Zenon DEF Write!PushDataSequential, Write!Return
    <2> QED BY <2>1
<1>9. CASE Write!End
    BY <1>9 DEF Write!End, Write!Return
<1>10. CASE Write!FlushCheck
    BY <1>10 DEF Write!FlushCheck, Write!Return
<1>11. CASE Write!FlushBuffer
    <2>1. /\ wPc \in {"update round", "finish round"} /\ wPc' \in {"idle", "update round", "finish round"}
          /\ UNCHANGED <<left, given, state>>
        BY <1>11, Zenon DEF Write!FlushBuffer, Write!InRound, Write!Return
    <2> QED BY <2>1
<1>12. CASE Write!FlushInternalData
    <2>1. /\ wPc \in {"update round", "finish round"} /\ wPc' \in {"idle", "remainder", "finish", "update"}
          /\ UNCHANGED <<left, given, state>>
        BY <1>12 DEF Write!FlushInternalData, Write!Return, Write!InRound
    <2> QED BY <2>1
<1>13. CASE Write!DeflateFails
    BY <1>13 DEF Write!DeflateFails, Write!Return
<1>14. CASE Write!EndRemainder
    <2>1. wPc' = "idle" /\ UNCHANGED <<left, given>>
        BY <1>14, Zenon DEF Write!EndRemainder, Write!Return
    <2> QED BY <2>1
<1>15. CASE Write!CancelBegin
    BY <1>15 DEF Write!CancelBegin
<1>16. CASE Write!CancelResult
    BY <1>16 DEF Write!CancelResult
<1>17. CASE Write!CancelReset
    BY <1>17 DEF Write!CancelReset, Write!Reset
<1>18. CASE Write!CancelReturns
    BY <1>18 DEF Write!CancelReturns
<1> QED BY <1>1, <1>2, <1>3, <1>4, <1>5, <1>6, <1>7, <1>8, <1>9, <1>10, <1>11, <1>12, <1>13, <1>14,
           <1>15, <1>16, <1>17, <1>18 DEF Write!Next

LEMMA WriterQuietStep == ASSUME WriterTypes, WriterQuiet, Write!Next PROVE WriterQuiet'
<1>0. buf' \in Seq(Nat)
    BY WriterTypesStep DEF WriterQuiet
<1> USE <1>0 DEF WriterQuiet
<1>1. CASE Write!Start
    BY <1>1 DEF Write!Start
<1>2. CASE Write!StartCancels
    <2>1. /\ UNCHANGED <<cpc, cancelled, wLate, buf>> /\ wPc' \in {"start canceled", "start reset"}
          /\ result' \in {result, "cancel"}
        BY <1>2, Zenon DEF Write!StartCancels
    <2> QED BY <2>1
<1>3. CASE Write!StartCanceled
    BY <1>3 DEF Write!StartCanceled
<1>4. CASE Write!StartResets
    <2>1. UNCHANGED <<result, cpc, cancelled, wLate>> /\ wPc' \in {"idle", "start state"}
        BY <1>4, Zenon DEF Write!StartResets, Write!Return
    <2> QED BY <2>1
<1>5. CASE Write!StartState
    BY <1>5 DEF Write!StartState
<1>6. CASE Write!StartResult
    <2>1. /\ wPc' = "idle" /\ wLate' = 0 /\ cpc' = cpc
          /\ cancelled' = IF cpc = "idle" THEN "no" ELSE "stale"
        BY <1>6 DEF Write!StartResult
    <2>2. cancelled' \in {"no", "stale"} /\ (cancelled' = "no" => cpc' = "idle")
        BY <2>1, Zenon
    <2> HIDE DEF WriterQuiet
    <2>3. wLate' \in Nat /\ wLate' <= 2 /\ wLate' <= 1
        BY <2>1
    <2> QED BY <1>0, <2>1, <2>2, <2>3 DEF WriterQuiet
<1>7. CASE Write!Update
    BY <1>7 DEF Write!Update, Write!Return
<1>8. ASSUME NEW n \in 0 .. MaxChunk, Write!PushDataSequential(n) PROVE WriterQuiet'
    <2>1. UNCHANGED <<result, cpc, cancelled, wLate, buf>> /\ wPc' \in {"idle", "update"}
        BY <1>8, Zenon DEF Write!PushDataSequential, Write!Return
    <2> QED BY <2>1
<1>9. CASE Write!End
    BY <1>9 DEF Write!End, Write!Return
<1>10. CASE Write!FlushCheck
    <2>1. UNCHANGED <<result, cpc, cancelled, wLate, buf>>
        BY <1>10 DEF Write!FlushCheck
    <2>2. CASE result # "ok"
        <3>1. wPc' = "idle"
            BY <1>10, <2>2, Zenon DEF Write!FlushCheck, Write!Return
        <3> QED BY <2>1, <3>1
    <2>3. CASE result = "ok"
        <3>1. wLate = 0
            BY <2>3
        <3> QED BY <2>1, <2>3, <3>1
    <2> QED BY <2>2, <2>3
<1>11. CASE Write!FlushBuffer
    <2>1. UNCHANGED <<result, cpc, cancelled>> /\ Len(buf) = BufSize
        BY <1>11 DEF Write!FlushBuffer
    <2>2. wPc \in {"update round", "finish round"}
        BY <1>11 DEF Write!FlushBuffer, Write!InRound
    <2>3. wLate <= 1 /\ (wPc = "finish round" => wLate = 0)
        BY <2>1, <2>2, Zenon
    <2>4. wLate' = wLate \/ (cancelled = "yes" /\ wLate' = wLate + 1)
        BY <1>11, Zenon DEF Write!FlushBuffer, Write!Called
    <2>5. wLate' \in Nat /\ wLate' <= 2 /\ (cancelled' # "yes" => wLate' = 0)
          /\ (wPc = "finish round" => wLate' <= 1)
        <3>1. wLate \in Nat /\ wLate <= 1
            BY <2>3
        <3>2. wLate' = wLate \/ wLate' = wLate + 1
            BY <2>4, Zenon
        <3>3. (cancelled # "yes" => wLate = 0) /\ cancelled' = cancelled
            BY <2>1, Zenon
        <3>4. (cancelled' # "yes" => wLate' = 0)
            BY <3>3, <2>4, Zenon
        <3> HIDE DEF WriterQuiet
        <3>5. wLate' \in Nat /\ wLate' <= 2 /\ (wLate = 0 => wLate' <= 1)
            BY <3>1, <3>2
        <3> QED BY <3>4, <3>5, <2>3, Zenon
    <2>6. /\ cancelled' = "yes" \/ (cancelled' = "no" /\ cpc' \in {"reset", "state"}) => result' = "cancel"
          /\ cancelled' \in {"no", "yes", "stale"}
        BY <2>1
    <2>7. CASE wPc' = wPc /\ buf' = <<>>
        <3>1. Len(buf') # BufSize
            BY <2>7, Sizes, EmptySeq
        <3>2. wPc' # "remainder" /\ (wPc' = "finish round" => wLate' <= 1)
            BY <2>2, <2>5, <2>7
        <3> QED BY <2>5, <2>6, <3>1, <3>2, Zenon
    <2>8. CASE wPc' = "idle"
        BY <2>5, <2>6, <2>8, Zenon
    <2> QED BY <1>11, <2>7, <2>8, Zenon DEF Write!FlushBuffer, Write!Return
<1>12. CASE Write!FlushInternalData
    <2>1. /\ UNCHANGED <<result, cpc, cancelled, wLate>>
          /\ wPc' \in {"idle", "remainder", "finish", "update"}
          /\ wPc' = "remainder" => wPc = "finish round"
        BY <1>12 DEF Write!FlushInternalData, Write!Return, Write!InRound, Write!LoopDone
    <2> QED BY <2>1
<1>13. CASE Write!DeflateFails
    BY <1>13 DEF Write!DeflateFails, Write!Return
<1>14. CASE Write!EndRemainder
    <2>1. /\ UNCHANGED <<result, cpc, cancelled, buf>>
          /\ wLate' = IF cancelled = "yes" /\ wLate < 3 THEN wLate + 1 ELSE wLate
          /\ wPc = "remainder" /\ wPc' = "idle"
        BY <1>14, Zenon DEF Write!EndRemainder, Write!Called, Write!Return
    <2> QED BY <2>1
<1>15. CASE Write!CancelBegin
    BY <1>15 DEF Write!CancelBegin
<1>16. CASE Write!CancelResult
    BY <1>16 DEF Write!CancelResult
<1>17. CASE Write!CancelReset
    <2>1. UNCHANGED <<result, cancelled, buf, wLate, wPc>> /\ cpc = "reset" /\ cpc' = "state"
        BY <1>17 DEF Write!CancelReset
    <2> QED BY <2>1
<1>18. CASE Write!CancelReturns
    <2>1. /\ UNCHANGED <<result, buf, wLate, wPc>> /\ cpc = "state" /\ cpc' = "idle"
          /\ cancelled' = IF cancelled = "stale" THEN "stale" ELSE "yes"
        BY <1>18 DEF Write!CancelReturns
    <2>2. cancelled \in {"no", "yes", "stale"}
        OBVIOUS
    <2> QED BY <2>1, <2>2
<1> QED BY <1>1, <1>2, <1>3, <1>4, <1>5, <1>6, <1>7, <1>8, <1>9, <1>10, <1>11, <1>12, <1>13, <1>14,
           <1>15, <1>16, <1>17, <1>18 DEF Write!Next

\* The parts in their order, and what is left of them when some are empty.
LEMMA Parts ==
    ASSUME NEW a \in Seq(Nat), NEW b \in Seq(Nat), NEW c \in Seq(Nat), NEW d \in Seq(Nat)
    PROVE  /\ (a \o b) \o (c \o d) \in Seq(Nat)
           /\ a \o b \in Seq(Nat) /\ c \o d \in Seq(Nat)
           /\ a \o <<>> = a /\ <<>> \o a = a
BY ConcatProperties, ConcatEmptySeq

LEMMA WriterFollowsStep ==
    ASSUME WriterTypes, buf \in Seq(Nat), WriterSession, WriterFollows, Write!Next PROVE WriterFollows'
<1>0. /\ wAvailIn \in Seq(Nat) /\ inside \in Seq(Nat) /\ wDelivered \in Seq(Nat)
      /\ given \in Seq(Nat) /\ left \in Seq(Nat)
    BY DEF WriterTypes
<1> DEFINE Kept == (wDelivered \o buf) \o (inside \o wAvailIn)
<1> SUFFICES ASSUME Clean' PROVE WriterFollows'
    BY DEF WriterFollows
<1>1. CASE Write!Start
    <2>1. wPc' \in {"start cancel", "start reset"}
        BY <1>1 DEF Write!Start
    <2> QED BY <2>1 DEF WriterFollows, Compressing
<1>2. CASE Write!StartCancels
    <2>1. wPc' \in {"start canceled", "start reset"}
        BY <1>2, Zenon DEF Write!StartCancels
    <2> QED BY <2>1 DEF WriterFollows, Compressing
<1>3. CASE Write!StartCanceled
    BY <1>3 DEF Write!StartCanceled, WriterFollows, Compressing
<1>4. CASE Write!StartResets
    <2>1. wPc' = "start state"
        BY <1>4, Zenon DEF Write!StartResets, Write!Return, Clean
    <2> QED BY <2>1 DEF WriterFollows, Compressing
<1>5. CASE Write!StartState
    BY <1>5 DEF Write!StartState, WriterFollows, Compressing
<1>6. CASE Write!StartResult
    <2>1. /\ wPc = "start result" /\ wPc' = "idle" /\ wDelivered' = <<>> /\ given' = <<>>
          /\ UNCHANGED <<state, buf, inside, wAvailIn>> /\ left' = wAvailIn
        BY <1>6 DEF Write!StartResult
    <2>2. inside = <<>> /\ buf = <<>> /\ state # "ended"
        BY <2>1 DEF WriterSession
    <2>3. (<<>> \o <<>>) \o <<>> = <<>>
        BY Parts, EmptySeq
    <2>4. (wDelivered' \o buf') \o inside' = given' /\ wAvailIn' = left' /\ state' # "ended"
        BY <2>1, <2>2, <2>3, Zenon
    <2> QED BY <2>1, <2>4 DEF WriterFollows, Compressing
<1>7. CASE Write!Update
    <2>1. UNCHANGED <<state, inside, buf, wDelivered, wAvailIn, given, left, cpc, cancelled>> /\ wPc = "idle"
        BY <1>7 DEF Write!Update
    <2>2. wPc' = "push" /\ wFailed' = wFailed
        BY <1>7, Zenon DEF Write!Update, Write!Return, Clean
    <2>3. Clean
        BY <2>1, <2>2 DEF Clean
    <2> QED BY <2>1, <2>2, <2>3 DEF WriterFollows, Compressing
<1>8. ASSUME NEW n \in 0 .. MaxChunk, Write!PushDataSequential(n) PROVE WriterFollows'
    <2>1. UNCHANGED <<state, inside, buf, wDelivered, cpc, cancelled>> /\ wPc = "push"
        BY <1>8 DEF Write!PushDataSequential
    <2>2. ~wFailed'
        BY DEF Clean
    <2>3. /\ state = "started" /\ wPc' = "update" /\ wFailed' = wFailed
          /\ given' = given \o wAvailIn' /\ left' = <<>>
        BY <1>8, <2>2, Zenon DEF Write!PushDataSequential, Write!Return
    <2>4. Clean
        BY <2>1, <2>3 DEF Clean
    <2>5. (wDelivered \o buf) \o inside = given
        BY <2>1, <2>3, <2>4 DEF WriterFollows
    <2>6. PICK x \in Seq(Nat) : x = wAvailIn'
        BY WriterTypesStep, Zenon DEF WriterTypes
    <2>7. PICK d \in Seq(Nat) : d = wDelivered \o buf
        BY <1>0, Parts
    <2>8. d \o (inside \o x) = (d \o inside) \o x
        BY <1>0, Assoc, ZenonT(40)
    <2>9. PICK g \in Seq(Nat) : g = given \o x
        BY <1>0, Parts
    <2>10. g \o <<>> = g
        BY Parts
    <2>11. (wDelivered' \o buf') \o (inside' \o wAvailIn') = given' \o left'
        BY <2>1, <2>3, <2>5, <2>6, <2>7, <2>8, <2>9, <2>10, Zenon
    <2> QED BY <2>3, <2>11 DEF WriterFollows, Compressing
<1>9. CASE Write!End
    <2>1. UNCHANGED <<state, inside, buf, wDelivered, wAvailIn, given, left, cpc, cancelled>> /\ wPc = "idle"
        BY <1>9 DEF Write!End
    <2>2. state \in {"started", "canceled"} /\ wPc' = "finish" /\ wFailed' = wFailed
        BY <1>9, Zenon DEF Write!End, Write!Return, Clean
    <2>3. Clean
        BY <2>1, <2>2 DEF Clean
    <2>4. (wDelivered \o buf) \o inside = given /\ wAvailIn = left
        BY <2>1, <2>2, <2>3 DEF WriterFollows
    <2>5. PICK d \in Seq(Nat) : d = wDelivered \o buf
        BY <1>0, Parts
    <2>6. d \o (inside \o left) = (d \o inside) \o left
        BY <1>0, Assoc, ZenonT(40)
    <2>7. Kept = given \o left
        BY <2>4, <2>5, <2>6, Zenon
    <2> QED BY <2>1, <2>2, <2>7 DEF WriterFollows, Compressing
<1>10. CASE Write!FlushCheck
    <2>1. UNCHANGED <<state, inside, buf, wDelivered, wAvailIn, given, left, cpc, cancelled>>
        BY <1>10 DEF Write!FlushCheck
    <2>2. /\ wFailed' = wFailed
          /\ \/ wPc = "update" /\ wPc' = "update round"
             \/ wPc = "finish" /\ wPc' = "finish round"
        <3>1. ~wFailed'
            BY DEF Clean
        <3>2. ~(result # "ok" /\ Write!Return(result))
            BY <3>1 DEF Write!Return
        <3> QED BY <3>2, <1>10 DEF Write!FlushCheck
    <2>3. Clean
        BY <2>1, <2>2 DEF Clean
    <2> QED BY <2>1, <2>2, <2>3 DEF WriterFollows, Compressing
<1>11. CASE Write!FlushBuffer
    <2>1. UNCHANGED <<state, inside, wAvailIn, given, left, cpc, cancelled>>
        BY <1>11 DEF Write!FlushBuffer
    <2>2. wDelivered' = wDelivered \o buf /\ buf' = <<>> /\ wPc' = wPc /\ wFailed' = wFailed
        BY <1>11, Zenon DEF Write!FlushBuffer, Write!Return, Clean
    <2>3. Clean /\ wPc \in {"update round", "finish round"}
        BY <1>11, <2>1, <2>2 DEF Clean, Write!FlushBuffer, Write!InRound
    <2>4. Kept = given \o left /\ (wPc = "update round" => left = <<>>)
        BY <2>3 DEF WriterFollows, Compressing
    <2>5. (wDelivered \o buf) \o <<>> = wDelivered \o buf
        BY <1>0, Parts
    <2>6. (wDelivered' \o buf') \o (inside' \o wAvailIn') = given' \o left'
        BY <2>1, <2>2, <2>4, <2>5, Zenon
    <2> QED BY <2>1, <2>2, <2>3, <2>4, <2>6 DEF WriterFollows, Compressing
<1>12. CASE Write!FlushInternalData
    <2>1. UNCHANGED <<state, wDelivered, given, left, cpc, cancelled>>
        BY <1>12 DEF Write!FlushInternalData
    <2> DEFINE finish == wPc = "finish round"
    <2>2. finish \in BOOLEAN /\ Write!Deflate(finish)
        BY <1>12 DEF Write!FlushInternalData
    <2>3. /\ wPc \in {"update round", "finish round"} /\ ~wFailed
          /\ \/ wPc' = "idle" /\ wPc = "update round" /\ Write!LoopDone(finish)
             \/ wPc' = "remainder" /\ finish /\ Write!LoopDone(finish)
             \/ wPc' = "finish"
             \/ wPc' = "update" /\ wPc = "update round"
        BY <1>12, Zenon DEF Write!FlushInternalData, Write!Return, Write!InRound, Clean
    <2> HIDE DEF finish
    <2>4. /\ buf' \in Seq(Nat) /\ inside' \in Seq(Nat) /\ wAvailIn' \in Seq(Nat)
          /\ buf' \o (inside' \o wAvailIn') = buf \o (inside \o wAvailIn)
          /\ finished' => finish /\ inside' = <<>> /\ wAvailIn' = <<>>
        BY <2>2, DeflateEffect
    <2>5. /\ wPc' = "remainder" => inside' = <<>> /\ wAvailIn' = <<>>
          /\ wPc' = "idle" => wAvailIn' = <<>>
        BY <2>3, <2>4 DEF Write!LoopDone
    <2>6. Clean
        BY <2>1, <2>3 DEF Clean
    <2>7. Kept = given \o left /\ (wPc = "update round" => left = <<>>)
        BY <2>3, <2>6 DEF WriterFollows, Compressing
    <2>8. (wDelivered \o buf') \o (inside' \o wAvailIn') = wDelivered \o (buf' \o (inside' \o wAvailIn'))
        <3>1. (inside' \o wAvailIn') \in Seq(Nat)
            BY <1>0, <2>4, Parts
        <3>2. PICK x \in Seq(Nat), y \in Seq(Nat), z \in Seq(Nat) : x = wDelivered /\ y = buf' /\ z = (inside' \o wAvailIn')
            BY <1>0, <2>4, <3>1, Zenon
        <3>3. (x \o y) \o z = x \o (y \o z)
            BY Assoc, ZenonT(40)
        <3> QED BY <3>2, <3>3, Zenon
    <2>9. (wDelivered \o buf) \o (inside \o wAvailIn) = wDelivered \o (buf \o (inside \o wAvailIn))
        <3>1. (inside \o wAvailIn) \in Seq(Nat)
            BY <1>0, <2>4, Parts
        <3>2. PICK x \in Seq(Nat), y \in Seq(Nat), z \in Seq(Nat) : x = wDelivered /\ y = buf /\ z = (inside \o wAvailIn)
            BY <1>0, <2>4, <3>1, Zenon
        <3>3. (x \o y) \o z = x \o (y \o z)
            BY Assoc, ZenonT(40)
        <3> QED BY <3>2, <3>3, Zenon
    <2>11. (wDelivered' \o buf') \o (inside' \o wAvailIn') = given' \o left'
        BY <2>1, <2>4, <2>7, <2>8, <2>9, Zenon
    <2>12. CASE wPc' = "idle"
        <3>1. left = <<>> /\ wAvailIn' = <<>>
            BY <2>3, <2>5, <2>7, <2>12
        <3>2. inside' \o <<>> = inside' /\ given \o <<>> = given
            BY <1>0, <2>4, Parts
        <3>3. (wDelivered' \o buf') \o inside' = given' /\ wAvailIn' = left'
            BY <2>1, <2>11, <3>1, <3>2, Zenon
        <3>4. state' # "ended"
            BY <2>1, <2>3 DEF WriterSession, Compressing
        <3> QED BY <2>12, <3>3, <3>4 DEF WriterFollows, Compressing
    <2> QED BY <2>1, <2>3, <2>5, <2>7, <2>11, <2>12 DEF WriterFollows, Compressing
<1>13. CASE Write!DeflateFails
    BY <1>13 DEF Write!DeflateFails, Write!Return, Clean
<1>14. CASE Write!EndRemainder
    <2>1. UNCHANGED <<given, left, cpc, cancelled>> /\ wPc = "remainder"
        BY <1>14 DEF Write!EndRemainder
    <2>2. wDelivered' = wDelivered \o buf /\ state' = "ended" /\ wPc' = "idle" /\ ~wFailed
        BY <1>14, Zenon DEF Write!EndRemainder, Write!Return, Clean
    <2>3. Clean
        BY <2>1, <2>2 DEF Clean
    <2>4. Kept = given \o left /\ inside = <<>> /\ wAvailIn = <<>>
        BY <2>1, <2>3 DEF WriterFollows, Compressing
    <2>5. (wDelivered \o buf) \o (<<>> \o <<>>) = wDelivered \o buf
        BY <1>0, Parts, EmptySeq
    <2>6. wDelivered' = given' \o left'
        BY <2>1, <2>2, <2>4, <2>5, Zenon
    <2> QED BY <2>2, <2>6 DEF WriterFollows, Compressing
<1>15. CASE Write!CancelBegin
    BY <1>15 DEF Write!CancelBegin, Clean
<1>16. CASE Write!CancelResult
    BY <1>16 DEF Write!CancelResult, Clean
<1>17. CASE Write!CancelReset
    BY <1>17 DEF Write!CancelReset, Clean
<1>18. CASE Write!CancelReturns
    BY <1>18 DEF Write!CancelReturns, Clean
<1> QED BY <1>1, <1>2, <1>3, <1>4, <1>5, <1>6, <1>7, <1>8, <1>9, <1>10, <1>11, <1>12, <1>13, <1>14,
           <1>15, <1>16, <1>17, <1>18 DEF Write!Next

-----------------------------------------------------------------------------
(* Asynchronous calls                                                      *)

LEMMA AsyncInit == Async!Init => AsyncInv
BY DEF Async!Init, AsyncInv, AsyncTypes, CallOk, Unborn, Under

LEMMA AsyncSame == AsyncInv /\ UNCHANGED aVars => AsyncInv'
BY DEF AsyncInv, aVars, AsyncTypes, CallOk, Under, Unborn, Beginning, Handing, Refused, Accepted, Settled, Dropped

Same(i) ==
    /\ form'[i] = form[i] /\ context'[i] = context[i] /\ work'[i] = work[i]
    /\ (i \in events' <=> i \in events) /\ said'[i] = said[i] /\ aAnswers'[i] = aAnswers[i]

\* A call that the step is not about stays as it is.
LEMMA OthersOk ==
    ASSUME NEW i \in AsyncCalls, CallOk(i), Same(i), ~Under(i), ~Under(i)' PROVE CallOk(i)'
<1>1. CASE Unborn(i)
    BY <1>1 DEF CallOk, Same, Unborn
<1>2. CASE ~Unborn(i)
    <2>1. form[i] # "none" /\ (Accepted(i) \/ Settled(i) \/ Dropped(i))
        BY <1>2 DEF CallOk, Beginning, Handing, Refused
    <2> QED BY <2>1 DEF CallOk, Same, Accepted, Settled, Dropped
<1> QED BY <1>1, <1>2

\* The call that the JavaScript thread is in.
LEMMA UnderOk ==
    ASSUME AsyncInv, at # "idle"
    PROVE  /\ this \in AsyncCalls /\ form[this] # "none"
           /\ at = "leave" => Refused(this) \/ Accepted(this)
           /\ at = "transfer" => Handing(this)
           /\ at \notin {"leave", "transfer"} => Beginning(this)
<1>1. this \in AsyncCalls /\ form[this] # "none" /\ Under(this)
    BY DEF AsyncInv, AsyncTypes, Under
<1>2. Beginning(this) \/ Handing(this) \/ Refused(this) \/ Accepted(this)
    BY <1>1 DEF AsyncInv, CallOk, Unborn, Settled, Dropped
<1>3. Beginning(this) => at \notin {"leave", "transfer"}
    BY DEF Beginning
<1>4. Handing(this) => at = "transfer"
    BY DEF Handing
<1>5. Refused(this) \/ Accepted(this) => at = "leave"
    BY <1>1 DEF Refused, Accepted
<1> QED BY <1>1, <1>2, <1>3, <1>4, <1>5

LEMMA AsyncStep == ASSUME AsyncInv, Async!Next PROVE AsyncInv'
<1>1. CASE Async!CheckCallback
    <2>1. at # "idle" /\ AsyncTypes
        BY <1>1 DEF Async!CheckCallback, Async!CheckCallbackThen, Async!Says, AsyncInv
    <2>2. PICK j \in AsyncCalls : j = this /\ form[j] # "none" /\ CallOk(j)
        BY <2>1, UnderOk DEF AsyncInv
    <2>3. Beginning(j)
        BY <1>1, <2>1, <2>2, UnderOk DEF Async!CheckCallback, Async!CheckCallbackThen, Async!Says
    <2>4. AsyncTypes'
        BY <1>1, <2>1, <2>2 DEF Async!CheckCallback, Async!CheckCallbackThen, Async!Says, AsyncTypes
    <2>5. (Beginning(j)' \/ Refused(j)') /\ form'[j] # "none"
        BY <1>1, <2>1, <2>2, <2>3 DEF Async!CheckCallback, Async!CheckCallbackThen, Async!Says, AsyncTypes, Beginning, Handing, Refused, Accepted, Dropped, Under
    <2>6. ASSUME NEW i \in AsyncCalls, i # j PROVE CallOk(i)'
        <3>1. Same(i) /\ ~Under(i) /\ ~Under(i)'
            BY <1>1, <2>1, <2>2, <2>6 DEF Async!CheckCallback, Async!CheckCallbackThen, Async!Says, AsyncTypes, Same, Under
        <3> QED BY <3>1, OthersOk DEF AsyncInv
    <2>7. CallOk(j)'
        BY <2>5 DEF CallOk
    <2> QED BY <2>4, <2>6, <2>7 DEF AsyncInv
<1>2. CASE Async!CreatePromise
    <2>1. at # "idle" /\ AsyncTypes
        BY <1>2 DEF Async!CreatePromise, Async!Returns, Async!Says, AsyncInv
    <2>2. PICK j \in AsyncCalls : j = this /\ form[j] # "none" /\ CallOk(j)
        BY <2>1, UnderOk DEF AsyncInv
    <2>3. Beginning(j)
        BY <1>2, <2>1, <2>2, UnderOk DEF Async!CreatePromise, Async!Returns, Async!Says
    <2>4. AsyncTypes'
        BY <1>2, <2>1, <2>2 DEF Async!CreatePromise, Async!Returns, Async!Says, AsyncTypes
    <2>5. (Beginning(j)' \/ Refused(j)') /\ form'[j] # "none"
        BY <1>2, <2>1, <2>2, <2>3 DEF Async!CreatePromise, Async!Returns, Async!Says, AsyncTypes, Beginning, Handing, Refused, Accepted, Dropped, Under
    <2>6. ASSUME NEW i \in AsyncCalls, i # j PROVE CallOk(i)'
        <3>1. Same(i) /\ ~Under(i) /\ ~Under(i)'
            BY <1>2, <2>1, <2>2, <2>6 DEF Async!CreatePromise, Async!Returns, Async!Says, AsyncTypes, Same, Under
        <3> QED BY <3>1, OthersOk DEF AsyncInv
    <2>7. CallOk(j)'
        BY <2>5 DEF CallOk
    <2> QED BY <2>4, <2>6, <2>7 DEF AsyncInv
<1>3. CASE Async!CreateAsyncWork
    <2>1. at # "idle" /\ AsyncTypes
        BY <1>3 DEF Async!CreateAsyncWork, Async!Returns, Async!Says, AsyncInv
    <2>2. PICK j \in AsyncCalls : j = this /\ form[j] # "none" /\ CallOk(j)
        BY <2>1, UnderOk DEF AsyncInv
    <2>3. Beginning(j)
        BY <1>3, <2>1, <2>2, UnderOk DEF Async!CreateAsyncWork, Async!Returns, Async!Says
    <2>4. AsyncTypes'
        BY <1>3, <2>1, <2>2 DEF Async!CreateAsyncWork, Async!Returns, Async!Says, AsyncTypes
    <2>5. (Beginning(j)' \/ Refused(j)') /\ form'[j] # "none"
        BY <1>3, <2>1, <2>2, <2>3 DEF Async!CreateAsyncWork, Async!Returns, Async!Says, AsyncTypes, Beginning, Handing, Refused, Accepted, Dropped, Under
    <2>6. ASSUME NEW i \in AsyncCalls, i # j PROVE CallOk(i)'
        <3>1. Same(i) /\ ~Under(i) /\ ~Under(i)'
            BY <1>3, <2>1, <2>2, <2>6 DEF Async!CreateAsyncWork, Async!Returns, Async!Says, AsyncTypes, Same, Under
        <3> QED BY <3>1, OthersOk DEF AsyncInv
    <2>7. CallOk(j)'
        BY <2>5 DEF CallOk
    <2> QED BY <2>4, <2>6, <2>7 DEF AsyncInv
<1>4. CASE Async!QueueAsyncWork
    <2>1. at # "idle" /\ AsyncTypes
        BY <1>4 DEF Async!QueueAsyncWork, Async!Returns, Async!Says, AsyncInv
    <2>2. PICK j \in AsyncCalls : j = this /\ form[j] # "none" /\ CallOk(j)
        BY <2>1, UnderOk DEF AsyncInv
    <2>3. Beginning(j)
        BY <1>4, <2>1, <2>2, UnderOk DEF Async!QueueAsyncWork, Async!Returns, Async!Says
    <2>4. AsyncTypes'
        BY <1>4, <2>1, <2>2 DEF Async!QueueAsyncWork, Async!Returns, Async!Says, AsyncTypes
    <2>5. (Handing(j)' \/ Refused(j)') /\ form'[j] # "none"
        BY <1>4, <2>1, <2>2, <2>3 DEF Async!QueueAsyncWork, Async!Returns, Async!Says, AsyncTypes, Beginning, Handing, Refused, Accepted, Dropped, Under
    <2>6. ASSUME NEW i \in AsyncCalls, i # j PROVE CallOk(i)'
        <3>1. Same(i) /\ ~Under(i) /\ ~Under(i)'
            BY <1>4, <2>1, <2>2, <2>6 DEF Async!QueueAsyncWork, Async!Returns, Async!Says, AsyncTypes, Same, Under
        <3> QED BY <3>1, OthersOk DEF AsyncInv
    <2>7. CallOk(j)'
        BY <2>5 DEF CallOk
    <2> QED BY <2>4, <2>6, <2>7 DEF AsyncInv
<1>5. CASE Async!Transfer
    <2>1. at # "idle" /\ AsyncTypes
        BY <1>5 DEF Async!Transfer, Async!TransferTo, Async!Returns, Async!Says, AsyncInv
    <2>2. PICK j \in AsyncCalls : j = this /\ form[j] # "none" /\ CallOk(j)
        BY <2>1, UnderOk DEF AsyncInv
    <2>3. Handing(j)
        BY <1>5, <2>1, <2>2, UnderOk DEF Async!Transfer, Async!TransferTo, Async!Returns, Async!Says
    <2>4. AsyncTypes'
        BY <1>5, <2>1, <2>2 DEF Async!Transfer, Async!TransferTo, Async!Returns, Async!Says, AsyncTypes
    <2>5. (Accepted(j)') /\ form'[j] # "none"
        BY <1>5, <2>1, <2>2, <2>3 DEF Async!Transfer, Async!TransferTo, Async!Returns, Async!Says, AsyncTypes, Beginning, Handing, Refused, Accepted, Dropped, Under
    <2>6. ASSUME NEW i \in AsyncCalls, i # j PROVE CallOk(i)'
        <3>1. Same(i) /\ ~Under(i) /\ ~Under(i)'
            BY <1>5, <2>1, <2>2, <2>6 DEF Async!Transfer, Async!TransferTo, Async!Returns, Async!Says, AsyncTypes, Same, Under
        <3> QED BY <3>1, OthersOk DEF AsyncInv
    <2>7. CallOk(j)'
        BY <2>5 DEF CallOk
    <2> QED BY <2>4, <2>6, <2>7 DEF AsyncInv
<1>6. CASE Async!DestroyCallback
    <2>1. at # "idle" /\ AsyncTypes
        BY <1>6 DEF Async!DestroyCallback, Async!Dies, Async!Left, Async!Deleted, AsyncInv
    <2>2. PICK j \in AsyncCalls : j = this /\ form[j] # "none" /\ CallOk(j)
        BY <2>1, UnderOk DEF AsyncInv
    <2>3. Refused(j) \/ Accepted(j)
        BY <1>6, <2>1, <2>2, UnderOk DEF Async!DestroyCallback, Async!Dies, Async!Left, Async!Deleted
    <2>4. AsyncTypes'
        BY <1>6, <2>1, <2>2 DEF Async!DestroyCallback, Async!Dies, Async!Left, Async!Deleted, AsyncTypes
    <2>5. (Dropped(j)' \/ Accepted(j)') /\ form'[j] # "none"
        BY <1>6, <2>1, <2>2, <2>3 DEF Async!DestroyCallback, Async!Dies, Async!Left, Async!Deleted, AsyncTypes, Beginning, Handing, Refused, Accepted, Dropped, Under
    <2>6. ASSUME NEW i \in AsyncCalls, i # j PROVE CallOk(i)'
        <3>1. Same(i) /\ ~Under(i) /\ ~Under(i)'
            BY <1>6, <2>1, <2>2, <2>6 DEF Async!DestroyCallback, Async!Dies, Async!Left, Async!Deleted, AsyncTypes, Same, Under
        <3> QED BY <3>1, OthersOk DEF AsyncInv
    <2>7. CallOk(j)'
        BY <2>5 DEF CallOk
    <2> QED BY <2>4, <2>6, <2>7 DEF AsyncInv
<1>7. CASE Async!DestroyCommonCallback
    <2>1. at # "idle" /\ AsyncTypes
        BY <1>7 DEF Async!DestroyCommonCallback, Async!Dies, Async!Left, Async!Deleted, AsyncInv
    <2>2. PICK j \in AsyncCalls : j = this /\ form[j] # "none" /\ CallOk(j)
        BY <2>1, UnderOk DEF AsyncInv
    <2>3. Refused(j) \/ Accepted(j)
        BY <1>7, <2>1, <2>2, UnderOk DEF Async!DestroyCommonCallback, Async!Dies, Async!Left, Async!Deleted
    <2>4. AsyncTypes'
        BY <1>7, <2>1, <2>2 DEF Async!DestroyCommonCallback, Async!Dies, Async!Left, Async!Deleted, AsyncTypes
    <2>5. (Dropped(j)' \/ Accepted(j)') /\ form'[j] # "none"
        BY <1>7, <2>1, <2>2, <2>3 DEF Async!DestroyCommonCallback, Async!Dies, Async!Left, Async!Deleted, AsyncTypes, Beginning, Handing, Refused, Accepted, Dropped, Under
    <2>6. ASSUME NEW i \in AsyncCalls, i # j PROVE CallOk(i)'
        <3>1. Same(i) /\ ~Under(i) /\ ~Under(i)'
            BY <1>7, <2>1, <2>2, <2>6 DEF Async!DestroyCommonCallback, Async!Dies, Async!Left, Async!Deleted, AsyncTypes, Same, Under
        <3> QED BY <3>1, OthersOk DEF AsyncInv
    <2>7. CallOk(j)'
        BY <2>5 DEF CallOk
    <2> QED BY <2>4, <2>6, <2>7 DEF AsyncInv
<1>8. CASE Async!DestroyPromise
    <2>1. at # "idle" /\ AsyncTypes
        BY <1>8 DEF Async!DestroyPromise, Async!Dies, Async!Left, AsyncInv
    <2>2. PICK j \in AsyncCalls : j = this /\ form[j] # "none" /\ CallOk(j)
        BY <2>1, UnderOk DEF AsyncInv
    <2>3. Refused(j) \/ Accepted(j)
        BY <1>8, <2>1, <2>2, UnderOk DEF Async!DestroyPromise, Async!Dies, Async!Left
    <2>4. AsyncTypes'
        BY <1>8, <2>1, <2>2 DEF Async!DestroyPromise, Async!Dies, Async!Left, AsyncTypes
    <2>5. (Dropped(j)' \/ Accepted(j)') /\ form'[j] # "none"
        BY <1>8, <2>1, <2>2, <2>3 DEF Async!DestroyPromise, Async!Dies, Async!Left, AsyncTypes, Beginning, Handing, Refused, Accepted, Dropped, Under
    <2>6. ASSUME NEW i \in AsyncCalls, i # j PROVE CallOk(i)'
        <3>1. Same(i) /\ ~Under(i) /\ ~Under(i)'
            BY <1>8, <2>1, <2>2, <2>6 DEF Async!DestroyPromise, Async!Dies, Async!Left, AsyncTypes, Same, Under
        <3> QED BY <3>1, OthersOk DEF AsyncInv
    <2>7. CallOk(j)'
        BY <2>5 DEF CallOk
    <2> QED BY <2>4, <2>6, <2>7 DEF AsyncInv
<1>9. ASSUME NEW j \in AsyncCalls, Async!NAsyncWorkCallback(j) PROVE AsyncInv'
    <2>1. AsyncTypes /\ CallOk(j)
        BY DEF AsyncInv
    <2>2. Unborn(j)
        BY <1>9, <2>1 DEF Async!NAsyncWorkCallback, Async!Make, CallOk, Under, Unborn, Beginning, Handing, Refused, Accepted, Settled, Dropped
    <2>3. AsyncTypes'
        BY <1>9, <2>1 DEF Async!NAsyncWorkCallback, Async!Make, AsyncTypes
    <2>4. (Beginning(j)') /\ form'[j] # "none"
        BY <1>9, <2>1, <2>2 DEF Async!NAsyncWorkCallback, Async!Make, AsyncTypes, CallOk, Under, Unborn, Beginning, Handing, Refused, Accepted, Settled, Dropped
    <2>5. ASSUME NEW i \in AsyncCalls, i # j PROVE CallOk(i)'
        <3>1. Same(i)
            BY <1>9, <2>1, <2>5 DEF Async!NAsyncWorkCallback, Async!Make, AsyncTypes, Same
        <3>2. CASE ~Under(i)
            <4>1. ~Under(i)'
                BY <1>9, <2>5, <3>2 DEF Async!NAsyncWorkCallback, Async!Make, Under
            <4> QED BY <3>1, <3>2, <4>1, OthersOk DEF AsyncInv
        <3>3. CASE Under(i)
            BY <1>9, <3>1, <3>3 DEF Async!NAsyncWorkCallback, Async!Make, AsyncInv, CallOk, Same, Under, Unborn, Beginning, Handing, Refused, Accepted, Settled, Dropped
        <3> QED BY <3>2, <3>3
    <2>6. CallOk(j)'
        BY <2>4 DEF CallOk
    <2> QED BY <2>3, <2>5, <2>6 DEF AsyncInv
<1>10. ASSUME NEW j \in AsyncCalls, Async!NAsyncWorkPromise(j) PROVE AsyncInv'
    <2>1. AsyncTypes /\ CallOk(j)
        BY DEF AsyncInv
    <2>2. Unborn(j)
        BY <1>10, <2>1 DEF Async!NAsyncWorkPromise, Async!Make, CallOk, Under, Unborn, Beginning, Handing, Refused, Accepted, Settled, Dropped
    <2>3. AsyncTypes'
        BY <1>10, <2>1 DEF Async!NAsyncWorkPromise, Async!Make, AsyncTypes
    <2>4. (Beginning(j)') /\ form'[j] # "none"
        BY <1>10, <2>1, <2>2 DEF Async!NAsyncWorkPromise, Async!Make, AsyncTypes, CallOk, Under, Unborn, Beginning, Handing, Refused, Accepted, Settled, Dropped
    <2>5. ASSUME NEW i \in AsyncCalls, i # j PROVE CallOk(i)'
        <3>1. Same(i)
            BY <1>10, <2>1, <2>5 DEF Async!NAsyncWorkPromise, Async!Make, AsyncTypes, Same
        <3>2. CASE ~Under(i)
            <4>1. ~Under(i)'
                BY <1>10, <2>5, <3>2 DEF Async!NAsyncWorkPromise, Async!Make, Under
            <4> QED BY <3>1, <3>2, <4>1, OthersOk DEF AsyncInv
        <3>3. CASE Under(i)
            BY <1>10, <3>1, <3>3 DEF Async!NAsyncWorkPromise, Async!Make, AsyncInv, CallOk, Same, Under, Unborn, Beginning, Handing, Refused, Accepted, Settled, Dropped
        <3> QED BY <3>2, <3>3
    <2>6. CallOk(j)'
        BY <2>4 DEF CallOk
    <2> QED BY <2>3, <2>5, <2>6 DEF AsyncInv
<1>11. ASSUME NEW j \in AsyncCalls, Async!Execute(j) PROVE AsyncInv'
    <2>1. AsyncTypes /\ CallOk(j)
        BY DEF AsyncInv
    <2>2. Handing(j) \/ Accepted(j)
        BY <1>11, <2>1 DEF Async!Execute, Async!Used, CallOk, Under, Unborn, Beginning, Handing, Refused, Accepted, Settled, Dropped
    <2>3. AsyncTypes'
        BY <1>11, <2>1 DEF Async!Execute, Async!Used, AsyncTypes
    <2>4. (Handing(j)' \/ Accepted(j)') /\ form'[j] # "none"
        BY <1>11, <2>1, <2>2 DEF Async!Execute, Async!Used, AsyncTypes, CallOk, Under, Unborn, Beginning, Handing, Refused, Accepted, Settled, Dropped
    <2>5. ASSUME NEW i \in AsyncCalls, i # j PROVE CallOk(i)'
        <3>1. Same(i)
            BY <1>11, <2>1, <2>5 DEF Async!Execute, Async!Used, AsyncTypes, Same
        <3>2. CASE ~Under(i)
            <4>1. ~Under(i)'
                BY <1>11, <2>5, <3>2 DEF Async!Execute, Async!Used, Under
            <4> QED BY <3>1, <3>2, <4>1, OthersOk DEF AsyncInv
        <3>3. CASE Under(i)
            BY <1>11, <3>1, <3>3 DEF Async!Execute, Async!Used, AsyncInv, CallOk, Same, Under, Unborn, Beginning, Handing, Refused, Accepted, Settled, Dropped
        <3> QED BY <3>2, <3>3
    <2>6. CallOk(j)'
        BY <2>4 DEF CallOk
    <2> QED BY <2>3, <2>5, <2>6 DEF AsyncInv
<1>12. ASSUME NEW j \in AsyncCalls, Async!DeleteEvent(j) PROVE AsyncInv'
    <2>1. AsyncTypes /\ CallOk(j)
        BY DEF AsyncInv
    <2>2. Dropped(j)
        BY <1>12, <2>1 DEF Async!DeleteEvent, Async!Deleted, CallOk, Under, Unborn, Beginning, Handing, Refused, Accepted, Settled, Dropped
    <2>3. AsyncTypes'
        BY <1>12, <2>1 DEF Async!DeleteEvent, Async!Deleted, AsyncTypes
    <2>4. (Dropped(j)') /\ form'[j] # "none"
        BY <1>12, <2>1, <2>2 DEF Async!DeleteEvent, Async!Deleted, AsyncTypes, CallOk, Under, Unborn, Beginning, Handing, Refused, Accepted, Settled, Dropped
    <2>5. ASSUME NEW i \in AsyncCalls, i # j PROVE CallOk(i)'
        <3>1. Same(i)
            BY <1>12, <2>1, <2>5 DEF Async!DeleteEvent, Async!Deleted, AsyncTypes, Same
        <3>2. CASE ~Under(i)
            <4>1. ~Under(i)'
                BY <1>12, <2>5, <3>2 DEF Async!DeleteEvent, Async!Deleted, Under
            <4> QED BY <3>1, <3>2, <4>1, OthersOk DEF AsyncInv
        <3>3. CASE Under(i)
            BY <1>12, <3>1, <3>3 DEF Async!DeleteEvent, Async!Deleted, AsyncInv, CallOk, Same, Under, Unborn, Beginning, Handing, Refused, Accepted, Settled, Dropped
        <3> QED BY <3>2, <3>3
    <2>6. CallOk(j)'
        BY <2>4 DEF CallOk
    <2> QED BY <2>3, <2>5, <2>6 DEF AsyncInv
<1>13. ASSUME NEW j \in AsyncCalls, Async!CallbackComplete(j) PROVE AsyncInv'
    <2>1. AsyncTypes /\ CallOk(j)
        BY DEF AsyncInv
    <2>2. Accepted(j)
        BY <1>13, <2>1 DEF Async!CallbackComplete, Async!Completing, Async!Answered, Async!AnsweredTimes, Async!Deleted, CallOk, Under, Unborn, Beginning, Handing, Refused, Accepted, Settled, Dropped
    <2>3. AsyncTypes'
        BY <1>13, <2>1 DEF Async!CallbackComplete, Async!Completing, Async!Answered, Async!AnsweredTimes, Async!Deleted, AsyncTypes
    <2>4. (Settled(j)') /\ form'[j] # "none"
        BY <1>13, <2>1, <2>2 DEF Async!CallbackComplete, Async!Completing, Async!Answered, Async!AnsweredTimes, Async!Deleted, AsyncTypes, CallOk, Under, Unborn, Beginning, Handing, Refused, Accepted, Settled, Dropped
    <2>5. ASSUME NEW i \in AsyncCalls, i # j PROVE CallOk(i)'
        <3>1. Same(i)
            BY <1>13, <2>1, <2>5 DEF Async!CallbackComplete, Async!Completing, Async!Answered, Async!AnsweredTimes, Async!Deleted, AsyncTypes, Same
        <3>2. CASE ~Under(i)
            <4>1. ~Under(i)'
                BY <1>13, <2>5, <3>2 DEF Async!CallbackComplete, Async!Completing, Async!Answered, Async!AnsweredTimes, Async!Deleted, Under
            <4> QED BY <3>1, <3>2, <4>1, OthersOk DEF AsyncInv
        <3>3. CASE Under(i)
            BY <1>13, <3>1, <3>3 DEF Async!CallbackComplete, Async!Completing, Async!Answered, Async!AnsweredTimes, Async!Deleted, AsyncInv, CallOk, Same, Under, Unborn, Beginning, Handing, Refused, Accepted, Settled, Dropped
        <3> QED BY <3>2, <3>3
    <2>6. CallOk(j)'
        BY <2>4 DEF CallOk
    <2> QED BY <2>3, <2>5, <2>6 DEF AsyncInv
<1>14. ASSUME NEW j \in AsyncCalls, Async!PromiseOnComplete(j) PROVE AsyncInv'
    <2>1. AsyncTypes /\ CallOk(j)
        BY DEF AsyncInv
    <2>2. Accepted(j)
        BY <1>14, <2>1 DEF Async!PromiseOnComplete, Async!Completing, Async!Answered, Async!AnsweredTimes, Async!Deleted, CallOk, Under, Unborn, Beginning, Handing, Refused, Accepted, Settled, Dropped
    <2>3. AsyncTypes'
        BY <1>14, <2>1 DEF Async!PromiseOnComplete, Async!Completing, Async!Answered, Async!AnsweredTimes, Async!Deleted, AsyncTypes
    <2>4. (Settled(j)') /\ form'[j] # "none"
        BY <1>14, <2>1, <2>2 DEF Async!PromiseOnComplete, Async!Completing, Async!Answered, Async!AnsweredTimes, Async!Deleted, AsyncTypes, CallOk, Under, Unborn, Beginning, Handing, Refused, Accepted, Settled, Dropped
    <2>5. ASSUME NEW i \in AsyncCalls, i # j PROVE CallOk(i)'
        <3>1. Same(i)
            BY <1>14, <2>1, <2>5 DEF Async!PromiseOnComplete, Async!Completing, Async!Answered, Async!AnsweredTimes, Async!Deleted, AsyncTypes, Same
        <3>2. CASE ~Under(i)
            <4>1. ~Under(i)'
                BY <1>14, <2>5, <3>2 DEF Async!PromiseOnComplete, Async!Completing, Async!Answered, Async!AnsweredTimes, Async!Deleted, Under
            <4> QED BY <3>1, <3>2, <4>1, OthersOk DEF AsyncInv
        <3>3. CASE Under(i)
            BY <1>14, <3>1, <3>3 DEF Async!PromiseOnComplete, Async!Completing, Async!Answered, Async!AnsweredTimes, Async!Deleted, AsyncInv, CallOk, Same, Under, Unborn, Beginning, Handing, Refused, Accepted, Settled, Dropped
        <3> QED BY <3>2, <3>3
    <2>6. CallOk(j)'
        BY <2>4 DEF CallOk
    <2> QED BY <2>3, <2>5, <2>6 DEF AsyncInv
<1> QED BY <1>1, <1>2, <1>3, <1>4, <1>5, <1>6, <1>7, <1>8, <1>9, <1>10, <1>11, <1>12, <1>13, <1>14 DEF Async!Next, Async!InCall, Async!Later

-----------------------------------------------------------------------------
(* Requests of HyperAio                                                    *)

LEMMA EmptySet == ToSet(<<>>) = {} /\ Distinct(<<>>) /\ <<>> \in Seq(Nat)
BY DEF ToSet, Distinct

LEMMA Appended ==
    ASSUME NEW s \in Seq(Nat), NEW e \in Nat
    PROVE  /\ Append(s, e) \in Seq(Nat) /\ Append(s, e) # <<>>
           /\ ToSet(Append(s, e)) = ToSet(s) \cup {e}
           /\ Distinct(s) /\ e \notin ToSet(s) => Distinct(Append(s, e))
<1> DEFINE t == Append(s, e)
<1>1. t \in Seq(Nat) /\ Len(t) = Len(s) + 1 /\ t[Len(s) + 1] = e
      /\ \A i \in 1 .. Len(s) : t[i] = s[i]
    OBVIOUS
<1>2. DOMAIN s = 1 .. Len(s) /\ DOMAIN t = 1 .. Len(s) + 1 /\ Len(s) \in Nat
    BY <1>1
<1> HIDE DEF t
<1>3. ToSet(t) = ToSet(s) \cup {e}
    BY <1>1, <1>2, SMTT(40) DEF ToSet
<1>4. ASSUME Distinct(s), e \notin ToSet(s) PROVE Distinct(t)
    BY <1>1, <1>2, <1>4, SMTT(40) DEF Distinct, ToSet
<1>5. t # <<>>
    BY <1>1, <1>2
<1> QED BY <1>1, <1>3, <1>4, <1>5 DEF t

LEMMA Beheaded ==
    ASSUME NEW s \in Seq(Nat), s # <<>>, Distinct(s)
    PROVE  /\ Head(s) \in Nat /\ Tail(s) \in Seq(Nat) /\ Distinct(Tail(s))
           /\ ToSet(s) = {Head(s)} \cup ToSet(Tail(s)) /\ Head(s) \notin ToSet(Tail(s))
<1> DEFINE t == Tail(s)
<1>1. t \in Seq(Nat) /\ Len(t) = Len(s) - 1 /\ Head(s) = s[1] /\ Head(s) \in Nat
      /\ \A i \in 1 .. Len(t) : t[i] = s[i + 1]
    OBVIOUS
<1>2. DOMAIN s = 1 .. Len(s) /\ DOMAIN t = 1 .. Len(s) - 1 /\ Len(s) \in Nat \ {0}
    BY <1>1
<1> HIDE DEF t
<1>3. \A i \in DOMAIN t : i \in Nat \ {0} /\ i + 1 \in DOMAIN s /\ t[i] = s[i + 1]
    BY <1>1, <1>2, SMTT(40)
<1>4. 1 \in DOMAIN s
    BY <1>2
<1>5. s[1] \notin ToSet(t)
    <2>1. ASSUME NEW i \in DOMAIN t PROVE t[i] # s[1]
        <3>1. i + 1 # 1
            BY <1>3
        <3> QED BY <1>3, <1>4, <3>1 DEF Distinct
    <2> QED BY <2>1 DEF ToSet
<1>6. ASSUME NEW i \in DOMAIN t, NEW j \in DOMAIN t, t[i] = t[j] PROVE i = j
    <2>1. i + 1 = j + 1
        BY <1>3, <1>6 DEF Distinct
    <2> QED BY <1>3, <2>1
<1>7. Distinct(t) /\ s[1] \notin ToSet(t)
    BY <1>5, <1>6 DEF Distinct
<1>8. ToSet(s) = {s[1]} \cup ToSet(t)
    <2>1. ASSUME NEW i \in DOMAIN s PROVE s[i] \in {s[1]} \cup ToSet(t)
        <3>1. CASE i = 1
            BY <3>1
        <3>2. CASE i # 1
            <4>1. i - 1 \in 1 .. Len(s) - 1 /\ (i - 1) + 1 = i
                BY <1>2, <3>2
            <4>2. i - 1 \in DOMAIN t
                BY <1>2, <4>1
            <4>3. t[i - 1] = s[i]
                BY <1>3, <4>1, <4>2
            <4> QED BY <4>2, <4>3 DEF ToSet
        <3> QED BY <3>1, <3>2
    <2>2. ASSUME NEW i \in DOMAIN t PROVE t[i] \in ToSet(s)
        BY <1>3 DEF ToSet
    <2>3. s[1] \in ToSet(s)
        BY <1>2 DEF ToSet
    <2> QED BY <2>1, <2>2, <2>3 DEF ToSet
<1> QED BY <1>1, <1>7, <1>8 DEF t

\* A submit splits the queue: what the kernel took and what stays.
LEMMA SplitQueue ==
    ASSUME NEW s \in Seq(Nat), NEW n \in 0 .. Len(s), Distinct(s)
    PROVE  LET took == SubSeq(s, 1, n)  rest == SubSeq(s, n + 1, Len(s)) IN
           /\ rest \in Seq(Nat) /\ Distinct(rest)
           /\ ToSet(s) = ToSet(rest) \cup ToSet(took) /\ ToSet(rest) \cap ToSet(took) = {}
<1> DEFINE t == SubSeq(s, 1, n)  u == SubSeq(s, n + 1, Len(s))
<1>1. Len(s) \in Nat /\ DOMAIN s = 1 .. Len(s)
    OBVIOUS
<1>2. t \in Seq(Nat) /\ Len(t) = n /\ DOMAIN t = 1 .. n /\ \A i \in 1 .. n : t[i] = s[i]
    BY <1>1
<1>3. u \in Seq(Nat) /\ DOMAIN u = 1 .. Len(s) - n /\ \A i \in 1 .. Len(s) - n : u[i] = s[n + i]
    BY <1>1
<1> HIDE DEF t, u
<1>4. /\ \A i \in DOMAIN t : i \in DOMAIN s /\ i \in Nat /\ i <= n /\ t[i] = s[i]
      /\ \A i \in DOMAIN u : n + i \in DOMAIN s /\ i \in Nat /\ n + i > n /\ u[i] = s[n + i]
    BY <1>1, <1>2, <1>3, SMTT(40)
<1>5. ASSUME NEW i \in DOMAIN u, NEW j \in DOMAIN t PROVE u[i] # t[j]
    <2>1. n + i # j
        BY <1>4
    <2> QED BY <1>4, <2>1 DEF Distinct
<1>6. ASSUME NEW i \in DOMAIN u, NEW j \in DOMAIN u, u[i] = u[j] PROVE i = j
    <2>1. n + i = n + j
        BY <1>4, <1>6 DEF Distinct
    <2> QED BY <1>4, <2>1
<1>7. Distinct(u) /\ ToSet(u) \cap ToSet(t) = {}
    BY <1>5, <1>6 DEF Distinct, ToSet
<1>8. ASSUME NEW i \in DOMAIN s PROVE s[i] \in ToSet(u) \cup ToSet(t)
    <2>1. CASE i <= n
        BY <1>1, <1>2, <2>1 DEF ToSet
    <2>2. CASE i > n
        <3>1. i - n \in DOMAIN u /\ u[i - n] = s[i]
            BY <1>1, <1>3, <2>2
        <3> QED BY <3>1 DEF ToSet
    <2> QED BY <1>1, <2>1, <2>2
<1>9. ToSet(u) \subseteq ToSet(s) /\ ToSet(t) \subseteq ToSet(s)
    BY <1>4 DEF ToSet
<1>10. ToSet(s) = ToSet(u) \cup ToSet(t)
    BY <1>8, <1>9 DEF ToSet
<1> QED BY <1>3, <1>7, <1>10 DEF t, u

LEMMA Submitted ==
    ASSUME NEW n \in 0 .. Len(sq), sq \in Seq(Nat), Distinct(sq), Submit(n, sq)
    PROVE  /\ sq' \in Seq(Nat) /\ Distinct(sq')
           /\ \E took : /\ ToSet(sq) = ToSet(sq') \cup took /\ ToSet(sq') \cap took = {}
                        /\ inflight' = inflight \cup took
BY SplitQueue DEF Submit

\* HandleRequestError answers its requests and leaves the others alone.
LEMMA Answered ==
    ASSUME NEW S, answers \in [Reqs -> 0 .. 2], HandleRequestError(S)
    PROVE  /\ answers' \in [Reqs -> 0 .. 2]
           /\ \A r \in Reqs : /\ r \in S => answers'[r] > 0
                              /\ answers[r] > 0 => answers'[r] > 0
                              /\ r \notin S => answers'[r] = answers[r]
                              /\ answers'[r] <= answers[r] + 1
BY DEF HandleRequestError

LEMMA HyperInit == Init => HyperInv
BY EmptySet, HyperAioConstants DEF Init, HyperInv, HyperTypes, OnePlace, Places, Unanswered, HyperControl,
    NothingForgotten, Reqs

LEMMA HyperSame == HyperInv /\ UNCHANGED vars => HyperInv'
BY DEF vars, flags, ring, call, HyperInv, HyperTypes, OnePlace, Places, Unanswered, HyperControl,
    NothingForgotten

LEMMA Bounds == QueueSize \in Nat \ {0} /\ MaxReqs \in Nat
BY HyperAioConstants

LEMMA MadeNat == ASSUME HyperTypes PROVE made \in Nat
BY Bounds DEF HyperTypes

LEMMA AnswersNat ==
    ASSUME HyperTypes, answers' \in [Reqs -> 0 .. 2], NEW r \in Reqs
    PROVE  answers[r] \in Nat /\ answers'[r] \in Nat
BY DEF HyperTypes

\* The steps that move no request.
Still == UNCHANGED <<reqs, ring, made, cancels, answers, faulty>>

LEMMA StillStep ==
    ASSUME HyperInv, Still, count' \in Nat, HyperControl', ~destroyed' => ~destroyed PROVE HyperInv'
BY DEF Still, ring, HyperInv, HyperTypes, OnePlace, Places, Unanswered, NothingForgotten

LEMMA StillSteps ==
    ASSUME HyperInv, CountPending \/ DestroyCtx \/ DestroyStop \/ HarvestLock \/ HarvestRes
    PROVE  HyperInv'
<1>1. Still
    BY DEF Still, CountPending, DestroyCtx, DestroyStop, DestroyStopIf, HarvestLock, HarvestRes, ring, call, flags
<1>2. count' \in Nat
    BY DEF CountPending, DestroyCtx, DestroyStop, DestroyStopIf, HarvestLock, HarvestRes, call, HyperInv, HyperTypes
<1>3. HyperControl /\ HyperControl'
    <2>1. HyperControl
        BY DEF HyperInv
    <2>2. CASE CountPending
        BY <2>1, <2>2 DEF HyperControl, CountPending, flags, ring
    <2>3. CASE DestroyCtx
        BY <2>1, <2>3 DEF HyperControl, DestroyCtx, ring, call
    <2>4. CASE DestroyStop
        BY <2>1, <2>4 DEF HyperControl, DestroyStop, DestroyStopIf, ring, call
    <2>5. CASE HarvestLock \/ HarvestRes
        BY <2>1, <2>5 DEF HyperControl, HarvestLock, HarvestRes, ring, call, flags
    <2> QED BY <2>1, <2>2, <2>3, <2>4, <2>5
<1>4. ~destroyed' => ~destroyed
    BY DEF CountPending, DestroyCtx, DestroyStop, DestroyStopIf, HarvestLock, HarvestRes, flags
<1> QED BY <1>1, <1>2, <1>3, <1>4, StillStep

\* A step that submits, answers the requests of S and the rest of the call if the
\* call gives them up; if nothing fails it answers no other.
LEMMA SubmitStep ==
    ASSUME HyperInv, NEW n \in 0 .. Len(sq), Submit(n, sq), NEW S,
           HandleRequestError(S) \/ (S = {} /\ answers' = answers),
           reqs' = reqs \/ (reqs' = <<>> /\ ToSet(reqs) \subseteq S),
           ~faulty => S \subseteq ToSet(reqs) \ ToSet(reqs'),
           UNCHANGED <<cq, made, cancels, faulty, destroyed, count>>, HyperControl'
    PROVE  HyperInv'
<1>1. HyperTypes /\ OnePlace /\ Unanswered /\ NothingForgotten
    BY DEF HyperInv
<1>2. PICK took : /\ sq' \in Seq(Nat) /\ Distinct(sq')
                  /\ ToSet(sq) = ToSet(sq') \cup took /\ ToSet(sq') \cap took = {}
                  /\ inflight' = inflight \cup took
    BY <1>1, Submitted DEF HyperTypes, OnePlace
<1>3. /\ answers' \in [Reqs -> 0 .. 2]
      /\ \A r \in Reqs : /\ r \in S => answers'[r] > 0
                         /\ answers[r] > 0 => answers'[r] > 0
                         /\ r \notin S => answers'[r] = answers[r]
                         /\ answers'[r] <= answers[r] + 1
    <2>1. CASE HandleRequestError(S)
        BY <1>1, <2>1, Answered DEF HyperTypes
    <2>2. CASE S = {} /\ answers' = answers
        BY <1>1, <2>2, SMTT(40) DEF HyperTypes
    <2> QED BY <2>1, <2>2
<1>4. reqs' \in Seq(Nat) /\ Distinct(reqs') /\ ToSet(reqs') \subseteq ToSet(reqs)
      /\ ToSet(reqs) \subseteq ToSet(reqs') \cup S
    BY <1>1, EmptySet DEF HyperTypes, OnePlace
<1>5. HyperTypes'
    BY <1>1, <1>2, <1>3, <1>4 DEF HyperTypes
<1>6. OnePlace'
    BY <1>1, <1>2, <1>4 DEF OnePlace, Places
<1>7. Unanswered'
    <2> SUFFICES ASSUME ~faulty, NEW r \in Reqs
                 PROVE  answers'[r] <= 1 /\ (r \in Places' \/ r > made => answers'[r] = 0)
        BY DEF Unanswered
    <2>1. answers[r] <= 1 /\ (r \in Places \/ r > made => answers[r] = 0)
        BY <1>1 DEF Unanswered
    <2>2. CASE r \in S
        <3>1. r \in ToSet(reqs) /\ r \notin ToSet(reqs')
            BY <2>2
        <3>2. r \in Places /\ r \notin Places'
            BY <1>1, <1>2, <3>1 DEF OnePlace, Places
        <3>3. r \in 1 .. made
            BY <1>1, <3>2 DEF OnePlace
        <3>4. ~(r > made) /\ answers'[r] <= answers[r] + 1 /\ answers[r] \in Nat /\ answers'[r] \in Nat
            BY <1>1, <1>3, <3>3, MadeNat, AnswersNat
        <3>5. answers[r] = 0
            BY <2>1, <3>2
        <3> QED BY <3>2, <3>4, <3>5
    <2>3. CASE r \notin S
        <3>1. r \in Places' => r \in Places
            BY <1>2, <1>4 DEF Places
        <3> QED BY <1>3, <2>1, <2>3, <3>1
    <2> QED BY <2>2, <2>3
<1>8. NothingForgotten'
    <2> SUFFICES ASSUME ~destroyed, NEW r \in 1 .. made PROVE answers'[r] > 0 \/ r \in Places'
        BY DEF NothingForgotten, Places
    <2>1. answers[r] > 0 \/ r \in Places
        BY <1>1 DEF NothingForgotten, Places
    <2>2. r \in Reqs
        BY <1>1, HyperAioConstants DEF HyperTypes, Reqs
    <2>3. r \in Places => r \in Places' \/ r \in S
        BY <1>2, <1>4 DEF Places
    <2> QED BY <1>3, <2>1, <2>2, <2>3
<1> QED BY <1>5, <1>6, <1>7, <1>8 DEF HyperInv

LEMMA SubmitSteps ==
    ASSUME HyperInv, GetSqeWithRetry \/ HandleSqeError \/ SubmitBatch PROVE HyperInv'
<1>1. HyperControl /\ sq \in Seq(Nat) /\ Len(sq) \in Nat
    BY DEF HyperInv, HyperTypes
<1>2. Taken(sq) \subseteq 0 .. Len(sq) /\ (~faulty => Taken(sq) = {Len(sq)})
    BY <1>1 DEF Taken
<1>3. CASE GetSqeWithRetry
    <2>1. PICK n \in Taken(sq) : Submit(n, sq)
        BY <1>3 DEF GetSqeWithRetry
    <2>2. n \in 0 .. Len(sq)
        BY <1>2
    <2>3. HyperControl' /\ reqs' = reqs /\ answers' = answers
          /\ UNCHANGED <<cq, made, cancels, faulty, destroyed, count>>
        BY <1>1, <1>3 DEF GetSqeWithRetry, HyperControl, flags
    <2> HIDE DEF HyperControl
    <2> QED BY <2>1, <2>2, <2>3, SubmitStep
<1>4. CASE HandleSqeError
    <2>1. PICK n \in IF count > 0 THEN Taken(sq) ELSE {0} :
            /\ Submit(n, sq)
            /\ HandleRequestError(ToSet(reqs) \cup IF count > 0 /\ n = 0 THEN info ELSE {})
        BY <1>4 DEF HandleSqeError
    <2>2. n \in 0 .. Len(sq)
        BY <1>1, <1>2
    <2> DEFINE S == ToSet(reqs) \cup IF count > 0 /\ n = 0 THEN info ELSE {}
    <2>3. HyperControl' /\ reqs' = <<>>
          /\ UNCHANGED <<cq, made, cancels, faulty, destroyed, count>>
        BY <1>1, <1>4 DEF HandleSqeError, HyperControl, flags
    <2>4. ToSet(reqs') = {}
        BY <2>3, EmptySet
    <2>5. ~faulty => S = ToSet(reqs)
        <3>1. Len(sq) # 0
            BY <1>4, Bounds DEF HandleSqeError
        <3>2. ~faulty /\ count > 0 => n # 0
            BY <1>2, <3>1
        <3> QED BY <3>2
    <2>6. HandleRequestError(S) /\ ToSet(reqs) \subseteq S
        BY <2>1
    <2> HIDE DEF S
    <2> QED BY <2>1, <2>2, <2>3, <2>4, <2>5, <2>6, SubmitStep
<1>5. CASE SubmitBatch
    <2>1. PICK n \in Taken(sq) :
            /\ Submit(n, sq)
            /\ IF n = 0 THEN HandleRequestError(info) /\ info' = {} ELSE UNCHANGED <<answers, info>>
        BY <1>5 DEF SubmitBatch
    <2>2. n \in 0 .. Len(sq)
        BY <1>2
    <2> DEFINE S == IF n = 0 THEN info ELSE {}
    <2>3. HyperControl' /\ reqs' = reqs
          /\ UNCHANGED <<cq, made, cancels, faulty, destroyed, count>>
        BY <1>1, <1>5 DEF SubmitBatch, HyperControl, flags
    <2>4. ~faulty => S = {}
        <3>1. sq # <<>>
            BY <1>1, <1>5 DEF SubmitBatch, HyperControl
        <3>2. Len(sq) # 0
            BY <1>1, <3>1
        <3> QED BY <1>2, <3>2
    <2>5. HandleRequestError(S) \/ (S = {} /\ answers' = answers)
        BY <2>1
    <2> HIDE DEF S
    <2> QED BY <2>1, <2>2, <2>3, <2>4, <2>5, SubmitStep
<1> QED BY <1>3, <1>4, <1>5

LEMMA PrepareStep == ASSUME HyperInv, PrepareSqe PROVE HyperInv'
<1>1. HyperTypes /\ OnePlace /\ Unanswered /\ HyperControl /\ NothingForgotten
    BY DEF HyperInv
<1>2. reqs # <<>> /\ reqs \in Seq(Nat) /\ sq \in Seq(Nat) /\ Distinct(reqs) /\ Distinct(sq)
    BY <1>1 DEF PrepareSqe, HyperControl, HyperTypes, OnePlace
<1>3. PICK h : /\ h \in Nat /\ h = Head(reqs) /\ reqs' \in Seq(Nat) /\ Distinct(reqs')
               /\ ToSet(reqs) = {h} \cup ToSet(reqs') /\ h \notin ToSet(reqs')
    BY <1>2, Beheaded DEF PrepareSqe
<1>4. h \notin ToSet(sq)
    BY <1>1, <1>3 DEF OnePlace
<1>5. sq' \in Seq(Nat) /\ sq' # <<>> /\ ToSet(sq') = ToSet(sq) \cup {h} /\ Distinct(sq')
    BY <1>2, <1>3, <1>4, Appended DEF PrepareSqe
<1>6. /\ UNCHANGED <<inflight, cq, made, cancels, answers, faulty, destroyed, initialized>>
      /\ pc' = (IF count' >= BatchSize \/ reqs' = <<>> THEN "submit" ELSE "sqe")
      /\ count' = count + 1
    BY DEF PrepareSqe, flags
<1>7. Places' = Places
    BY <1>3, <1>5, <1>6 DEF Places
<1>8. HyperTypes'
    BY <1>1, <1>3, <1>5, <1>6 DEF HyperTypes
<1>9. OnePlace'
    <2>1. Places' \subseteq 1 .. made'
        BY <1>1, <1>6, <1>7 DEF OnePlace
    <2> QED BY <1>1, <1>3, <1>5, <1>6, <2>1 DEF OnePlace
<1>10. Unanswered'
    BY <1>1, <1>6, <1>7 DEF Unanswered
<1>11. HyperControl'
    BY <1>1, <1>5, <1>6 DEF HyperControl
<1>12. NothingForgotten'
    BY <1>1, <1>6, <1>7 DEF NothingForgotten, Places
<1> QED BY <1>8, <1>9, <1>10, <1>11, <1>12 DEF HyperInv

\* The kernel completes the requests of X, all of them on its side.
LEMMA CompleteStep ==
    ASSUME NEW r \in Reqs, HyperInv, Complete(r) PROVE HyperInv'
<1>1. HyperTypes /\ OnePlace /\ Unanswered /\ HyperControl /\ NothingForgotten
    BY DEF HyperInv
<1>2. cq \in Seq(Nat) /\ Distinct(cq) /\ inflight \subseteq Nat /\ inflight \cap ToSet(cq) = {}
    BY <1>1, Bounds DEF HyperTypes, OnePlace, Places
<1>3. PICK X : /\ X \subseteq inflight /\ inflight' = inflight \ X
               /\ cq' \in Seq(Nat) /\ Distinct(cq') /\ ToSet(cq') = ToSet(cq) \cup X
    <2>1. CASE CancelHits(r)
        <3>1. r \in inflight /\ cancels[r] \in inflight /\ cancels[r] # r
            BY <1>1, <2>1 DEF Complete, CancelHits, HyperTypes
        <3>2. inflight' = inflight \ {r, cancels[r]} /\ cq' = cq \o <<cancels[r], r>>
            BY <2>1 DEF Complete
        <3>3. PICK one \in Seq(Nat) :
                 one = Append(cq, cancels[r]) /\ Distinct(one) /\ ToSet(one) = ToSet(cq) \cup {cancels[r]}
            BY <1>2, <3>1, Appended
        <3>4. cq' = Append(one, r)
            BY <1>2, <3>1, <3>2, <3>3
        <3>5. cq' \in Seq(Nat) /\ Distinct(cq') /\ ToSet(cq') = ToSet(one) \cup {r}
            <4>1. r \in Nat /\ r \notin ToSet(one)
                BY <1>2, <3>1, <3>3
            <4>2. /\ Append(one, r) \in Seq(Nat) /\ ToSet(Append(one, r)) = ToSet(one) \cup {r}
                  /\ Distinct(one) /\ r \notin ToSet(one) => Distinct(Append(one, r))
                BY <4>1, Appended, ZenonT(40)
            <4> QED BY <3>3, <3>4, <4>1, <4>2, Zenon
        <3>6. {r, cancels[r]} \subseteq inflight /\ ToSet(cq') = ToSet(cq) \cup {r, cancels[r]}
            BY <3>1, <3>3, <3>5
        <3> QED BY <3>2, <3>5, <3>6
    <2>2. CASE ~CancelHits(r)
        <3>1. r \in inflight /\ inflight' = inflight \ {r} /\ cq' = Append(cq, r)
            BY <2>2 DEF Complete
        <3> QED BY <1>2, <3>1, Appended, ZenonT(40)
    <2> QED BY <2>1, <2>2
<1>4. UNCHANGED <<reqs, sq, made, cancels, answers, faulty, destroyed, initialized, pc, count>>
    BY DEF Complete, flags, call
<1>5. Places' = Places
    BY <1>3, <1>4 DEF Places
<1>6. HyperTypes'
    BY <1>1, <1>3, <1>4 DEF HyperTypes
<1>7. OnePlace'
    <2>1. Places' \subseteq 1 .. made'
        BY <1>1, <1>4, <1>5 DEF OnePlace
    <2> QED BY <1>1, <1>3, <1>4, <2>1 DEF OnePlace
<1>8. Unanswered'
    BY <1>1, <1>4, <1>5 DEF Unanswered
<1>9. HyperControl'
    BY <1>1, <1>4 DEF HyperControl
<1>10. NothingForgotten'
    BY <1>1, <1>4, <1>5 DEF NothingForgotten, Places
<1> QED BY <1>6, <1>7, <1>8, <1>9, <1>10 DEF HyperInv

LEMMA GetIoResultStep == ASSUME HyperInv, GetIoResult PROVE HyperInv'
<1>1. HyperTypes /\ OnePlace /\ Unanswered /\ HyperControl /\ NothingForgotten
    BY DEF HyperInv
<1>2. UNCHANGED <<reqs, sq, inflight, made, cancels, faulty, destroyed, initialized, pc, count>>
    BY DEF GetIoResult, GetIoResultIf, flags, call
<1>3. HyperControl'
    BY <1>1, <1>2 DEF HyperControl
<1>4. CASE UNCHANGED <<cq, answers>>
    BY <1>1, <1>2, <1>3, <1>4
       DEF HyperInv, HyperTypes, OnePlace, Places, Unanswered, NothingForgotten
<1>5. CASE cq # <<>> /\ HandleRequestError({Head(cq)}) /\ cq' = Tail(cq)
    <2>1. PICK h : /\ h \in Nat /\ h = Head(cq) /\ cq' \in Seq(Nat) /\ Distinct(cq')
                   /\ ToSet(cq) = {h} \cup ToSet(cq') /\ h \notin ToSet(cq')
        BY <1>1, <1>5, Beheaded DEF HyperTypes, OnePlace
    <2>2. /\ answers' \in [Reqs -> 0 .. 2]
          /\ \A r \in Reqs : /\ r = h => answers'[r] > 0
                             /\ answers[r] > 0 => answers'[r] > 0
                             /\ r # h => answers'[r] = answers[r]
                             /\ answers'[r] <= answers[r] + 1
        BY <1>1, <1>5, <2>1, Answered DEF HyperTypes
    <2>3. h \in Places /\ h \notin Places' /\ Places' \subseteq Places /\ Places \subseteq Places' \cup {h}
        BY <1>1, <1>2, <2>1 DEF OnePlace, Places
    <2>4. HyperTypes'
        BY <1>1, <1>2, <2>1, <2>2 DEF HyperTypes
    <2>5. OnePlace'
        <3>1. Places' \subseteq 1 .. made'
            BY <1>1, <1>2, <2>3 DEF OnePlace
        <3> QED BY <1>1, <1>2, <2>1, <3>1 DEF OnePlace
    <2>6. Unanswered'
        <3> SUFFICES ASSUME ~faulty, NEW r \in Reqs
                     PROVE  answers'[r] <= 1 /\ (r \in Places' \/ r > made => answers'[r] = 0)
            BY <1>2 DEF Unanswered
        <3>1. answers[r] <= 1 /\ (r \in Places \/ r > made => answers[r] = 0)
            BY <1>1 DEF Unanswered
        <3>2. CASE r = h
            <4>1. r \in 1 .. made
                BY <1>1, <2>3, <3>2 DEF OnePlace
            <4>2. ~(r > made) /\ answers'[r] <= answers[r] + 1 /\ answers[r] \in Nat /\ answers'[r] \in Nat
                BY <1>1, <2>2, <4>1, MadeNat, AnswersNat
            <4>3. answers[r] = 0
                BY <2>3, <3>1, <3>2
            <4> QED BY <2>3, <3>2, <4>2, <4>3
        <3>3. CASE r # h
            BY <2>2, <2>3, <3>1, <3>3
        <3> QED BY <3>2, <3>3
    <2>7. NothingForgotten'
        <3> SUFFICES ASSUME ~destroyed, NEW r \in 1 .. made PROVE answers'[r] > 0 \/ r \in Places'
            BY <1>2 DEF NothingForgotten, Places
        <3>1. answers[r] > 0 \/ r \in Places
            BY <1>1 DEF NothingForgotten, Places
        <3>2. r \in Reqs
            BY <1>1, Bounds DEF HyperTypes, Reqs
        <3> QED BY <2>2, <2>3, <3>1, <3>2
    <2> QED BY <1>3, <2>4, <2>5, <2>6, <2>7 DEF HyperInv
<1> QED BY <1>4, <1>5 DEF GetIoResult, GetIoResultIf

\* Starting and ending empty the ring: nothing is in it before the first
\* initialisation, and what is in it is dropped by a destroyed context only.
LEMMA EmptyRing ==
    ASSUME HyperInv, CtxInit \/ DestroyJoin PROVE HyperInv'
<1>1. HyperTypes /\ OnePlace /\ Unanswered /\ HyperControl /\ NothingForgotten
    BY DEF HyperInv
<1>2. /\ sq' = <<>> /\ inflight' = {} /\ cq' = <<>>
      /\ UNCHANGED <<reqs, made, cancels, answers, faulty, destroyed, count>>
    BY DEF CtxInit, DestroyJoin, call
<1>3. reqs = <<>> /\ (destroyed \/ made = 0) /\ HyperControl'
    <2>1. CASE CtxInit
        BY <1>1, <2>1 DEF CtxInit, HyperControl, call
    <2>2. CASE DestroyJoin
        BY <1>1, <2>2 DEF DestroyJoin, HyperControl, call
    <2> QED BY <2>1, <2>2
<1>4. Places' = {}
    BY <1>2, <1>3, EmptySet DEF Places
<1>5. HyperTypes'
    BY <1>1, <1>2, EmptySet DEF HyperTypes
<1>6. OnePlace'
    BY <1>1, <1>2, <1>3, <1>4, EmptySet DEF OnePlace
<1>7. Unanswered'
    BY <1>1, <1>2, <1>4 DEF Unanswered
<1>8. NothingForgotten'
    BY <1>2, <1>3 DEF NothingForgotten
<1> QED BY <1>3, <1>5, <1>6, <1>7, <1>8 DEF HyperInv

LEMMA StartStep ==
    ASSUME HyperInv, NEW n \in 1 .. QueueSize, NEW targets, Start(n, targets),
           targets = <<>> \/ (n = 1 /\ \E target \in Reqs : target <= made /\ targets = <<target>>)
    PROVE  HyperInv'
<1>1. HyperTypes /\ OnePlace /\ Unanswered /\ HyperControl /\ NothingForgotten
    BY DEF HyperInv
<1>2. /\ made \in Nat /\ n \in Nat \ {0} /\ made' = made + n /\ made' \in 0 .. MaxReqs
      /\ reqs = <<>> /\ count' = 0 /\ initialized
    BY <1>1, Bounds DEF Start, CheckParameter, HyperTypes, HyperControl
<1>3. /\ UNCHANGED <<sq, inflight, cq, answers, faulty, destroyed, initialized>>
      /\ pc' = "sqe" /\ reqs' = [i \in 1 .. n |-> made + i]
    BY DEF Start, flags, ring
<1>4. reqs' \in Seq(Nat) /\ reqs' # <<>> /\ DOMAIN reqs' = 1 .. n
    <2>1. [i \in 1 .. n |-> made + i] \in Seq(Nat)
        BY <1>2, IsASeq
    <2>2. DOMAIN [i \in 1 .. n |-> made + i] = 1 .. n /\ 1 \in 1 .. n
        BY <1>2
    <2>3. DOMAIN <<>> = {}
        OBVIOUS
    <2> QED BY <1>3, <2>1, <2>2, <2>3
<1>5. ToSet(reqs') = made + 1 .. made' /\ Distinct(reqs')
    <2>1. ASSUME NEW r \in made + 1 .. made' PROVE r \in ToSet(reqs')
        <3>1. r - made \in 1 .. n /\ made + (r - made) = r
            BY <1>2
        <3>2. r - made \in DOMAIN reqs' /\ reqs'[r - made] = r
            BY <1>3, <3>1
        <3> QED BY <3>2 DEF ToSet
    <2>2. ASSUME NEW i \in DOMAIN reqs' PROVE reqs'[i] \in made + 1 .. made'
        BY <1>2, <1>3
    <2>3. ASSUME NEW i \in DOMAIN reqs', NEW j \in DOMAIN reqs', reqs'[i] = reqs'[j] PROVE i = j
        BY <1>2, <1>3, <2>3
    <2>4. ToSet(reqs') = made + 1 .. made'
        BY <2>1, <2>2 DEF ToSet
    <2> QED BY <2>3, <2>4 DEF Distinct
<1>6. \A r \in DOMAIN cancels' : r \in Nat /\ r <= made' /\ cancels'[r] # r
    <2>1. cancels' = [r \in DOMAIN cancels \cup {made + i : i \in DOMAIN targets} |->
                         IF r \in DOMAIN cancels THEN cancels[r] ELSE targets[r - made]]
        BY DEF Start
    <2>2. ASSUME NEW r \in DOMAIN cancels PROVE r \in Nat /\ r <= made' /\ cancels'[r] # r
        BY <1>1, <1>2, <2>1 DEF HyperTypes
    <2>3. CASE targets = <<>>
        BY <2>1, <2>2, <2>3
    <2>4. ASSUME n = 1, NEW target \in Reqs, target <= made, targets = <<target>>
          PROVE  \A r \in DOMAIN cancels' : r \in Nat /\ r <= made' /\ cancels'[r] # r
        <3>1. DOMAIN targets = {1} /\ targets[1] = target
            BY <2>4
        <3>2. {made + i : i \in DOMAIN targets} = {made + 1}
            BY <3>1
        <3>3. made + 1 \notin DOMAIN cancels => cancels'[made + 1] = target
            BY <1>2, <2>1, <3>1, <3>2
        <3>4. target # made + 1 /\ made + 1 <= made' /\ made + 1 \in Nat
            BY <1>2, <2>4, Bounds DEF Reqs
        <3> QED BY <2>1, <2>2, <3>2, <3>3, <3>4
    <2> QED BY <2>3, <2>4
<1>7. HyperTypes'
    BY <1>1, <1>2, <1>3, <1>4, <1>6 DEF HyperTypes
<1> DEFINE New == made + 1 .. made'  Old == ToSet(sq) \cup inflight \cup ToSet(cq)
<1>8. Places = Old /\ Places' = Old \cup New /\ Places \subseteq 1 .. made
    BY <1>1, <1>2, <1>3, <1>5, EmptySet DEF Places, OnePlace
<1>9. New \cap Old = {} /\ New \subseteq 1 .. made' /\ 1 .. made \subseteq 1 .. made'
    BY <1>2, <1>8
<1>10. OnePlace'
    <2>1. Places' \subseteq 1 .. made'
        BY <1>8, <1>9
    <2> QED BY <1>1, <1>3, <1>5, <1>9, <2>1 DEF OnePlace
<1>11. Unanswered'
    <2> SUFFICES ASSUME ~faulty, NEW r \in Reqs
                 PROVE  answers[r] <= 1 /\ (r \in Places' \/ r > made' => answers[r] = 0)
        BY <1>3 DEF Unanswered
    <2>1. answers[r] <= 1 /\ (r \in Places \/ r > made => answers[r] = 0)
        BY <1>1 DEF Unanswered
    <2>2. r \in New \/ r > made' => r > made
        BY <1>2, Bounds DEF Reqs
    <2> QED BY <1>8, <2>1, <2>2
<1>12. HyperControl'
    BY <1>1, <1>2, <1>3, <1>4 DEF HyperControl
<1>13. NothingForgotten'
    <2> SUFFICES ASSUME ~destroyed, NEW r \in 1 .. made' PROVE answers[r] > 0 \/ r \in Places'
        BY <1>3 DEF NothingForgotten, Places
    <2>1. r \in 1 .. made => answers[r] > 0 \/ r \in Places
        BY <1>1 DEF NothingForgotten, Places
    <2>2. r \in 1 .. made \/ r \in New
        BY <1>2
    <2> QED BY <1>8, <2>1, <2>2
<1> QED BY <1>7, <1>10, <1>11, <1>12, <1>13 DEF HyperInv

LEMMA HyperStep == ASSUME HyperInv, Next PROVE HyperInv'
<1>1. CASE \E n \in 1 .. QueueSize : StartOpenReqs(n) \/ StartReadReqs(n)
    BY <1>1, StartStep DEF StartOpenReqs, StartReadReqs
<1>2. CASE \E target \in Reqs : StartCancelReqs(target)
    <2>1. 1 \in 1 .. QueueSize
        BY Bounds
    <2> QED BY <1>2, <2>1, StartStep DEF StartCancelReqs
<1> QED BY <1>1, <1>2, StillSteps, SubmitSteps, PrepareStep, CompleteStep, GetIoResultStep, EmptyRing
    DEF Next, Caller, Harvester

-----------------------------------------------------------------------------
(* What a stream expands to                                                *)

LEMMA BytesAre == ASSUME NEW s PROVE Read!Bytes(s) = Sum(s, DOMAIN s)
<1>1. Read!Bytes(s) = (CHOOSE h : h = [u \in SUBSET DOMAIN s |-> WithPicked(s, h, u)])[DOMAIN s]
    BY DEF Read!Bytes, Read!FoldSeq, Read!FoldFunction, Read!FoldFunctionOnSet, Read!MapThenFoldSet, Pick, WithPicked
<1> QED BY <1>1, SumUnfolds

LEMMA BytesNat == ASSUME NEW s \in Seq(Nat) PROVE Read!Bytes(s) \in Nat
<1>1. IsFiniteSet(DOMAIN s) /\ s \in [DOMAIN s -> Nat]
    BY FS_Interval
<1> QED BY <1>1, BytesAre, SumNat

LEMMA BytesEmpty == Read!Bytes(<<>>) = 0
<1>1. DOMAIN <<>> = {}
    OBVIOUS
<1> QED BY <1>1, BytesAre, SumEmpty

\* A stream cut in two expands to as much.
LEMMA BytesSplit ==
    ASSUME NEW s \in Seq(Nat), NEW n \in 0 .. Len(s)
    PROVE  Read!Bytes(SubSeq(s, 1, n)) + Read!Bytes(SubSeq(s, n + 1, Len(s))) = Read!Bytes(s)
<1> DEFINE a == SubSeq(s, 1, n)
           t == SubSeq(s, n + 1, Len(s))
           L == Len(s) - n
           Good == {m \in Nat : m <= L => Sum(s, 1 .. n + m) = Sum(s, 1 .. n) + Sum(t, 1 .. m)}
<1>1. a \in Seq(Nat) /\ DOMAIN a = 1 .. n /\ \A i \in 1 .. n : a[i] = s[i]
    OBVIOUS
<1>2. L \in Nat /\ t \in Seq(Nat) /\ Len(t) = L /\ DOMAIN t = 1 .. L /\ \A i \in 1 .. L : t[i] = s[n + i]
    <2>1. L \in Nat /\ n + 1 \in Nat
        OBVIOUS
    <2>2. t \in Seq(Nat) /\ Len(t) = L
        BY <2>1, SMTT(40)
    <2>3. DOMAIN t = 1 .. L
        <3> HIDE DEF t, L
        <3> QED BY <2>2
    <2>4. ASSUME NEW i \in 1 .. L PROVE t[i] = s[n + i]
        BY <2>1, SMTT(40)
    <2> QED BY <2>1, <2>2, <2>3, <2>4, Zenon
<1> HIDE DEF a, t
<1>3. Sum(a, DOMAIN a) = Sum(s, 1 .. n) /\ Sum(s, 1 .. n) \in Int
    <2>1. IsFiniteSet(1 .. n) /\ \A i \in 1 .. n : a[i] = s[i] /\ a[i] \in Int
        BY <1>1, FS_Interval
    <2>2. Sum(a, 1 .. n) = Sum(s, 1 .. n)
        BY <2>1, SumAgrees
    <2>3. Sum(a, 1 .. n) \in Nat
        BY <1>1, BytesAre, BytesNat
    <2> QED BY <1>1, <2>2, <2>3
<1>4. 0 \in Good
    <2>1. 1 .. 0 = {} /\ n + 0 = n
        OBVIOUS
    <2>2. Sum(t, 1 .. 0) = 0
        BY <2>1, SumEmpty
    <2> QED BY <1>3, <2>1, <2>2
<1>5. ASSUME NEW m \in Nat, m \in Good PROVE m + 1 \in Good
    <2> SUFFICES ASSUME m + 1 <= L
                 PROVE  Sum(s, 1 .. n + (m + 1)) = Sum(s, 1 .. n) + Sum(t, 1 .. m + 1)
        OBVIOUS
    <2>1. Sum(s, 1 .. n + m) = Sum(s, 1 .. n) + Sum(t, 1 .. m)
        BY <1>2, <1>5
    <2>2. n + m \in Nat /\ (n + m) + 1 \in 1 .. Len(s) /\ m + 1 \in 1 .. Len(t) /\ (n + m) + 1 = n + (m + 1)
        BY <1>2, SMTT(40)
    <2>6. (\A i \in 1 .. (n + m) + 1 : s[i] \in Int) /\ \A i \in 1 .. m + 1 : t[i] \in Int
        <3>1. 1 .. (n + m) + 1 \subseteq 1 .. Len(s) /\ 1 .. m + 1 \subseteq 1 .. Len(t)
            BY <1>2, <2>2
        <3>2. \A i \in 1 .. Len(s) : s[i] \in Int
            OBVIOUS
        <3>3. \A i \in 1 .. Len(t) : t[i] \in Int
            BY <1>2
        <3> QED BY <3>1, <3>2, <3>3
    <2>3. Sum(s, 1 .. (n + m) + 1) = Sum(s, 1 .. n + m) + s[(n + m) + 1]
        BY <2>2, <2>6, SumOneMore
    <2>4. Sum(t, 1 .. m + 1) = Sum(t, 1 .. m) + t[m + 1] /\ Sum(t, 1 .. m) \in Int
        BY <2>6, SumOneMore
    <2>5. t[m + 1] = s[(n + m) + 1] /\ t[m + 1] \in Nat
        BY <1>2, <2>2, SMTT(40)
    <2> QED BY <1>3, <2>1, <2>2, <2>3, <2>4, <2>5
<1>6. L \in Good
    <2> HIDE DEF Good
    <2>1. Nat \subseteq Good
        BY <1>4, <1>5, NatSetInduction
    <2> QED BY <1>2, <2>1
<1>7. n + L = Len(s) /\ DOMAIN s = 1 .. Len(s)
    OBVIOUS
<1>8. Sum(s, DOMAIN s) = Sum(a, DOMAIN a) + Sum(t, DOMAIN t)
    BY <1>2, <1>3, <1>6, <1>7
<1> QED BY <1>8, BytesAre DEF a, t

-----------------------------------------------------------------------------
(* The decompressing stream: where its bytes are                           *)

LEMMA ReaderFollowsInit == Read!Init => ReaderFollows
<1>1. <<>> \in Seq(Nat) /\ 0 \in Nat
    OBVIOUS
<1> QED BY <1>1 DEF Read!Init, ReaderFollows, ReaderTypes, ReaderPlaces

LEMMA ReaderFollowsSame == ReaderFollows /\ UNCHANGED rVars => ReaderFollows'
BY DEF ReaderFollows, ReaderTypes, ReaderPlaces, Ahead, rVars

LEMMA StartFollows ==
    ASSUME NEW codes \in SeqOf(1 .. MaxExpansion, MaxCodes), Read!Start(codes)
    PROVE  ReaderFollows'
<1>1. codes \in Seq(Nat)
    BY SessionsConstants DEF SeqOf
<1>2. /\ todo' = codes /\ rAvailIn' = <<>> /\ held' = 0 /\ outLen' = 0 /\ rDelivered' = 0
      /\ original' = Read!Bytes(codes) /\ rPc' = "idle"
    BY DEF Read!Start
<1>3. Read!Bytes(codes) \in Nat /\ Read!Bytes(<<>>) = 0 /\ <<>> \in Seq(Nat)
    BY <1>1, BytesNat, BytesEmpty
<1>4. Ahead' = Read!Bytes(codes)
    BY <1>2, <1>3 DEF Ahead
<1> QED BY <1>1, <1>2, <1>3, <1>4 DEF ReaderFollows, ReaderTypes, ReaderPlaces

LEMMA UpdateFollows ==
    ASSUME ReaderFollows, NEW n \in 1 .. MaxCodes, Read!Update(n)
    PROVE  ReaderFollows'
<1>1. /\ rPc = "idle" /\ rRet = "ok" /\ n \in 0 .. Len(todo) /\ rPc' = "check"
      /\ rAvailIn' = SubSeq(todo, 1, n) /\ todo' = SubSeq(todo, n + 1, Len(todo))
      /\ UNCHANGED <<held, outLen, original, rDelivered>>
    BY SessionsConstants DEF Read!Update, ReaderFollows, ReaderTypes
<1>2. Read!Bytes(rAvailIn') + Read!Bytes(todo') = Read!Bytes(todo)
    BY <1>1, BytesSplit DEF ReaderFollows, ReaderTypes
<1>3. rAvailIn' \in Seq(Nat) /\ todo' \in Seq(Nat)
    BY <1>1, SMTT(40) DEF ReaderFollows, ReaderTypes
<1>4. /\ Read!Bytes(rAvailIn') \in Nat /\ Read!Bytes(todo') \in Nat /\ Read!Bytes(todo) \in Nat
      /\ Read!Bytes(<<>>) = 0
    BY <1>3, BytesNat, BytesEmpty DEF ReaderFollows, ReaderTypes
<1>5. rAvailIn = <<>> /\ rDelivered + Ahead = original
    BY <1>1 DEF ReaderFollows, ReaderPlaces
<1>6. Ahead' = Ahead
    BY <1>1, <1>2, <1>4, <1>5 DEF Ahead, ReaderFollows, ReaderTypes
<1> QED BY <1>1, <1>3, <1>5, <1>6 DEF ReaderFollows, ReaderTypes, ReaderPlaces

LEMMA InflateFollows ==
    ASSUME ReaderFollows, Read!Inflate
    PROVE  ReaderFollows'
<1> DEFINE Decoded(m) == held + Read!Bytes(SubSeq(rAvailIn, 1, m))
<1>1. PICK n \in 0 .. Len(rAvailIn) :
        /\ Decoded(n) >= BlockSize \/ n = Len(rAvailIn)
        /\ outLen' = Min({Decoded(n), BlockSize})
        /\ held' = Decoded(n) - outLen'
        /\ rAvailIn' = SubSeq(rAvailIn, n + 1, Len(rAvailIn))
    BY DEF Read!Inflate, Read!Min, Min
<1>2. /\ rPc = "inflate" /\ rPc' = "handle" /\ UNCHANGED <<todo, original, rDelivered>>
      /\ streamEnd' = (todo = <<>> /\ rAvailIn' = <<>> /\ held' = 0)
    BY DEF Read!Inflate
<1>3. /\ SubSeq(rAvailIn, 1, n) \in Seq(Nat) /\ rAvailIn' \in Seq(Nat) /\ rAvailIn \in Seq(Nat) /\ todo \in Seq(Nat)
      /\ n = Len(rAvailIn) => rAvailIn' = <<>>
    <2>1. rAvailIn \in Seq(Nat) /\ todo \in Seq(Nat)
        BY DEF ReaderFollows, ReaderTypes
    <2>2. SubSeq(rAvailIn, 1, n) \in Seq(Nat) /\ rAvailIn' \in Seq(Nat)
        BY <1>1, <2>1
    <2>3. n = Len(rAvailIn) => Len(rAvailIn') = 0
        BY <1>1, <2>1
    <2> QED BY <2>1, <2>2, <2>3, EmptySeq
<1>4. Read!Bytes(SubSeq(rAvailIn, 1, n)) + Read!Bytes(rAvailIn') = Read!Bytes(rAvailIn)
    BY <1>1, <1>3, BytesSplit
<1>5. /\ Read!Bytes(SubSeq(rAvailIn, 1, n)) \in Nat /\ Read!Bytes(rAvailIn') \in Nat
      /\ Read!Bytes(rAvailIn) \in Nat /\ Read!Bytes(todo) \in Nat
    BY <1>3, BytesNat
<1>6. Decoded(n) \in Nat
    BY <1>5 DEF ReaderFollows, ReaderTypes
<1> HIDE DEF Decoded
<1>7. outLen' \in Nat /\ outLen' <= Decoded(n) /\ (outLen' < BlockSize => outLen' = Decoded(n))
    <2> DEFINE S == {Decoded(n), BlockSize}
    <2>1. S \in SUBSET Nat /\ S # {}
        BY <1>6, SessionsConstants
    <2>2. Min(S) \in S /\ \A y \in S : Min(S) <= y
        <3> HIDE DEF S
        <3> QED BY <2>1, MinNat
    <2> QED BY <1>1, <1>6, <2>1, <2>2
<1>8. held' \in Nat /\ outLen' + held' = Decoded(n)
    BY <1>1, <1>6, <1>7
<1>9. streamEnd' \/ outLen' < BlockSize => rAvailIn' = <<>>
    <2>1. streamEnd' => rAvailIn' = <<>>
        BY <1>2
    <2>2. outLen' < BlockSize => ~(Decoded(n) >= BlockSize)
        BY <1>6, <1>7, SessionsConstants
    <2> QED BY <1>1, <1>3, <2>1, <2>2
<1>10. outLen' + Ahead' = Ahead
    <2>1. outLen' + held' = held + Read!Bytes(SubSeq(rAvailIn, 1, n)) /\ held \in Nat
        BY <1>8 DEF Decoded, ReaderFollows, ReaderTypes
    <2>2. Ahead' = held' + Read!Bytes(rAvailIn') + Read!Bytes(todo)
        BY <1>2 DEF Ahead
    <2>3. outLen' \in Nat /\ held' \in Nat
        BY <1>7, <1>8
    <2>4. Ahead = held + Read!Bytes(rAvailIn) + Read!Bytes(todo)
        BY DEF Ahead
    <2>5. PICK o \in Nat, h \in Nat : o = outLen' /\ h = held'
        BY <2>3
    <2>6. PICK b \in Nat, c \in Nat, r \in Nat, t \in Nat :
            /\ b = Read!Bytes(SubSeq(rAvailIn, 1, n)) /\ c = Read!Bytes(rAvailIn')
            /\ r = Read!Bytes(rAvailIn) /\ t = Read!Bytes(todo)
        BY <1>5
    <2>7. o + h = held + b /\ b + c = r
        BY <1>4, <2>1, <2>5, <2>6
    <2>8. o + (h + c + t) = held + r + t
        BY <2>1, <2>7
    <2>9. h + c + t = Ahead'
        BY <2>2, <2>5, <2>6
    <2>10. held + r + t = Ahead
        BY <2>4, <2>6
    <2> QED BY <2>5, <2>8, <2>9, <2>10
<1>11. Ahead' \in Nat
    BY <1>2, <1>5, <1>8 DEF Ahead
<1>12. rDelivered + Ahead = original /\ rDelivered \in Nat /\ original \in Nat
    BY <1>2 DEF ReaderFollows, ReaderPlaces, ReaderTypes
<1>13. rDelivered + outLen' + Ahead' = original
    <2>1. PICK a \in Nat : a = Ahead'
        BY <1>11
    <2>2. PICK o \in Nat : o = outLen'
        BY <1>7
    <2>3. rDelivered + (o + a) = original
        BY <1>10, <1>12, <2>1, <2>2
    <2>4. rDelivered + o + a = original
        BY <2>3, <1>12
    <2> QED BY <2>1, <2>2, <2>4
<1> QED BY <1>2, <1>3, <1>7, <1>8, <1>9, <1>12, <1>13 DEF ReaderFollows, ReaderTypes, ReaderPlaces

LEMMA HandleFollows ==
    ASSUME ReaderFollows, Read!StreamReadHandle
    PROVE  ReaderFollows'
<1>1. /\ rPc = "handle" /\ UNCHANGED <<todo, rAvailIn, held, outLen, original>> /\ Ahead' = Ahead
      /\ rDelivered' = rDelivered \/ rDelivered' = rDelivered + outLen
    BY DEF Read!StreamReadHandle, Ahead
<1>2. ReaderTypes'
    BY <1>1 DEF ReaderFollows, ReaderTypes
<1>3. Ahead \in Nat
    BY BytesNat DEF ReaderFollows, ReaderTypes, Ahead
<1>4. CASE Read!Return("output error")
    <2>1. rPc' = "idle" /\ rRet' = "output error"
        BY <1>4 DEF Read!Return
    <2> QED BY <1>2, <2>1 DEF ReaderFollows, ReaderPlaces
<1>5. CASE rDelivered' = rDelivered + outLen /\ Read!LoopDone /\ Read!Return("ok")
    <2>1. rPc' = "idle" /\ rAvailIn = <<>>
        BY <1>1, <1>5 DEF Read!Return, Read!LoopDone, ReaderFollows, ReaderPlaces
    <2>2. rDelivered' + Ahead' = original'
        BY <1>1, <1>3, <1>5 DEF ReaderFollows, ReaderPlaces, ReaderTypes
    <2> QED BY <1>1, <1>2, <2>1, <2>2 DEF ReaderFollows, ReaderPlaces
<1>6. CASE rDelivered' = rDelivered + outLen /\ rPc' = "check"
    <2>2. rDelivered' + Ahead' = original'
        BY <1>1, <1>3, <1>6 DEF ReaderFollows, ReaderPlaces, ReaderTypes
    <2> QED BY <1>1, <1>2, <1>6, <2>2 DEF ReaderFollows, ReaderPlaces
<1> QED BY <1>4, <1>5, <1>6 DEF Read!StreamReadHandle

LEMMA ReaderFollowsStep == ASSUME ReaderFollows, Read!Next PROVE ReaderFollows'
<1>1. CASE Read!UpdateCheck
    <2>1. /\ rPc = "check" /\ UNCHANGED <<todo, rAvailIn, held, outLen, original, rDelivered>> /\ Ahead' = Ahead
          /\ rPc' = "inflate" \/ (rPc' = "idle" /\ rRet' = "cancel")
        BY <1>1 DEF Read!UpdateCheck, Read!Return, Ahead
    <2> QED BY <2>1 DEF ReaderFollows, ReaderTypes, ReaderPlaces
<1>2. CASE Read!End
    <2>1. /\ UNCHANGED <<todo, rAvailIn, held, outLen, original, rDelivered>>
          /\ rPc' = "idle" /\ rRet' = "ended"
        BY <1>2 DEF Read!End, Read!Return
    <2> QED BY <2>1 DEF ReaderFollows, ReaderTypes, ReaderPlaces
<1>3. CASE Read!Cancel
    BY <1>3 DEF Read!Cancel, ReaderFollows, ReaderTypes, ReaderPlaces, Ahead
<1> QED BY <1>1, <1>2, <1>3, StartFollows, UpdateFollows, InflateFollows, HandleFollows DEF Read!Next, SeqOf, Read!SeqOf

-----------------------------------------------------------------------------
(* The sessions together                                                   *)

LEMMA SessionsInitial == SessionsInit => SessionsInv
BY HyperInit, AsyncInit, WriterInit, ReaderInit, ReaderFollowsInit DEF SessionsInit, SessionsInv, StreamInv

LEMMA SessionsStep ==
    SessionsInv /\ [SessionsNext]_<<library, vars, wVars, rVars, aVars>> => SessionsInv'
<1> SUFFICES ASSUME SessionsInv, [SessionsNext]_<<library, vars, wVars, rVars, aVars>> PROVE SessionsInv'
    OBVIOUS
<1>1. Next \/ UNCHANGED vars
    BY DEF SessionsNext
<1>2. Write!Next \/ UNCHANGED wVars
    BY DEF SessionsNext
<1>3. Read!Next \/ UNCHANGED rVars
    BY DEF SessionsNext
<1>4. Async!Next \/ UNCHANGED aVars
    BY DEF SessionsNext
<1>5. HyperInv'
    BY <1>1, HyperStep, HyperSame DEF SessionsInv
<1>6. AsyncInv'
    BY <1>4, AsyncStep, AsyncSame DEF SessionsInv
<1>7. ReaderQuiet' /\ ReaderFollows'
    <2>1. ReaderQuiet /\ ReaderFollows
        BY DEF SessionsInv, StreamInv
    <2> QED BY <1>3, <2>1, ReaderStep, ReaderSame, ReaderFollowsStep, ReaderFollowsSame
<1>8. WriterTypes /\ WriterSession /\ WriterQuiet /\ WriterFollows /\ buf \in Seq(Nat)
    BY DEF SessionsInv, StreamInv, WriterQuiet
<1>9. WriterTypes' /\ WriterSession' /\ WriterQuiet' /\ WriterFollows'
    BY <1>2, <1>8, WriterTypesStep, WriterSessionStep, WriterQuietStep, WriterFollowsStep, WriterSame
<1> QED BY <1>5, <1>6, <1>7, <1>9 DEF SessionsInv, StreamInv

LEMMA SessionsInvariant == SessionsSpec => []SessionsInv
BY SessionsInitial, SessionsStep, PTL DEF SessionsSpec

-----------------------------------------------------------------------------
(* What follows                                                            *)

\* A request that HyperAio accepted is answered or still on its way, once if nothing
\* fails, and so is an asynchronous call, whose context has an owner until its end:
\* the requests are in one place at a time, and a context in one of the stations
\* of a call.
THEOREM RequestsAreSettled == SessionsSpec => []RequestsSettled
<1>1. ASSUME HyperInv PROVE RequestsAccounted
    BY <1>1 DEF HyperInv, Unanswered, RequestsAccounted, AnsweredOnce
<1>2. ASSUME AsyncInv, NEW i \in AsyncCalls
      PROVE  /\ context[i] # "misused"
             /\ context[i] = "live" /\ ~Async!Lost(i) =>
                    (this = i /\ aHeld) \/ i \in events \/ work[i] \in {"queued", "executed"}
    <2>1. CallOk(i)
        BY <1>2 DEF AsyncInv
    <2>2. CASE Unborn(i)
        BY <2>2 DEF Unborn
    <2>3. CASE Beginning(i)
        BY <2>3 DEF Beginning, Under
    <2>4. CASE Handing(i)
        BY <2>4 DEF Handing
    <2>5. CASE Refused(i)
        BY <2>5 DEF Refused, Under
    <2>6. CASE Accepted(i)
        BY <2>6 DEF Accepted
    <2>7. CASE Settled(i)
        BY <2>7 DEF Settled, Async!Lost
    <2>8. CASE Dropped(i)
        BY <2>8 DEF Dropped, Async!Lost
    <2> QED BY <2>1, <2>2, <2>3, <2>4, <2>5, <2>6, <2>7, <2>8 DEF CallOk
<1>3. ASSUME AsyncInv PROVE Async!ContextsOwned
    BY <1>2, <1>3 DEF Async!ContextsOwned
<1>4. ASSUME AsyncInv PROVE Async!AnsweredIfAccepted
    BY <1>4 DEF AsyncInv, AsyncTypes, CallOk, Under, Unborn, Beginning, Handing, Refused, Accepted, Settled,
        Dropped, Async!AnsweredIfAccepted
<1>5. SessionsInv => RequestsSettled
    BY <1>1, <1>3, <1>4 DEF SessionsInv, RequestsSettled
<1> QED BY <1>5, SessionsInvariant, PTL

\* No callback of a stream begins after its Cancel has returned, but for the one or
\* two that were already past the check when Cancel was called.
THEOREM StreamsGoQuiet == SessionsSpec => []QuietAfterCancel
<1>1. SessionsInv => QuietAfterCancel
    BY DEF SessionsInv, StreamInv, WriterQuiet, ReaderQuiet, QuietAfterCancel, Write!QuietAfterCancel,
        Read!QuietAfterCancel
<1> QED BY <1>1, SessionsInvariant, PTL

\* A compressing session that ends well has delivered all it was given, in order and
\* once, however the chunks fall on the buffer; and an Update of the decompressing
\* session that returns well has delivered every byte the input so far expands to, but
\* for what the decoder still holds back.
THEOREM StreamsAreComplete == SessionsSpec => []StreamsComplete
<1>1. SessionsInv => Write!EndDeliversAll
    <2> SUFFICES ASSUME SessionsInv, wPc = "idle", state = "ended", Clean
                 PROVE  wDelivered = left \o given
        BY DEF Write!EndDeliversAll, Clean
    <2>1. wDelivered = given \o left /\ (left = <<>> \/ given = <<>>)
        BY DEF SessionsInv, StreamInv, WriterFollows, WriterSession
    <2>2. given \in Seq(Nat) /\ left \in Seq(Nat)
        BY DEF SessionsInv, StreamInv, WriterTypes
    <2>3. /\ given \o <<>> = given /\ <<>> \o given = given
          /\ left \o <<>> = left /\ <<>> \o left = left
        BY <2>2, Parts
    <2>4. given \o left = left \o given
        BY <2>1, <2>3, Zenon
    <2> QED BY <2>1, <2>4, Zenon
<1>2. SessionsInv => Read!NothingSkipped
    <2> SUFFICES ASSUME SessionsInv, rPc = "idle", rRet = "ok"
                 PROVE  rAvailIn = <<>> /\ rDelivered + held + Read!Bytes(todo) = original
        BY DEF Read!NothingSkipped
    <2>1. /\ rAvailIn = <<>> /\ rDelivered + Ahead = original
          /\ rDelivered \in Nat /\ held \in Nat /\ todo \in Seq(Nat)
        BY DEF SessionsInv, StreamInv, ReaderFollows, ReaderPlaces, ReaderTypes
    <2>2. PICK t \in Nat : t = Read!Bytes(todo)
        BY <2>1, BytesNat
    <2>3. Ahead = held + 0 + t
        BY <2>1, <2>2, BytesEmpty DEF Ahead
    <2>4. rDelivered + held + t = original
        BY <2>1, <2>2, <2>3
    <2> QED BY <2>1, <2>2, <2>4
<1> QED BY <1>1, <1>2, SessionsInvariant, PTL DEF StreamsComplete
=============================================================================

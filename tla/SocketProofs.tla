---------------------------- MODULE SocketProofs ----------------------------
(***************************************************************************)
(* What CActiveSock and CPassiveSock guarantee for every clock, timeout,   *)
(* message length and number of bytes, and however calls, completions,     *)
(* timeouts and the stop event follow one another.  The names of the       *)
(* client's socket stand as they are, those of the server's behind         *)
(* Passive!; both classes have the same variables.                         *)
(***************************************************************************)
EXTENDS ActiveSock, TLAPS

Passive == INSTANCE PassiveSock

-----------------------------------------------------------------------------
(* The inductive invariants.                                                *)

\* An operation has bytes only when it is complete.
OpBytes ==
    /\ recvOp.state # "done" => recvOp.bytes = 0
    /\ sendOp.state # "done" => sendOp.bytes = 0

\* The kernel works on a send exactly while a call waits for it, and there is
\* room left to give it up.
SendsAttended ==
    /\ sendOp.state # "none" <=> pc \in {"sendWait", "sendResult"}
    /\ sendOp.state # "none" => strays < MaxStrays

\* Only a call that is under way has bytes its loop has moved.
IdleEmpty == pc = "idle" => moved = 0

\* The bytes the receives have taken: returned, dropped, or still with a loop.
Taken == returned + dropped
             + (IF pc \in {"recv", "recvWait", "recvResult"} THEN moved ELSE 0)

\* The bytes the sends have reported, or their loop will.
Told == reported
            + (IF pc \in {"send", "sendWait", "sendResult"} THEN moved ELSE 0)

\* What has been reported, and what the send under way will report, has been
\* accepted by the kernel.
ReportedAccepted == Told + Count(sendOp.bytes) <= accepted

Common ==
    /\ TypeOK
    /\ OpBytes
    /\ IdleEmpty
    /\ BytesReturnedOnce
    /\ SendsAttended
    /\ ReportedAccepted

IInv == Common /\ OneReceive

\* The server's receive event is not set while its receive is under way.
EventClear == recvOp.state = "pending" => "read" \notin signalled

\* The deadline is never further away than the timeout.
DeadlineNear == RecvEndTime <= now + TimeoutSeconds

PassiveIInv ==
    /\ Common
    /\ Passive!OneReceive
    /\ recvOp.state # "none" => recvOp.event = "read"
    /\ EventClear
    /\ DeadlineNear
    /\ RecvWaitBounded

-----------------------------------------------------------------------------
(* Operators.                                                               *)

\* What the invariant says of the types, spelled out.
Typed ==
    /\ MaxNow \in Nat \ {0} /\ MaxLen \in Nat \ {0} /\ MaxBytes \in Nat
    /\ MaxStrays \in Nat \ {0} /\ TimeoutSeconds \in Nat \ {0}
    /\ DwordSeconds \in Nat /\ DwordSeconds > MaxNow + TimeoutSeconds
    /\ now \in 1 .. MaxNow /\ signalled \subseteq Events
    /\ recvOp \in Op /\ sendOp \in Op
    /\ recvOp.bytes \in FAILED .. MaxLen /\ sendOp.bytes \in FAILED .. MaxLen
    /\ recvOp.len \in 0 .. MaxLen /\ sendOp.len \in 0 .. MaxLen
    /\ recvOp.event \in Events
    /\ strays \in 0 .. MaxStrays
    /\ received \in 0 .. MaxBytes /\ accepted \in 0 .. MaxBytes
    /\ RecvInitiated \in BOOLEAN
    /\ RecvEndTime \in Times /\ SendEndTime \in Times
    /\ pc \in {"idle", "recv", "recvWait", "recvResult",
               "send", "sendWait", "sendResult"}
    /\ loop \in BOOLEAN /\ want \in 0 .. MaxLen
    /\ until \in 0 .. MaxNow + DwordSeconds
    /\ moved \in 0 .. MaxBytes
    /\ returned \in 0 .. MaxBytes /\ dropped \in 0 .. MaxBytes
    /\ reported \in 0 .. MaxBytes

LEMMA Types == ASSUME TypeOK PROVE Typed
BY WinsockAssumption DEF TypeOK, KernelTypeOK, Op, Typed

\* No operation, one under way and a complete one are operations, and their
\* parts are what they are made of.
LEMMA NoOperation ==
    ASSUME MaxLen \in Nat
    PROVE  NoOp \in Op /\ NoOp.state = "none" /\ NoOp.bytes = 0
BY DEF NoOp, Op, Events, FAILED

LEMMA OperationPending ==
    ASSUME MaxLen \in Nat, NEW e \in Events, NEW n \in 0 .. MaxLen
    PROVE  /\ Pending(e, n) \in Op /\ Pending(e, n).state = "pending"
           /\ Pending(e, n).event = e /\ Pending(e, n).bytes = 0
<1>1. 0 \in FAILED .. MaxLen
  BY DEF FAILED
<1> QED BY <1>1 DEF Op, Pending

LEMMA OperationDone ==
    ASSUME NEW op \in Op, NEW k \in FAILED .. MaxLen
    PROVE  /\ Done(op, k) \in Op /\ Done(op, k).state = "done"
           /\ Done(op, k).event = op.event /\ Done(op, k).bytes = k
<1> HIDE DEF FAILED
<1> QED BY DEF Op, Done

\* The time a wait may take, whatever the time left: less than 49 days, and as
\* long as there is time left exactly that.
LEMMA WaitRange ==
    ASSUME DwordSeconds \in Nat, DwordSeconds > 0, NEW t \in Int
    PROVE  /\ WaitSeconds(t) \in 0 .. DwordSeconds - 1
           /\ t \in 0 .. DwordSeconds - 1 => WaitSeconds(t) = t
BY DEF WaitSeconds

-----------------------------------------------------------------------------
(* The kernel, the clock and the stop event.                                *)

LEMMA EnvironmentKeeps ==
    ASSUME Common, Environment
    PROVE  /\ Common'
           /\ \/ recvOp'.state = recvOp.state
              \/ recvOp'.state = "done" /\ recvOp.state = "pending"
           /\ recvOp'.event = recvOp.event
<1>0. Typed
  BY Types DEF Common
<1> USE <1>0 DEF Typed
<1>1. CASE KernelRecv
  <2>1. PICK k \in RecvResults(recvOp.len) :
          recvOp' = Done(recvOp, k) /\ received' = received + Count(k)
    BY <1>1 DEF KernelRecv
  <2>2. /\ k \in FAILED .. MaxLen /\ received + Count(k) <= MaxBytes
        /\ Count(k) \in Nat
    BY <2>1 DEF RecvResults, Count, FAILED
  <2>3. /\ recvOp' \in Op /\ recvOp'.state = "done" /\ recvOp'.bytes = k
        /\ recvOp'.event = recvOp.event
    BY <2>1, <2>2, OperationDone
  <2>4. received' \in 0 .. MaxBytes
    BY <2>1, <2>2
  <2>5. UNCHANGED <<now, sendOp, strays, accepted, callerVars>>
    BY <1>1 DEF KernelRecv, Environment
  <2>6. signalled' \subseteq Events /\ recvOp.state = "pending"
    BY <1>1 DEF KernelRecv
  <2>7. TypeOK'
    BY <2>3, <2>4, <2>5, <2>6 DEF TypeOK, KernelTypeOK, callerVars, sockVars, callVars, counts, Times
  <2>8. BytesReturnedOnce'
    BY <2>1, <2>2, <2>3, <2>5, <2>6
       DEF Common, BytesReturnedOnce, callerVars, callVars, counts
  <2> QED BY <2>3, <2>5, <2>6, <2>7, <2>8
     DEF Common, OpBytes, IdleEmpty, SendsAttended, ReportedAccepted, Told,
         callerVars, callVars, counts
<1>2. CASE KernelSend
  <2>1. PICK k \in SendResults(sendOp.len) :
          sendOp' = Done(sendOp, k) /\ accepted' = accepted + Count(k)
    BY <1>2 DEF KernelSend
  <2>2. /\ k \in FAILED .. MaxLen /\ accepted + Count(k) <= MaxBytes
        /\ Count(k) \in Nat
    BY <2>1 DEF SendResults, Count, FAILED
  <2>3. /\ sendOp' \in Op /\ sendOp'.state = "done" /\ sendOp'.bytes = k
    BY <2>1, <2>2, OperationDone
  <2>4. accepted' \in 0 .. MaxBytes
    BY <2>1, <2>2
  <2>5. UNCHANGED <<now, recvOp, strays, received, callerVars>>
    BY <1>2 DEF KernelSend, Environment
  <2>6. signalled' \subseteq Events /\ sendOp.state = "pending"
    BY <1>2 DEF KernelSend, Events
  <2>7. TypeOK'
    BY <2>3, <2>4, <2>5, <2>6 DEF TypeOK, KernelTypeOK, callerVars, sockVars, callVars, counts, Times
  <2>8. ReportedAccepted'
    BY <2>1, <2>2, <2>3, <2>5, <2>6
       DEF Common, ReportedAccepted, Told, OpBytes, Count, FAILED,
           callerVars, callVars, counts
  <2>9. BytesReturnedOnce'
    BY <2>5 DEF Common, BytesReturnedOnce, callerVars, callVars, counts
  <2>10. SendsAttended' /\ OpBytes' /\ IdleEmpty'
    BY <2>3, <2>5, <2>6 DEF Common, OpBytes, IdleEmpty, SendsAttended, callerVars, callVars
  <2>11. recvOp' = recvOp
    BY <2>5
  <2> QED BY <2>7, <2>8, <2>9, <2>10, <2>11 DEF Common
<1>3. CASE KernelStray
  <2>1. PICK k \in SendResults(MaxLen) : accepted' = accepted + Count(k)
    BY <1>3 DEF KernelStray
  <2>2. accepted + Count(k) <= MaxBytes /\ Count(k) \in Nat
    BY <2>1 DEF SendResults, Count, FAILED
  <2>3. accepted' \in 0 .. MaxBytes /\ accepted' >= accepted
    BY <2>1, <2>2
  <2>4. UNCHANGED <<now, recvOp, sendOp, received, callerVars>>
    BY <1>3 DEF KernelStray, Environment
  <2>5. signalled' \subseteq Events /\ strays > 0 /\ strays' = strays - 1
    BY <1>3 DEF KernelStray, Events
  <2>6. TypeOK'
    BY <2>3, <2>4, <2>5 DEF TypeOK, KernelTypeOK, callerVars, sockVars, callVars, counts, Times
  <2>7. ReportedAccepted'
    BY <2>3, <2>4
       DEF Common, ReportedAccepted, Told, Count, FAILED, callerVars, callVars, counts
  <2>8. BytesReturnedOnce'
    BY <2>4 DEF Common, BytesReturnedOnce, callerVars, callVars, counts
  <2>9. SendsAttended' /\ OpBytes' /\ IdleEmpty'
    BY <2>4, <2>5 DEF Common, OpBytes, IdleEmpty, SendsAttended, callerVars, callVars
  <2>10. recvOp' = recvOp
    BY <2>4
  <2> QED BY <2>6, <2>7, <2>8, <2>9, <2>10 DEF Common
<1>4. CASE Tick \/ SetStop
  <2>1. UNCHANGED <<recvOp, sendOp, strays, received, accepted, callerVars>>
    BY <1>4 DEF Tick, SetStop, Environment
  <2>2. signalled' \subseteq Events /\ now' \in 1 .. MaxNow
    <3>1. CASE Tick
      BY <3>1 DEF Tick
    <3>2. CASE SetStop
      BY <3>2 DEF SetStop, Events
    <3> QED BY <1>4, <3>1, <3>2
  <2>3. TypeOK'
    BY <2>1, <2>2 DEF TypeOK, KernelTypeOK, callerVars, sockVars, callVars, counts, Times
  <2>4. BytesReturnedOnce' /\ ReportedAccepted'
    BY <2>1 DEF Common, BytesReturnedOnce, ReportedAccepted, Told,
               callerVars, callVars, counts
  <2>5. SendsAttended' /\ OpBytes' /\ IdleEmpty'
    BY <2>1 DEF Common, OpBytes, IdleEmpty, SendsAttended, callerVars, callVars
  <2>6. recvOp' = recvOp
    BY <2>1
  <2> QED BY <2>3, <2>4, <2>5, <2>6 DEF Common
<1> QED BY <1>1, <1>2, <1>3, <1>4 DEF Environment, Kernel

-----------------------------------------------------------------------------
(* How a call ends, waits or goes round its loop.                           *)

CallTyped ==
    /\ pc \in {"idle", "recv", "recvWait", "recvResult",
               "send", "sendWait", "sendResult"}
    /\ loop \in BOOLEAN /\ want \in 0 .. MaxLen
    /\ until \in 0 .. MaxNow + DwordSeconds
    /\ moved \in Nat /\ IdleEmpty

Receiving == pc \in {"recv", "recvWait", "recvResult"}
Sending   == pc \in {"send", "sendWait", "sendResult"}

\* A receiving call has taken k more bytes, whatever becomes of them.
Took(k) ==
    /\ CallTyped' /\ returned' \in Nat /\ dropped' \in Nat
    /\ Taken' = Taken + k

\* A sending call reports no more than k bytes beyond those it had moved.
Tells(k) ==
    /\ CallTyped' /\ reported' \in Nat
    /\ Told' <= Told + k

LEMMA Sums == ASSUME Typed PROVE Taken \in Nat /\ Told \in Nat
BY DEF Typed, Taken, Told

\* What is told of more stays within what is accepted of more.
LEMMA Accepts ==
    ASSUME NEW a \in Nat, NEW c \in Nat, NEW w \in Nat, NEW k \in Nat, NEW b \in Int,
           a + w <= c, b <= a + k
    PROVE  /\ b + w <= c + k
           /\ k = 0 => b + w <= c /\ b + 0 <= c
           /\ k = w => b + 0 <= c
OBVIOUS

LEMMA Returned ==
    ASSUME Typed, Return
    PROVE  CallTyped' /\ pc' = "idle" /\ moved' = 0
<1>1. 0 \in 0 .. MaxLen /\ 0 \in 0 .. MaxNow + DwordSeconds
  BY DEF Typed
<1> QED BY <1>1 DEF Return, CallTyped, IdleEmpty

LEMMA Given ==
    ASSUME Typed, Receiving, NEW k \in Nat, Give(k)
    PROVE  Took(k) /\ pc' = "idle"
<1>1. CallTyped' /\ pc' = "idle" /\ moved' = 0
  BY Returned DEF Give
<1>2. Taken = returned + dropped + moved /\ Taken' = returned' + dropped' + 0
  BY <1>1 DEF Taken, Receiving
<1> QED BY <1>1, <1>2 DEF Give, Took, Typed

LEMMA Failed ==
    ASSUME Typed, Receiving, RecvFails
    PROVE  Took(0) /\ pc' = "idle"
<1>1. CallTyped' /\ pc' = "idle" /\ moved' = 0
  BY Returned DEF RecvFails
<1>2. Taken = returned + dropped + moved /\ Taken' = returned' + dropped' + 0
  BY <1>1 DEF Taken, Receiving
<1> QED BY <1>1, <1>2 DEF RecvFails, Took, Typed

LEMMA EndOfStream ==
    ASSUME Typed, Receiving, Closed
    PROVE  Took(0) /\ pc' = "idle"
BY Given, Failed DEF Closed

LEMMA WentRound ==
    ASSUME Typed, NEW where \in {"recv", "send"}, NEW k \in Nat, Again(where, k)
    PROVE  CallTyped' /\ pc' = where /\ moved' = moved + k
<1>1. /\ pc' = where /\ want' = want - k /\ until' = 0 /\ loop' = loop
      /\ moved' = moved + k /\ k < want
  BY DEF Again
<1>2. want - k \in 0 .. MaxLen /\ 0 \in 0 .. MaxNow + DwordSeconds
  BY <1>1 DEF Typed
<1> QED BY <1>1, <1>2 DEF Typed, CallTyped, IdleEmpty

LEMMA Progressed ==
    ASSUME Typed, Receiving, NEW k \in Nat, Progress(k)
    PROVE  Took(k) /\ pc' \in {"idle", "recv"}
<1>1. CASE Again("recv", k) /\ UNCHANGED <<returned, dropped>>
  <2>1. CallTyped' /\ pc' = "recv" /\ moved' = moved + k
    BY <1>1, WentRound
  <2>2. Taken = returned + dropped + moved /\ Taken' = returned' + dropped' + moved'
    BY <2>1 DEF Taken, Receiving
  <2> QED BY <1>1, <2>1, <2>2 DEF Took, Typed
<1>2. CASE Give(k)
  BY <1>2, Given
<1> QED BY <1>1, <1>2 DEF Progress

LEMMA Waited ==
    ASSUME Typed, NEW where \in {"recvWait", "sendWait"}, NEW t \in Int,
           Wait(where, t)
    PROVE  CallTyped' /\ pc' = where /\ moved' = moved
<1>1. WaitSeconds(t) \in 0 .. DwordSeconds - 1
  BY WaitRange DEF Typed
<1>2. now + WaitSeconds(t) \in 0 .. MaxNow + DwordSeconds
  BY <1>1 DEF Typed
<1> QED BY <1>2 DEF Typed, Wait, CallTyped, IdleEmpty

\* A call that waits, or goes from its wait to the result, has taken nothing.
LEMMA TookNothing ==
    ASSUME Typed, Receiving, CallTyped', pc' \in {"recvWait", "recvResult"},
           UNCHANGED <<moved, returned, dropped>>
    PROVE  Took(0)
<1>1. Taken' = Taken /\ Taken \in Nat
  BY Sums DEF Taken, Receiving
<1> QED BY <1>1 DEF Took, Typed

LEMMA ToldNothing ==
    ASSUME Typed, Sending, CallTyped', pc' \in {"sendWait", "sendResult"},
           UNCHANGED <<moved, reported>>
    PROVE  Tells(0)
<1>1. Told' = Told /\ Told \in Nat
  BY Sums DEF Told, Sending
<1> QED BY <1>1 DEF Tells, Typed

LEMMA SendFailed ==
    ASSUME Typed, Sending, SendFails
    PROVE  Tells(0) /\ pc' = "idle"
<1>1. CallTyped' /\ pc' = "idle" /\ moved' = 0
  BY Returned DEF SendFails
<1>2. Told = reported + moved /\ Told' = reported' + 0
  BY <1>1 DEF Told, Sending
<1> QED BY <1>1, <1>2 DEF SendFails, Tells, Typed

LEMMA SentGiven ==
    ASSUME Typed, Sending, NEW k \in Nat, GiveSent(k)
    PROVE  Tells(k) /\ pc' = "idle"
<1>1. CallTyped' /\ pc' = "idle" /\ moved' = 0
  BY Returned DEF GiveSent
<1>2. Told = reported + moved /\ Told' = reported' + 0
  BY <1>1 DEF Told, Sending
<1> QED BY <1>1, <1>2 DEF GiveSent, Tells, Typed

LEMMA SendProgressed ==
    ASSUME Typed, Sending, NEW k \in Nat, SendProgress(k)
    PROVE  Tells(k) /\ pc' \in {"idle", "send"}
<1>1. CASE Again("send", k) /\ UNCHANGED reported
  <2>1. CallTyped' /\ pc' = "send" /\ moved' = moved + k
    BY <1>1, WentRound
  <2>2. Told = reported + moved /\ Told' = reported' + moved'
    BY <2>1 DEF Told, Sending
  <2> QED BY <1>1, <2>1, <2>2 DEF Tells, Typed
<1>2. CASE k = 0 /\ (SendFails \/ GiveSent(0))
  BY <1>2, SendFailed, SentGiven
<1>3. CASE GiveSent(k)
  BY <1>3, SentGiven
<1> QED BY <1>1, <1>2, <1>3 DEF SendProgress

\* Steps that leave the send alone, and steps that leave the receive alone.
LEMMA ReceiveStep ==
    ASSUME Common,
           UNCHANGED <<now, sendOp, strays, accepted, reported, SendEndTime>>,
           Receiving, pc' \in {"idle", "recv", "recvWait", "recvResult"},
           NEW k \in Nat, Took(k), RecvInitiated' \in BOOLEAN, RecvEndTime' \in Times,
           signalled' \subseteq Events, recvOp' \in Op,
           recvOp'.state # "done" => recvOp'.bytes = 0,
           received' \in 0 .. MaxBytes, BytesReturnedOnce'
    PROVE  Common'
<1>0. Typed
  BY Types DEF Common
<1>1. /\ moved' \in 0 .. MaxBytes /\ returned' \in 0 .. MaxBytes
      /\ dropped' \in 0 .. MaxBytes
  <2> DEFINE waiting == IF recvOp'.state = "done" THEN Count(recvOp'.bytes) ELSE 0
             held == IF pc' \in {"recv", "recvWait", "recvResult"} THEN moved' ELSE 0
  <2>1. waiting \in Nat
    <3>1. recvOp'.bytes \in FAILED .. MaxLen
      BY DEF Op
    <3> QED BY <1>0, <3>1 DEF Count, FAILED, Typed
  <2>2. received' = returned' + dropped' + held + waiting
    BY DEF BytesReturnedOnce
  <2>3. returned' \in Nat /\ dropped' \in Nat /\ moved' \in Nat /\ moved' = held
    BY DEF Took, CallTyped, IdleEmpty
  <2> HIDE DEF waiting, held
  <2>4. \A a, b, c, d \in Nat, r \in 0 .. MaxBytes : r = a + b + c + d =>
            a \in 0 .. MaxBytes /\ b \in 0 .. MaxBytes /\ c \in 0 .. MaxBytes
    BY <1>0 DEF Typed
  <2>5. held \in Nat
    BY <2>3
  <2>6. received' = returned' + dropped' + held + waiting =>
            /\ returned' \in 0 .. MaxBytes /\ dropped' \in 0 .. MaxBytes
            /\ held \in 0 .. MaxBytes
    BY <2>1, <2>3, <2>4, <2>5, Zenon
  <2> QED BY <2>2, <2>3, <2>6
<1>2. TypeOK'
  BY <1>0, <1>1 DEF Typed, TypeOK, KernelTypeOK, Took, CallTyped, Times
<1>3. OpBytes' /\ SendsAttended' /\ IdleEmpty'
  BY DEF Common, OpBytes, SendsAttended, Receiving, Took, CallTyped
<1>4. ReportedAccepted'
  <2>1. Told' = Told
    BY DEF Told, Receiving
  <2> QED BY <2>1 DEF Common, ReportedAccepted
<1> QED BY <1>2, <1>3, <1>4 DEF Common

LEMMA SendStep ==
    ASSUME Common,
           UNCHANGED <<now, recvOp, received, returned, dropped, RecvInitiated,
                       RecvEndTime>>,
           Sending, pc' \in {"idle", "send", "sendWait", "sendResult"},
           NEW k \in Nat, Tells(k), SendEndTime' \in Times,
           signalled' \subseteq Events, sendOp' \in Op,
           sendOp'.state # "done" => sendOp'.bytes = 0,
           strays' \in 0 .. MaxStrays, accepted' \in 0 .. MaxBytes,
           SendsAttended', ReportedAccepted'
    PROVE  Common'
<1>0. Typed
  BY Types DEF Common
<1>1. reported' \in 0 .. MaxBytes /\ moved' \in 0 .. MaxBytes
  <2> DEFINE waiting == Count(sendOp'.bytes)
             held == IF pc' \in {"send", "sendWait", "sendResult"} THEN moved' ELSE 0
  <2>1. waiting \in Nat
    <3>1. sendOp'.bytes \in FAILED .. MaxLen
      BY DEF Op
    <3> QED BY <1>0, <3>1 DEF Count, FAILED, Typed
  <2>2. reported' + held + waiting <= accepted'
    BY DEF ReportedAccepted, Told
  <2>3. reported' \in Nat /\ moved' \in Nat /\ moved' = held
    BY DEF Tells, CallTyped, IdleEmpty
  <2> HIDE DEF waiting, held
  <2>4. \A a, b, c \in Nat, r \in 0 .. MaxBytes : a + b + c <= r =>
            a \in 0 .. MaxBytes /\ b \in 0 .. MaxBytes
    BY <1>0 DEF Typed
  <2> QED BY <2>1, <2>2, <2>3, <2>4
<1>2. TypeOK'
  BY <1>0, <1>1 DEF Typed, TypeOK, KernelTypeOK, Tells, CallTyped, Times
<1>3. OpBytes' /\ IdleEmpty'
  BY DEF Common, OpBytes, Tells, CallTyped
<1>4. BytesReturnedOnce'
  BY DEF Common, BytesReturnedOnce, Sending
<1> QED BY <1>2, <1>3, <1>4 DEF Common

\* Entering a call, and setting a timeout.
LEMMA Entered ==
    ASSUME Common, NEW where \in {"recv", "send"}, NEW n \in 1 .. MaxLen,
           NEW inLoop \in BOOLEAN, Enter(where, n, inLoop),
           RecvEndTime' \in Times, SendEndTime' \in Times
    PROVE  /\ Common' /\ pc = "idle" /\ pc' = where
           /\ UNCHANGED <<now, signalled, recvOp, RecvInitiated>>
<1>0. Typed
  BY Types DEF Common
<1>1. /\ pc = "idle" /\ pc' = where /\ moved' = 0 /\ moved = 0
      /\ UNCHANGED <<now, signalled, recvOp, sendOp, strays, received, accepted,
                     RecvInitiated, returned, dropped, reported>>
  BY DEF Enter, kernelVars, counts, Common, IdleEmpty
<1>2. /\ loop' \in BOOLEAN /\ want' \in 0 .. MaxLen
      /\ until' \in 0 .. MaxNow + DwordSeconds
  BY <1>0 DEF Typed, Enter
<1>3. TypeOK'
  BY <1>0, <1>1, <1>2 DEF Typed, TypeOK, KernelTypeOK, Times
<1>4. OpBytes' /\ SendsAttended' /\ IdleEmpty'
  BY <1>1 DEF Common, OpBytes, SendsAttended, IdleEmpty
<1>5. Taken' = Taken /\ Told' = Told
  BY <1>1 DEF Taken, Told
<1>6. BytesReturnedOnce'
  BY <1>1, <1>5 DEF Common, BytesReturnedOnce, Taken
<1>7. ReportedAccepted'
  BY <1>1, <1>5 DEF Common, ReportedAccepted
<1> QED BY <1>1, <1>3, <1>4, <1>6, <1>7 DEF Common

LEMMA TimeoutSet ==
    ASSUME Common, UNCHANGED <<kernelVars, RecvInitiated, callVars, counts>>,
           RecvEndTime' \in Times, SendEndTime' \in Times
    PROVE  Common'
<1>0. Typed
  BY Types DEF Common
<1>1. UNCHANGED <<now, signalled, recvOp, sendOp, strays, received, accepted,
                  RecvInitiated, pc, loop, want, until, moved, returned,
                  dropped, reported>>
  BY DEF kernelVars, callVars, counts
<1>2. TypeOK'
  BY <1>0, <1>1 DEF Typed, TypeOK, KernelTypeOK, Times
<1>3. BytesReturnedOnce' /\ OpBytes' /\ SendsAttended' /\ ReportedAccepted'
      /\ IdleEmpty'
  BY <1>1 DEF Common, BytesReturnedOnce, OpBytes, SendsAttended,
              ReportedAccepted, Told, IdleEmpty
<1> QED BY <1>2, <1>3 DEF Common

-----------------------------------------------------------------------------
(* Steps both classes take.                                                 *)

\* The call waits or comes back, the receive stays with the kernel.
LEMMA ReceiveLeft ==
    ASSUME Common, UNCHANGED <<now, recvOp, sendOp, strays, received, accepted,
                               SendEndTime, reported>>,
           signalled' \subseteq signalled, Receiving,
           pc' \in {"idle", "recvWait", "recvResult"},
           Took(0), RecvInitiated' \in BOOLEAN, RecvEndTime' \in Times
    PROVE  Common'
<1>0. Typed
  BY Types DEF Common
<1>1. Taken' = Taken
  BY <1>0, Sums DEF Took
<1>2. BytesReturnedOnce'
  BY <1>1 DEF Common, BytesReturnedOnce, Taken
<1>3. /\ recvOp' \in Op /\ (recvOp'.state # "done" => recvOp'.bytes = 0)
      /\ received' \in 0 .. MaxBytes /\ signalled' \subseteq Events
  BY <1>0 DEF Typed, Common, OpBytes
<1>4. pc' \in {"idle", "recv", "recvWait", "recvResult"} /\ 0 \in Nat
  OBVIOUS
<1> QED BY <1>2, <1>3, <1>4, ReceiveStep

\* A receive the kernel goes on with.
LEMMA ReceivePending ==
    ASSUME Common, NEW e \in Events, recvOp.state = "none",
           recvOp' = Pending(e, want), signalled' = signalled \ {e},
           UNCHANGED <<now, sendOp, strays, received, accepted, SendEndTime,
                       reported>>,
           pc = "recv", pc' \in {"idle", "recvWait"},
           Took(0), RecvInitiated' \in BOOLEAN, RecvEndTime' \in Times
    PROVE  Common' /\ recvOp'.event = e
<1>0. Typed
  BY Types DEF Common
<1>1. /\ recvOp' \in Op /\ recvOp'.state = "pending" /\ recvOp'.event = e
      /\ recvOp'.bytes = 0
  BY <1>0, OperationPending DEF Typed
<1>2. Taken' = Taken
  BY <1>0, Sums DEF Took
<1>3. BytesReturnedOnce'
  BY <1>1, <1>2 DEF Common, BytesReturnedOnce, Taken
<1>4. received' \in 0 .. MaxBytes /\ signalled' \subseteq Events
  BY <1>0 DEF Typed
<1>5. pc' \in {"idle", "recv", "recvWait", "recvResult"} /\ Receiving /\ 0 \in Nat
  BY DEF Receiving
<1> QED BY <1>1, <1>3, <1>4, <1>5, ReceiveStep

\* A receive that completes at once.
LEMMA ReceiveAtOnce ==
    ASSUME Common, NEW e \in Events, NEW k \in RecvResults(want) \ {FAILED},
           recvOp.state = "none",
           signalled' = signalled \cup {e},
           received' = received + k, Took(k),
           UNCHANGED <<now, recvOp, sendOp, strays, accepted, SendEndTime,
                       reported>>,
           pc = "recv", pc' \in {"idle", "recv"},
           RecvInitiated' \in BOOLEAN, RecvEndTime' \in Times
    PROVE  Common'
<1>0. Typed
  BY Types DEF Common
<1>1. k \in Nat /\ received + k <= MaxBytes
  BY <1>0 DEF Typed, RecvResults, Count, FAILED
<1>2. received' \in 0 .. MaxBytes
  BY <1>0, <1>1 DEF Typed
<1>3. BytesReturnedOnce'
  <2>1. received = Taken + 0
    BY DEF Common, BytesReturnedOnce, Taken
  <2>2. received' = Taken' + 0
    BY <1>0, <1>1, <2>1, Sums DEF Took, Typed
  <2> QED BY <2>2 DEF BytesReturnedOnce, Taken
<1>4. /\ recvOp' \in Op /\ (recvOp'.state # "done" => recvOp'.bytes = 0)
      /\ signalled' \subseteq Events
  BY <1>0 DEF Typed, Common, OpBytes
<1>5. pc' \in {"idle", "recv", "recvWait", "recvResult"} /\ Receiving
  BY DEF Receiving
<1> QED BY <1>1, <1>2, <1>3, <1>4, <1>5, ReceiveStep

\* The receive is complete and its bytes are taken.
LEMMA ReceiveTaken ==
    ASSUME Common, recvOp' = NoOp, recvOp.state # "pending",
           Took(Count(recvOp.bytes)),
           UNCHANGED <<now, signalled, sendOp, strays, received, accepted,
                       SendEndTime, reported>>,
           pc \in {"recvWait", "recvResult"}, pc' \in {"idle", "recv"},
           RecvInitiated' \in BOOLEAN, RecvEndTime' \in Times
    PROVE  Common'
<1>0. Typed
  BY Types DEF Common
<1>1. recvOp' \in Op /\ recvOp'.state = "none" /\ recvOp'.bytes = 0
  BY <1>0, NoOperation DEF Typed
<1>2. Count(recvOp.bytes) \in Nat
  BY <1>0 DEF Typed, Count, FAILED
<1>3. received = Taken + Count(recvOp.bytes)
  <2>1. CASE recvOp.state = "done"
    BY <2>1 DEF Common, BytesReturnedOnce, Taken
  <2>2. CASE recvOp.state # "done"
    BY <2>2, <1>0 DEF Common, BytesReturnedOnce, Taken, OpBytes, Count, FAILED, Typed
  <2> QED BY <2>1, <2>2
<1>4. received' = Taken' /\ received' \in 0 .. MaxBytes /\ received' \in Nat
  BY <1>0, <1>3 DEF Took, Typed
<1>5. BytesReturnedOnce'
  <2>1. \A n \in Nat : n = n + 0
    OBVIOUS
  <2>2. received' = Taken' + 0
    BY <1>4, <2>1
  <2> QED BY <2>2, <1>1 DEF BytesReturnedOnce, Taken
<1>6. signalled' \subseteq Events
  BY <1>0 DEF Typed
<1>7. pc' \in {"idle", "recv", "recvWait", "recvResult"} /\ Receiving
  BY DEF Receiving
<1> QED BY <1>1, <1>2, <1>4, <1>5, <1>6, <1>7, ReceiveStep

\* A send the kernel goes on with.
LEMMA SendPending ==
    ASSUME Common, sendOp' = Pending("write", want), strays < MaxStrays,
           signalled' = signalled \ {"read", "write"},
           UNCHANGED <<now, recvOp, strays, received, accepted, RecvInitiated,
                       RecvEndTime, returned, dropped>>,
           pc = "send", pc' = "sendWait", Tells(0), SendEndTime' \in Times
    PROVE  Common'
<1>0. Typed
  BY Types DEF Common
<1>1. /\ sendOp' \in Op /\ sendOp'.state = "pending" /\ sendOp'.bytes = 0
  BY <1>0, OperationPending DEF Typed, Events
<1>2. SendsAttended'
  BY <1>0, <1>1 DEF SendsAttended, Typed
<1>3. ReportedAccepted'
  <2>1. Told + 0 <= accepted /\ Told \in Nat /\ accepted \in Nat
    BY <1>0, Sums DEF Common, ReportedAccepted, SendsAttended, OpBytes, Count, FAILED, Typed
  <2>2. Told' \in Int /\ Told' <= Told + 0
    BY <1>0 DEF Tells, CallTyped, Told
  <2>3. Told' + 0 <= accepted
    BY <2>1, <2>2, Accepts
  <2> QED BY <1>1, <2>3 DEF ReportedAccepted, Count, FAILED
<1>4. /\ strays' \in 0 .. MaxStrays /\ accepted' \in 0 .. MaxBytes
      /\ signalled' \subseteq Events
  BY <1>0 DEF Typed
<1>5. pc' \in {"idle", "send", "sendWait", "sendResult"} /\ Sending /\ 0 \in Nat
  BY DEF Sending
<1> QED BY <1>1, <1>2, <1>3, <1>4, <1>5, SendStep

\* A send that completes at once.
LEMMA SendAtOnce ==
    ASSUME Common, NEW k \in SendResults(want) \ {FAILED},
           accepted' = accepted + k, Tells(k),
           signalled' = (signalled \ {"read"}) \cup {"write"},
           UNCHANGED <<now, recvOp, sendOp, strays, received, RecvInitiated,
                       RecvEndTime, returned, dropped>>,
           pc = "send", pc' \in {"idle", "send"}, SendEndTime' \in Times
    PROVE  Common'
<1>0. Typed
  BY Types DEF Common
<1>1. k \in Nat /\ accepted + k <= MaxBytes
  BY <1>0 DEF Typed, SendResults, Count, FAILED
<1>2. accepted' \in 0 .. MaxBytes
  BY <1>0, <1>1 DEF Typed
<1>3. sendOp.state = "none" /\ sendOp.bytes = 0 /\ Count(sendOp.bytes) = 0
  BY DEF Common, SendsAttended, OpBytes, Count, FAILED
<1>4. SendsAttended'
  BY <1>3 DEF SendsAttended
<1>5. ReportedAccepted'
  <2>1. Told + 0 <= accepted /\ Told \in Nat /\ accepted \in Nat
    BY <1>0, <1>3, Sums DEF Typed, Common, ReportedAccepted
  <2>2. Told' \in Int /\ Told' <= Told + k
    BY <1>0 DEF Tells, CallTyped, Told
  <2>3. Told' + 0 <= accepted + k
    BY <1>1, <2>1, <2>2, Accepts
  <2> QED BY <1>3, <2>3 DEF ReportedAccepted
<1>6. /\ sendOp' \in Op /\ (sendOp'.state # "done" => sendOp'.bytes = 0)
      /\ strays' \in 0 .. MaxStrays /\ signalled' \subseteq Events
  BY <1>0, <1>3 DEF Typed, Events
<1>7. pc' \in {"idle", "send", "sendWait", "sendResult"} /\ Sending
  BY DEF Sending
<1> QED BY <1>1, <1>2, <1>4, <1>5, <1>6, <1>7, SendStep

\* A send that could not be started, or that is waited for: nothing changes
\* but the call.
LEMMA SendLeft ==
    ASSUME Common, signalled' \subseteq signalled,
           UNCHANGED <<now, recvOp, sendOp, strays, received, accepted,
                       RecvInitiated, RecvEndTime, returned, dropped>>,
           \/ pc = "send" /\ pc' = "idle"
           \/ pc = "sendWait" /\ pc' = "sendResult",
           Tells(0), SendEndTime' \in Times
    PROVE  Common'
<1>0. Typed
  BY Types DEF Common
<1>1. SendsAttended'
  BY DEF Common, SendsAttended
<1>2. ReportedAccepted'
  <2> DEFINE waiting == Count(sendOp.bytes)
  <2>1. waiting \in Nat /\ Told \in Nat /\ Told' \in Int /\ accepted \in Nat
    BY <1>0, Sums DEF Typed, Count, FAILED, Tells, CallTyped, Told
  <2>2. Told + waiting <= accepted /\ Told' <= Told + 0
    BY DEF Common, ReportedAccepted, Tells
  <2> HIDE DEF waiting
  <2>3. Told' + waiting <= accepted
    BY <2>1, <2>2, Accepts
  <2> QED BY <2>3 DEF ReportedAccepted, waiting
<1>3. /\ sendOp' \in Op /\ (sendOp'.state # "done" => sendOp'.bytes = 0)
      /\ strays' \in 0 .. MaxStrays /\ signalled' \subseteq Events
      /\ accepted' \in 0 .. MaxBytes
  BY <1>0 DEF Typed, Common, OpBytes
<1>4. pc' \in {"idle", "send", "sendWait", "sendResult"} /\ Sending /\ 0 \in Nat
  BY DEF Sending
<1> QED BY <1>1, <1>2, <1>3, <1>4, SendStep

\* A send that is given up: the kernel goes on with it, nobody waits.
LEMMA SendGivenUp ==
    ASSUME Common, AbandonSend, SendFails, pc = "sendWait"
    PROVE  Common' /\ pc' = "idle"
<1>0. Typed
  BY Types DEF Common
<1>1. sendOp' \in Op /\ sendOp'.state = "none" /\ sendOp'.bytes = 0
  BY <1>0, NoOperation DEF Typed, AbandonSend
<1>2. UNCHANGED <<now, signalled, recvOp, received, accepted, RecvInitiated,
                  RecvEndTime, SendEndTime, returned, dropped>>
  BY DEF AbandonSend, sockVars
<1>3. strays' \in 0 .. MaxStrays
  BY <1>0 DEF Typed, AbandonSend, Common, SendsAttended
<1>4. Tells(0) /\ pc' = "idle" /\ Sending
  BY <1>0, SendFailed DEF Sending
<1>5. SendsAttended'
  BY <1>1, <1>4 DEF SendsAttended
<1>6. ReportedAccepted'
  <2> DEFINE waiting == Count(sendOp.bytes)
  <2>1. waiting \in Nat /\ Told \in Nat /\ Told' \in Int /\ accepted \in Nat
    BY <1>0, <1>4, Sums DEF Typed, Count, FAILED, Tells, CallTyped, Told
  <2>2. Told + waiting <= accepted /\ Told' <= Told + 0
    BY <1>4 DEF Common, ReportedAccepted, Tells
  <2> HIDE DEF waiting
  <2>3. Told' + 0 <= accepted
    BY <2>1, <2>2, Accepts
  <2> QED BY <1>1, <1>2, <2>3 DEF ReportedAccepted, Count, FAILED
<1>7. /\ accepted' \in 0 .. MaxBytes
      /\ signalled' \subseteq Events /\ SendEndTime' \in Times
  BY <1>0, <1>2 DEF Typed
<1>8. pc' \in {"idle", "send", "sendWait", "sendResult"} /\ 0 \in Nat
  BY <1>4
<1> QED BY <1>1, <1>2, <1>3, <1>4, <1>5, <1>6, <1>7, <1>8, SendStep

\* The send is complete, and what it has sent may be reported.
LEMMA SendTaken ==
    ASSUME Common, sendOp.state = "done", sendOp' = NoOp,
           Tells(Count(sendOp.bytes)),
           UNCHANGED <<now, signalled, recvOp, strays, received, accepted,
                       RecvInitiated, RecvEndTime, returned, dropped>>,
           pc = "sendResult", pc' \in {"idle", "send"}, SendEndTime' \in Times
    PROVE  Common'
<1>0. Typed
  BY Types DEF Common
<1>1. sendOp' \in Op /\ sendOp'.state = "none" /\ sendOp'.bytes = 0
  BY <1>0, NoOperation DEF Typed
<1>2. Count(sendOp.bytes) \in Nat
  BY <1>0 DEF Typed, Count, FAILED
<1>3. ReportedAccepted'
  <2> DEFINE waiting == Count(sendOp.bytes)
  <2>1. waiting \in Nat /\ Told \in Nat /\ Told' \in Int /\ accepted \in Nat
    BY <1>0, Sums DEF Typed, Count, FAILED, Tells, CallTyped, Told
  <2>2. Told + waiting <= accepted /\ Told' <= Told + waiting
    BY DEF Common, ReportedAccepted, Tells
  <2> HIDE DEF waiting
  <2>3. Told' + 0 <= accepted
    BY <2>1, <2>2, Accepts
  <2> QED BY <1>1, <2>3 DEF ReportedAccepted, Count, FAILED
<1>4. SendsAttended'
  BY <1>1 DEF SendsAttended
<1>5. /\ strays' \in 0 .. MaxStrays /\ signalled' \subseteq Events
      /\ accepted' \in 0 .. MaxBytes
  BY <1>0 DEF Typed
<1>6. pc' \in {"idle", "send", "sendWait", "sendResult"} /\ Sending
  BY DEF Sending
<1> QED BY <1>1, <1>2, <1>3, <1>4, <1>5, <1>6, SendStep

-----------------------------------------------------------------------------
(* The client's socket.                                                     *)

LEMMA Timers ==
    ASSUME Typed
    PROVE  /\ now + TimeoutSeconds \in Times /\ 0 \in Times
           /\ \A x \in Times : Restarted(x) \in Times /\ x - now \in Int
           /\ \A x \in Times : \A k : NextEndTime(x, k) \in Times
BY DEF Typed, Times, Restarted, NextEndTime

LEMMA Awaited ==
    ASSUME Typed, Receiving, NEW x \in Times, AwaitRecv(x)
    PROVE  Took(0) /\ pc' \in {"idle", "recvWait"}
<1>1. x - now \in Int
  BY Timers
<1>2. CASE RecvFails
  BY <1>2, Failed
<1>3. CASE Wait("recvWait", x - now) /\ UNCHANGED <<returned, dropped>>
  BY <1>1, <1>3, Waited, TookNothing
<1> QED BY <1>2, <1>3 DEF AwaitRecv

LEMMA ActiveInit == ASSUME Init PROVE IInv
<1>1. NoOp \in Op /\ NoOp.state = "none" /\ NoOp.bytes = 0
  BY NoOperation, WinsockAssumption
<1>2. TypeOK
  <2>1. /\ MaxNow \in Nat \ {0} /\ MaxLen \in Nat /\ MaxBytes \in Nat
        /\ MaxStrays \in Nat /\ TimeoutSeconds \in Nat /\ DwordSeconds \in Nat
    BY WinsockAssumption
  <2>2. now = 1 /\ now \in 1 .. MaxNow
    BY <2>1 DEF Init, KernelInit
  <2>3. now + TimeoutSeconds \in Times
    BY <2>1, <2>2 DEF Times
  <2>4. 0 \in 0 .. MaxLen /\ 0 \in 0 .. MaxBytes /\ 0 \in 0 .. MaxStrays
    BY <2>1
  <2>5. 0 \in 0 .. MaxNow + DwordSeconds
    BY <2>1
  <2>6. KernelTypeOK
    BY <1>1, <2>2, <2>4 DEF Init, KernelInit, KernelTypeOK
  <2> QED BY <2>3, <2>4, <2>5, <2>6 DEF Init, TypeOK
<1>3. OpBytes /\ IdleEmpty /\ BytesReturnedOnce /\ SendsAttended /\ OneReceive
  BY <1>1 DEF Init, KernelInit, OpBytes, IdleEmpty, BytesReturnedOnce,
              SendsAttended, OneReceive
<1>4. ReportedAccepted
  BY <1>1 DEF Init, KernelInit, ReportedAccepted, Told, Count, FAILED
<1> QED BY <1>2, <1>3, <1>4 DEF IInv, Common

LEMMA ActiveCalls == ASSUME IInv, Caller PROVE IInv'
<1>0. Typed /\ Common /\ OneReceive
  BY Types DEF IInv, Common
<1>1. /\ now + TimeoutSeconds \in Times /\ 0 \in Times
      /\ RecvEndTime \in Times /\ SendEndTime \in Times
  BY <1>0, Timers DEF Typed
<1>2. CASE SetRecvTimeoutSeconds \/ SetSendTimeoutSeconds
  <2>1. /\ UNCHANGED <<kernelVars, RecvInitiated, callVars, counts>>
        /\ RecvEndTime' \in Times /\ SendEndTime' \in Times
    BY <1>1, <1>2 DEF SetRecvTimeoutSeconds, SetSendTimeoutSeconds
  <2>2. Common'
    BY <1>0, <2>1, TimeoutSet
  <2>3. OneReceive'
    BY <1>0, <2>1 DEF OneReceive, kernelVars, callVars
  <2> QED BY <2>2, <2>3 DEF IInv
<1>3. ASSUME NEW n \in 1 .. MaxLen,
             RecvPartial(n) \/ RecvMsg(n) \/ SendPartial(n) \/ SendMsg(n)
      PROVE  IInv'
  <2>1. PICK where \in {"recv", "send"}, inLoop \in BOOLEAN :
          Enter(where, n, inLoop)
    BY <1>3 DEF RecvPartial, RecvMsg, SendPartial, SendMsg
  <2>2. RecvEndTime' \in Times /\ SendEndTime' \in Times
    BY <1>1, <1>3 DEF RecvPartial, RecvMsg, SendPartial, SendMsg
  <2>3. /\ Common' /\ pc = "idle"
        /\ UNCHANGED <<now, signalled, recvOp, RecvInitiated>>
    BY <1>0, <2>1, <2>2, Entered
  <2>4. OneReceive'
    BY <1>0, <2>3 DEF OneReceive
  <2> QED BY <2>3, <2>4 DEF IInv
<1> QED BY <1>2, <1>3 DEF Caller

LEMMA ActiveReceives ==
    ASSUME IInv,
           RecvRetry \/ RecvStart \/ RecvCompleted \/ RecvResult \/ RecvTimeout
    PROVE  IInv'
<1>0. Typed /\ Common /\ OneReceive
  BY Types DEF IInv, Common
<1>r. RecvEndTime \in Times /\ Restarted(RecvEndTime) \in Times
  BY <1>0, Timers DEF Typed
<1>1. CASE RecvRetry
  <2>1. /\ RecvEndTime' \in Times /\ AwaitRecv(RecvEndTime') /\ Receiving
        /\ RecvInitiated
        /\ UNCHANGED <<now, signalled, recvOp, sendOp, strays, received, accepted,
                       RecvInitiated, SendEndTime, reported>>
    <3>1. Restarted(0) \in Times
      BY <1>0, Timers
    <3> QED BY <1>1, <3>1 DEF RecvRetry, Receiving, kernelVars
  <2>2. Took(0) /\ pc' \in {"idle", "recvWait"}
    BY <1>0, <2>1, Awaited
  <2>3. Common'
    BY <1>0, <2>1, <2>2, ReceiveLeft DEF Typed
  <2>4. OneReceive'
    BY <2>1 DEF OneReceive
  <2> QED BY <2>3, <2>4 DEF IInv
<1>2. CASE RecvStart
  <2>0. /\ pc = "recv" /\ ~RecvInitiated /\ recvOp.state = "none" /\ Receiving
        /\ UNCHANGED <<now, sendOp, strays, accepted, SendEndTime, reported>>
    <3>1. pc = "recv" /\ ~RecvInitiated
      BY <1>2 DEF RecvStart
    <3>2. UNCHANGED <<now, sendOp, strays, accepted, SendEndTime, reported>>
      BY <1>2 DEF RecvStart
    <3> QED BY <1>0, <3>1, <3>2 DEF OneReceive, Receiving
  <2>1. CASE /\ recvOp' = Pending("stop", want)
             /\ signalled' = signalled \ {"stop"}
             /\ RecvInitiated' = TRUE
             /\ RecvEndTime' = Restarted(RecvEndTime)
             /\ AwaitRecv(RecvEndTime')
             /\ UNCHANGED received
    <3>1. Took(0) /\ pc' \in {"idle", "recvWait"} /\ RecvEndTime' \in Times
      BY <1>0, <1>r, <2>0, <2>1, Awaited
    <3>2. Common'
      BY <1>0, <2>0, <2>1, <3>1, ReceivePending DEF Events
    <3> QED BY <2>1, <3>2 DEF IInv, OneReceive
  <2>2. CASE \E k \in RecvResults(want) \ {FAILED} :
               /\ signalled' = signalled \cup {"stop"}
               /\ received' = received + k
               /\ RecvInitiated' = FALSE
               /\ RecvEndTime' = NextEndTime(Restarted(RecvEndTime), k)
               /\ IF k > 0 THEN Progress(k) ELSE Closed
               /\ UNCHANGED recvOp
    <3>1. PICK k \in RecvResults(want) \ {FAILED} :
               /\ signalled' = signalled \cup {"stop"}
               /\ received' = received + k
               /\ RecvInitiated' = FALSE
               /\ RecvEndTime' = NextEndTime(Restarted(RecvEndTime), k)
               /\ IF k > 0 THEN Progress(k) ELSE Closed
               /\ UNCHANGED recvOp
      BY <2>2
    <3>2. k \in Nat /\ RecvEndTime' \in Times
      BY <1>0, <1>r, <3>1, Timers DEF RecvResults, FAILED, Typed
    <3>3. Took(k) /\ pc' \in {"idle", "recv"}
      <4>1. CASE k > 0
        BY <1>0, <2>0, <3>1, <3>2, <4>1, Progressed
      <4>2. CASE k = 0
        BY <1>0, <2>0, <3>1, <4>2, EndOfStream
      <4> QED BY <3>2, <4>1, <4>2
    <3>4. Common'
      BY <1>0, <2>0, <3>1, <3>2, <3>3, ReceiveAtOnce DEF Events
    <3> QED BY <2>0, <3>1, <3>4 DEF IInv, OneReceive
  <2>3. CASE /\ signalled' = signalled \ {"stop"}
             /\ RecvInitiated' = TRUE
             /\ RecvEndTime' = Restarted(RecvEndTime)
             /\ RecvFails
             /\ UNCHANGED <<recvOp, received>>
    <3>1. Took(0) /\ pc' = "idle" /\ RecvEndTime' \in Times
      BY <1>0, <1>r, <2>0, <2>3, Failed
    <3>2. Common'
      BY <1>0, <2>0, <2>3, <3>1, ReceiveLeft
    <3> QED BY <2>3, <3>2 DEF IInv, OneReceive
  <2> QED BY <1>2, <2>1, <2>2, <2>3 DEF RecvStart
<1>3. CASE RecvCompleted
  <2>1. /\ Receiving /\ pc' = "recvResult" /\ RecvInitiated' = FALSE
        /\ UNCHANGED <<now, signalled, recvOp, sendOp, strays, received, accepted,
                       RecvEndTime, SendEndTime, loop, want, until, moved,
                       returned, dropped, reported>>
    BY <1>3 DEF RecvCompleted, Receiving, kernelVars, counts
  <2>2. Took(0)
    <3>1. CallTyped'
      BY <1>0, <2>1 DEF Typed, CallTyped, IdleEmpty
    <3> QED BY <1>0, <2>1, <3>1, TookNothing
  <2>3. Common'
    BY <1>0, <1>r, <2>1, <2>2, ReceiveLeft
  <2> QED BY <2>1, <2>3 DEF IInv, OneReceive
<1>4. CASE RecvResult
  <2>1. /\ pc = "recvResult" /\ recvOp.state # "pending" /\ recvOp' = NoOp
        /\ UNCHANGED <<now, signalled, sendOp, strays, received, accepted,
                       RecvInitiated, SendEndTime, reported>>
    BY <1>4 DEF RecvResult
  <2>2. /\ Took(Count(recvOp.bytes)) /\ pc' \in {"idle", "recv"}
        /\ RecvEndTime' \in Times
    <3>0. Receiving
      BY <2>1 DEF Receiving
    <3>1. CASE /\ recvOp.bytes > 0
               /\ RecvEndTime' = NextEndTime(RecvEndTime, recvOp.bytes)
               /\ Progress(recvOp.bytes)
      <4>1. recvOp.bytes \in Nat /\ Count(recvOp.bytes) = recvOp.bytes
        BY <1>0, <3>1 DEF Typed, FAILED, Count
      <4>2. RecvEndTime' \in Times
        BY <1>0, <1>r, <3>1, Timers
      <4> QED BY <1>0, <3>0, <3>1, <4>1, <4>2, Progressed
    <3>2. CASE recvOp.bytes = 0 /\ Closed /\ UNCHANGED RecvEndTime
      <4>1. Count(recvOp.bytes) = 0
        BY <3>2 DEF Count, FAILED
      <4> QED BY <1>0, <1>r, <3>0, <3>2, <4>1, EndOfStream
    <3>3. CASE recvOp.bytes = FAILED /\ RecvFails /\ UNCHANGED RecvEndTime
      <4>1. Count(recvOp.bytes) = 0
        BY <3>3 DEF Count
      <4> QED BY <1>0, <1>r, <3>0, <3>3, <4>1, Failed
    <3> QED BY <1>4, <3>1, <3>2, <3>3 DEF RecvResult
  <2>3. RecvInitiated' \in BOOLEAN
    BY <1>0, <2>1 DEF Typed
  <2>4. Common'
    BY <1>0, <2>1, <2>2, <2>3, ReceiveTaken
  <2>5. recvOp'.state = "none"
    BY <1>0, <2>1, NoOperation DEF Typed
  <2> QED BY <2>4, <2>5 DEF IInv, OneReceive
<1>5. CASE RecvTimeout
  <2>1. /\ pc = "recvWait" /\ Receiving /\ RecvFails
        /\ UNCHANGED <<now, signalled, recvOp, sendOp, strays, received, accepted,
                       RecvInitiated, RecvEndTime, SendEndTime, reported>>
    BY <1>5 DEF RecvTimeout, sockVars, kernelVars, Receiving
  <2>2. Took(0) /\ pc' = "idle"
    BY <1>0, <2>1, Failed
  <2>3. Common'
    BY <1>0, <1>r, <2>1, <2>2, ReceiveLeft DEF Typed
  <2> QED BY <1>0, <2>1, <2>3 DEF IInv, OneReceive
<1> QED BY <1>1, <1>2, <1>3, <1>4, <1>5

LEMMA ActiveSends ==
    ASSUME IInv,
           SendStart \/ SendMissed \/ SendTimeout \/ SendCompleted \/ SendResult
    PROVE  IInv'
<1>0. Typed /\ Common /\ OneReceive
  BY Types DEF IInv, Common
<1>r. SendEndTime \in Times /\ Restarted(SendEndTime) \in Times
  BY <1>0, Timers DEF Typed
<1>q. UNCHANGED <<recvOp, RecvInitiated>>
  BY DEF SendStart, SendMissed, SendTimeout, SendCompleted, SendResult,
         AbandonSend, sockVars, kernelVars
<1>p. pc # "recvResult"
  BY DEF SendStart, SendMissed, SendTimeout, SendCompleted, SendResult
<1>o. OneReceive'
  BY <1>0, <1>p, <1>q DEF OneReceive
<1>1. CASE SendStart
  <2>0. /\ pc = "send" /\ strays < MaxStrays /\ Sending
        /\ UNCHANGED <<now, recvOp, strays, received, RecvInitiated,
                       RecvEndTime, returned, dropped>>
    BY <1>1 DEF SendStart, Sending
  <2>1. CASE /\ sendOp' = Pending("write", want)
             /\ signalled' = signalled \ {"read", "write"}
             /\ SendEndTime' = Restarted(SendEndTime)
             /\ Wait("sendWait", SendEndTime' - now)
             /\ UNCHANGED <<accepted, reported>>
    <3>1. SendEndTime' \in Times /\ SendEndTime' - now \in Int
      BY <1>0, <1>r, <2>1, Timers
    <3>2. Tells(0) /\ pc' = "sendWait"
      <4>1. CallTyped' /\ pc' = "sendWait" /\ moved' = moved
        BY <1>0, <2>1, <3>1, Waited
      <4> QED BY <1>0, <2>0, <2>1, <4>1, ToldNothing
    <3>3. Common'
      BY <1>0, <2>0, <2>1, <3>1, <3>2, SendPending
    <3> QED BY <1>o, <3>3 DEF IInv
  <2>2. CASE \E k \in SendResults(want) \ {FAILED} :
               /\ signalled' = (signalled \ {"read"}) \cup {"write"}
               /\ accepted' = accepted + k
               /\ SendEndTime' = NextEndTime(Restarted(SendEndTime), k)
               /\ SendProgress(k)
               /\ UNCHANGED sendOp
    <3>1. PICK k \in SendResults(want) \ {FAILED} :
               /\ signalled' = (signalled \ {"read"}) \cup {"write"}
               /\ accepted' = accepted + k
               /\ SendEndTime' = NextEndTime(Restarted(SendEndTime), k)
               /\ SendProgress(k)
               /\ UNCHANGED sendOp
      BY <2>2
    <3>2. k \in Nat /\ SendEndTime' \in Times
      BY <1>0, <1>r, <3>1, Timers DEF SendResults, FAILED, Typed
    <3>3. Tells(k) /\ pc' \in {"idle", "send"}
      BY <1>0, <2>0, <3>1, <3>2, SendProgressed
    <3>4. Common'
      BY <1>0, <2>0, <3>1, <3>2, <3>3, SendAtOnce
    <3> QED BY <1>o, <3>4 DEF IInv
  <2>3. CASE /\ signalled' = signalled \ {"read", "write"}
             /\ SendEndTime' = Restarted(SendEndTime)
             /\ SendFails
             /\ UNCHANGED <<sendOp, accepted>>
    <3>1. Tells(0) /\ pc' = "idle" /\ SendEndTime' \in Times
      BY <1>0, <1>r, <2>0, <2>3, SendFailed
    <3>2. Common'
      BY <1>0, <2>0, <2>3, <3>1, SendLeft
    <3> QED BY <1>o, <3>2 DEF IInv
  <2> QED BY <1>1, <2>1, <2>2, <2>3 DEF SendStart
<1>2. CASE SendMissed \/ SendTimeout
  <2>1. pc = "sendWait" /\ AbandonSend /\ SendFails
    BY <1>2 DEF SendMissed, SendTimeout
  <2>2. Common'
    BY <1>0, <2>1, SendGivenUp
  <2> QED BY <1>o, <2>2 DEF IInv
<1>3. CASE SendCompleted
  <2>1. /\ pc = "sendWait" /\ pc' = "sendResult"
        /\ UNCHANGED <<now, signalled, recvOp, sendOp, strays, received, accepted,
                       RecvInitiated, RecvEndTime, SendEndTime, loop, want,
                       until, moved, returned, dropped, reported>>
    BY <1>3 DEF SendCompleted, kernelVars, sockVars, counts
  <2>2. Tells(0)
    <3>1. CallTyped'
      BY <1>0, <2>1 DEF Typed, CallTyped, IdleEmpty
    <3> QED BY <1>0, <2>1, <3>1, ToldNothing DEF Sending
  <2>3. Common'
    BY <1>0, <1>r, <2>1, <2>2, SendLeft
  <2> QED BY <1>o, <2>3 DEF IInv
<1>4. CASE SendResult
  <2>1. /\ pc = "sendResult" /\ sendOp.state = "done" /\ sendOp' = NoOp
        /\ UNCHANGED <<now, signalled, recvOp, strays, received, accepted,
                       RecvInitiated, RecvEndTime, returned, dropped>>
    BY <1>4 DEF SendResult
  <2>2. /\ Tells(Count(sendOp.bytes)) /\ pc' \in {"idle", "send"}
        /\ SendEndTime' \in Times
    <3>0. Sending
      BY <2>1 DEF Sending
    <3>1. CASE /\ sendOp.bytes >= 0
               /\ SendEndTime' = NextEndTime(SendEndTime, sendOp.bytes)
               /\ SendProgress(sendOp.bytes)
      <4>1. sendOp.bytes \in Nat /\ Count(sendOp.bytes) = sendOp.bytes
        BY <1>0, <3>1 DEF Typed, FAILED, Count
      <4>2. SendEndTime' \in Times
        BY <1>0, <1>r, <3>1, Timers
      <4> QED BY <1>0, <3>0, <3>1, <4>1, <4>2, SendProgressed
    <3>2. CASE sendOp.bytes = FAILED /\ SendFails /\ UNCHANGED SendEndTime
      <4>1. Count(sendOp.bytes) = 0
        BY <3>2 DEF Count
      <4> QED BY <1>0, <1>r, <3>0, <3>2, <4>1, SendFailed
    <3> QED BY <1>4, <3>1, <3>2 DEF SendResult
  <2>3. Common'
    BY <1>0, <2>1, <2>2, SendTaken
  <2> QED BY <1>o, <2>3 DEF IInv
<1> QED BY <1>1, <1>2, <1>3, <1>4

LEMMA ActiveNext == ASSUME IInv, [Next]_vars PROVE IInv'
<1>1. CASE Caller
  BY <1>1, ActiveCalls
<1>2. CASE Thread
  BY <1>2, ActiveReceives, ActiveSends DEF Thread
<1>3. CASE Environment
  <2>1. /\ Common'
        /\ \/ recvOp'.state = recvOp.state
           \/ recvOp'.state = "done" /\ recvOp.state = "pending"
    BY <1>3, EnvironmentKeeps DEF IInv
  <2>2. UNCHANGED <<RecvInitiated, pc>>
    BY <1>3 DEF Environment, callerVars, sockVars, callVars
  <2> QED BY <2>1, <2>2 DEF IInv, OneReceive
<1>4. CASE UNCHANGED vars
  <2>1. /\ UNCHANGED <<kernelVars, RecvInitiated, callVars, counts>>
        /\ UNCHANGED <<RecvEndTime, SendEndTime>>
    BY <1>4 DEF vars, callerVars, sockVars
  <2>2. Typed
    BY Types DEF IInv, Common
  <2>3. Common'
    BY <2>1, <2>2, TimeoutSet DEF IInv, Typed
  <2>4. UNCHANGED <<recvOp, RecvInitiated, pc>>
    BY <2>1 DEF kernelVars, callVars
  <2> QED BY <2>3, <2>4 DEF IInv, OneReceive
<1> QED BY <1>1, <1>2, <1>3, <1>4 DEF Next

\* What the client's socket keeps: the inductive invariant.
THEOREM Invariant == Spec => []IInv
<1>1. Init => IInv
  BY ActiveInit
<1>2. IInv /\ [Next]_vars => IInv'
  BY ActiveNext
<1> QED BY <1>1, <1>2, PTL DEF Spec

\* The variables of the client's socket stay in their types: no counter passes
\* its bound, and no wait is longer than the DWORD it is given in.
THEOREM TypeCorrect == Spec => []TypeOK
<1>1. IInv => TypeOK
  BY DEF IInv, Common
<1> QED BY <1>1, Invariant, PTL

\* RecvPartial never starts a second WSARecv on the OVERLAPPED and the buffer
\* the kernel still writes to (tools/scli/ActiveSock.cpp), whichever receives
\* timed out before.
THEOREM OneReceiveAtATime == Spec => []OneReceive
<1>1. IInv => OneReceive
  BY DEF IInv
<1> QED BY <1>1, Invariant, PTL

\* Every byte the client's socket receives is returned by exactly one call, is
\* with the call under way or waits in the completed receive; the one exception
\* are the bytes RecvMsg had when a later turn of its loop failed
\* (tools/scli/ActiveSock.cpp, lines 240-241).
THEOREM ReturnedOnce == Spec => []BytesReturnedOnce
<1>1. IInv => BytesReturnedOnce
  BY DEF IInv, Common
<1> QED BY <1>1, Invariant, PTL

LEMMA ReportsBounded == ASSUME Common PROVE NotOverReported
<1>1. Typed /\ ReportedAccepted
  BY Types DEF Common
<1>2. Count(sendOp.bytes) \in Nat /\ Told >= reported
  BY <1>1 DEF Typed, Count, FAILED, Told
<1>3. Told \in Nat
  BY <1>1, Sums
<1> DEFINE waiting == Count(sendOp.bytes)
<1>4. Told + waiting <= accepted /\ waiting \in Nat
  BY <1>1, <1>2 DEF ReportedAccepted
<1> HIDE DEF waiting
<1>5. reported <= accepted
  BY <1>1, <1>2, <1>3, <1>4 DEF Typed
<1> QED BY <1>5 DEF NotOverReported

\* The client's socket never reports more bytes sent than the kernel has
\* accepted, although sends that were given up set the event later ones wait
\* for.
THEOREM NoOverReport == Spec => []NotOverReported
<1>1. IInv => NotOverReported
  BY ReportsBounded DEF IInv
<1> QED BY <1>1, Invariant, PTL

-----------------------------------------------------------------------------
(* The server's socket.                                                     *)

\* The two classes share one kernel and one caller: what Passive! names of
\* OverlappedSock is what has no prefix here.
LEMMA SameOperators ==
    /\ Passive!NoOp = NoOp /\ Passive!vars = vars /\ Passive!kernelVars = kernelVars
    /\ Passive!sockVars = sockVars /\ Passive!callVars = callVars
    /\ Passive!FAILED = FAILED
    /\ \A e, n : Passive!Pending(e, n) = Pending(e, n)
    /\ \A n : Passive!Count(n) = Count(n)
    /\ \A n : Passive!RecvResults(n) = RecvResults(n)
    /\ \A n : Passive!SendResults(n) = SendResults(n)
    /\ Passive!Init <=> Init
<1>1. /\ Passive!NoOp = NoOp /\ Passive!vars = vars
      /\ Passive!kernelVars = kernelVars /\ Passive!sockVars = sockVars
      /\ Passive!callVars = callVars /\ Passive!FAILED = FAILED
  BY DEF Passive!NoOp, NoOp, Passive!vars, vars, Passive!kernelVars, kernelVars,
         Passive!callerVars, callerVars, Passive!sockVars, sockVars,
         Passive!callVars, callVars, Passive!counts, counts, Passive!FAILED, FAILED
<1>2. \A e, n : Passive!Pending(e, n) = Pending(e, n)
  BY DEF Passive!Pending, Pending
<1>3. \A n : Passive!Count(n) = Count(n)
  BY <1>1 DEF Passive!Count, Count
<1>4. \A n : /\ Passive!RecvResults(n) = RecvResults(n)
             /\ Passive!SendResults(n) = SendResults(n)
  BY <1>1, <1>3 DEF Passive!RecvResults, RecvResults, Passive!SendResults, SendResults
<1>5. Passive!Init <=> Init
  BY <1>1 DEF Passive!Init, Init, Passive!KernelInit, KernelInit
<1> QED BY <1>1, <1>2, <1>3, <1>4, <1>5

LEMMA SameGive == ASSUME NEW k, Passive!Give(k) PROVE Give(k)
BY DEF Passive!Give, Give, Passive!Return, Return

LEMMA SameRecvFails == ASSUME Passive!RecvFails PROVE RecvFails
BY DEF Passive!RecvFails, RecvFails, Passive!Return, Return

LEMMA SameClosed == ASSUME Passive!Closed PROVE Closed
BY SameGive, SameRecvFails DEF Passive!Closed, Closed

LEMMA SameProgress == ASSUME NEW k, Passive!Progress(k) PROVE Progress(k)
BY SameGive DEF Passive!Progress, Progress, Passive!Again, Again

LEMMA SameGiveSent == ASSUME NEW k, Passive!GiveSent(k) PROVE GiveSent(k)
BY DEF Passive!GiveSent, GiveSent, Passive!Return, Return

LEMMA SameSendFails == ASSUME Passive!SendFails PROVE SendFails
BY DEF Passive!SendFails, SendFails, Passive!Return, Return

LEMMA SameSendProgress ==
    ASSUME NEW k, Passive!SendProgress(k)
    PROVE  SendProgress(k)
BY SameGiveSent, SameSendFails
   DEF Passive!SendProgress, SendProgress, Passive!Again, Again

LEMMA SameWait ==
    ASSUME NEW where, NEW t, Passive!Wait(where, t)
    PROVE  Wait(where, t)
BY DEF Passive!Wait, Wait, Passive!WaitSeconds, WaitSeconds

LEMMA SameEnter ==
    ASSUME NEW where, NEW n, NEW inLoop, Passive!Enter(where, n, inLoop)
    PROVE  Enter(where, n, inLoop)
BY DEF Passive!Enter, Enter, Passive!kernelVars, kernelVars, Passive!counts, counts

LEMMA SameAbandonSend == ASSUME Passive!AbandonSend PROVE AbandonSend
BY DEF Passive!AbandonSend, AbandonSend, Passive!NoOp, NoOp,
       Passive!sockVars, sockVars

LEMMA SameEnvironment == ASSUME Passive!Environment PROVE Environment
<1>1. UNCHANGED callerVars
  BY DEF Passive!Environment, Passive!callerVars, callerVars, Passive!sockVars,
         sockVars, Passive!callVars, callVars, Passive!counts, counts
<1>2. ASSUME NEW op, NEW k PROVE Passive!Done(op, k) = Done(op, k)
  BY DEF Passive!Done, Done
<1>3. ASSUME Passive!KernelRecv PROVE KernelRecv
  BY <1>2, <1>3, SameOperators DEF Passive!KernelRecv, KernelRecv
<1>4. ASSUME Passive!KernelSend PROVE KernelSend
  BY <1>2, <1>4, SameOperators DEF Passive!KernelSend, KernelSend
<1>5. ASSUME Passive!KernelStray PROVE KernelStray
  BY <1>5, SameOperators DEF Passive!KernelStray, KernelStray
<1>6. Passive!Tick => Tick
  BY DEF Passive!Tick, Tick
<1>7. Passive!SetStop => SetStop
  BY DEF Passive!SetStop, SetStop
<1> QED BY <1>1, <1>3, <1>4, <1>5, <1>6, <1>7
   DEF Passive!Environment, Passive!Kernel, Environment, Kernel

LEMMA PassiveAwaited ==
    ASSUME Typed, Receiving, DeadlineNear, Passive!AwaitRecv
    PROVE  /\ Took(0) /\ pc' \in {"idle", "recvWait"}
           /\ pc' = "recvWait" => until' <= now + TimeoutSeconds
<1>1. CASE RecvEndTime - now <= 0 /\ Passive!RecvFails
  BY <1>1, SameRecvFails, Failed
<1>2. CASE /\ RecvEndTime - now > 0
           /\ Passive!Wait("recvWait", RecvEndTime - now)
           /\ UNCHANGED <<returned, dropped>>
  <2>1. Wait("recvWait", RecvEndTime - now) /\ UNCHANGED <<returned, dropped>>
    BY <1>2, SameWait
  <2>2. RecvEndTime - now \in Int /\ RecvEndTime - now \in 0 .. DwordSeconds - 1
    BY <1>2 DEF Typed, Times, DeadlineNear
  <2>3. WaitSeconds(RecvEndTime - now) = RecvEndTime - now
    BY <2>2, WaitRange DEF Typed
  <2>4. until' = now + (RecvEndTime - now)
    BY <2>1, <2>3 DEF Wait
  <2>5. now + (RecvEndTime - now) <= now + TimeoutSeconds
    BY DEF Typed, Times, DeadlineNear
  <2>6. CallTyped' /\ pc' = "recvWait" /\ moved' = moved
    BY <2>1, <2>2, Waited
  <2> QED BY <2>1, <2>4, <2>5, <2>6, TookNothing
<1> QED BY <1>1, <1>2 DEF Passive!AwaitRecv

LEMMA PassiveInit == ASSUME Passive!Init PROVE PassiveIInv
<1>1. Init
  BY SameOperators
<1>2. Common
  BY <1>1, ActiveInit DEF IInv
<1>3. recvOp.state = "none" /\ pc = "idle" /\ RecvEndTime = now + TimeoutSeconds
  BY <1>1 DEF Init, KernelInit, NoOp
<1>4. DeadlineNear
  BY <1>2, <1>3, Types DEF Common, Typed, DeadlineNear
<1> QED BY <1>2, <1>3, <1>4
   DEF PassiveIInv, Passive!OneReceive, EventClear, RecvWaitBounded

LEMMA PassiveCalls == ASSUME PassiveIInv, Passive!Caller PROVE PassiveIInv'
<1>0. Typed /\ Common
  BY Types DEF PassiveIInv, Common
<1>1. /\ now + TimeoutSeconds \in Times
      /\ RecvEndTime \in Times /\ SendEndTime \in Times
  BY <1>0, Timers DEF Typed
<1>2. CASE Passive!SetTimeoutSeconds
  <2>1. /\ UNCHANGED <<kernelVars, RecvInitiated, callVars, counts>>
        /\ RecvEndTime' \in Times /\ SendEndTime' \in Times
        /\ RecvEndTime' = now + TimeoutSeconds /\ pc = "idle"
    BY <1>1, <1>2 DEF Passive!SetTimeoutSeconds, Passive!kernelVars, kernelVars,
                      Passive!callVars, callVars, Passive!counts, counts
  <2>2. Common'
    BY <1>0, <2>1, TimeoutSet
  <2>3. UNCHANGED <<now, signalled, recvOp, RecvInitiated, pc>>
    BY <2>1 DEF kernelVars, callVars
  <2>4. DeadlineNear'
    BY <1>0, <2>1, <2>3 DEF DeadlineNear, Typed
  <2> QED BY <2>1, <2>2, <2>3, <2>4
     DEF PassiveIInv, Passive!OneReceive, EventClear, RecvWaitBounded
<1>3. ASSUME NEW n \in 1 .. MaxLen,
             \/ Passive!Recv(n) \/ Passive!ReceiveBytes(n)
             \/ Passive!Send(n) \/ Passive!SendBytes(n)
      PROVE  PassiveIInv'
  <2>1. PICK where \in {"recv", "send"}, inLoop \in BOOLEAN :
          Passive!Enter(where, n, inLoop)
    BY <1>3 DEF Passive!Recv, Passive!ReceiveBytes, Passive!Send, Passive!SendBytes
  <2>2. /\ RecvEndTime' = RecvEndTime \/ RecvEndTime' = now + TimeoutSeconds
        /\ SendEndTime' = SendEndTime
    BY <1>3 DEF Passive!Recv, Passive!ReceiveBytes, Passive!Send, Passive!SendBytes
  <2>3. RecvEndTime' \in Times /\ SendEndTime' \in Times
    BY <1>1, <2>2
  <2>4. /\ Common' /\ pc' = where
        /\ UNCHANGED <<now, signalled, recvOp, RecvInitiated>>
    BY <1>0, <2>1, <2>3, Entered, SameEnter
  <2>5. DeadlineNear'
    BY <1>0, <2>2, <2>4 DEF PassiveIInv, DeadlineNear, Typed
  <2> QED BY <2>4, <2>5
     DEF PassiveIInv, Passive!OneReceive, EventClear, RecvWaitBounded
<1> QED BY <1>2, <1>3 DEF Passive!Caller

LEMMA PassiveReceives ==
    ASSUME PassiveIInv,
           \/ Passive!RecvRetry \/ Passive!RecvStart \/ Passive!RecvStopped
           \/ Passive!RecvCompleted \/ Passive!RecvTimeout
    PROVE  PassiveIInv'
<1>0. Typed /\ Common /\ DeadlineNear
  BY Types DEF PassiveIInv, Common
<1>1. RecvEndTime \in Times
  BY <1>0 DEF Typed
<1>2. CASE Passive!RecvRetry
  <2>1. /\ Receiving /\ Passive!AwaitRecv
        /\ UNCHANGED <<now, signalled, recvOp, sendOp, strays, received, accepted,
                       RecvInitiated, RecvEndTime, SendEndTime, reported>>
    BY <1>2 DEF Passive!RecvRetry, Passive!sockVars, Passive!kernelVars, Receiving
  <2>2. /\ Took(0) /\ pc' \in {"idle", "recvWait"}
        /\ pc' = "recvWait" => until' <= now + TimeoutSeconds
    BY <1>0, <2>1, PassiveAwaited
  <2>3. Common'
    BY <1>0, <1>1, <2>1, <2>2, ReceiveLeft DEF Typed
  <2>4. RecvWaitBounded'
    BY <2>1, <2>2 DEF RecvWaitBounded
  <2> QED BY <2>1, <2>3, <2>4
     DEF PassiveIInv, Passive!OneReceive, EventClear, DeadlineNear
<1>3. CASE Passive!RecvStart
  <2>0. /\ pc = "recv" /\ recvOp.state = "none" /\ Receiving
        /\ UNCHANGED <<now, sendOp, strays, accepted, RecvEndTime, SendEndTime,
                       reported>>
    <3>1. pc = "recv" /\ ~RecvInitiated
      BY <1>3 DEF Passive!RecvStart
    <3>2. UNCHANGED <<now, sendOp, strays, accepted, RecvEndTime, SendEndTime,
                      reported>>
      BY <1>3 DEF Passive!RecvStart
    <3> QED BY <3>1, <3>2 DEF PassiveIInv, Passive!OneReceive, Receiving
  <2>n. DeadlineNear' /\ RecvEndTime' \in Times
    BY <1>0, <1>1, <2>0 DEF DeadlineNear
  <2>1. CASE /\ recvOp' = Passive!Pending("read", want)
             /\ signalled' = signalled \ {"read"}
             /\ RecvInitiated' = TRUE
             /\ Passive!AwaitRecv
             /\ UNCHANGED received
    <3>1. /\ Took(0) /\ pc' \in {"idle", "recvWait"}
          /\ pc' = "recvWait" => until' <= now + TimeoutSeconds
      BY <1>0, <2>0, <2>1, PassiveAwaited
    <3>2. recvOp' = Pending("read", want)
      BY <2>1, SameOperators
    <3>3. Common' /\ recvOp'.event = "read"
      BY <1>0, <2>0, <2>n, <2>1, <3>1, <3>2, ReceivePending DEF Events
    <3>4. RecvWaitBounded'
      BY <2>0, <3>1 DEF RecvWaitBounded
    <3> QED BY <2>n, <2>1, <3>3, <3>4
       DEF PassiveIInv, Passive!OneReceive, EventClear
  <2>2. CASE \E k \in Passive!RecvResults(want) \ {Passive!FAILED} :
               /\ signalled' = signalled \cup {"read"}
               /\ received' = received + k
               /\ RecvInitiated' = FALSE
               /\ IF k > 0 THEN Passive!Progress(k) ELSE Passive!RecvFails
               /\ UNCHANGED recvOp
    <3>1. PICK k \in RecvResults(want) \ {FAILED} :
               /\ signalled' = signalled \cup {"read"}
               /\ received' = received + k
               /\ RecvInitiated' = FALSE
               /\ IF k > 0 THEN Passive!Progress(k) ELSE Passive!RecvFails
               /\ UNCHANGED recvOp
      BY <2>2, SameOperators
    <3>2. k \in Nat
      BY <1>0, <3>1 DEF RecvResults, FAILED, Typed
    <3>3. Took(k) /\ pc' \in {"idle", "recv"}
      <4>1. CASE k > 0
        BY <1>0, <2>0, <3>1, <3>2, <4>1, Progressed, SameProgress
      <4>2. CASE k = 0
        BY <1>0, <2>0, <3>1, <4>2, Failed, SameRecvFails
      <4> QED BY <3>2, <4>1, <4>2
    <3>4. Common'
      BY <1>0, <2>0, <2>n, <3>1, <3>3, ReceiveAtOnce DEF Events
    <3>5. recvOp' = recvOp
      BY <3>1
    <3> QED BY <2>n, <2>0, <3>5, <3>3, <3>4
       DEF PassiveIInv, Passive!OneReceive, EventClear, RecvWaitBounded
  <2>3. CASE /\ signalled' = signalled \ {"read"}
             /\ RecvInitiated' = TRUE
             /\ Passive!RecvFails
             /\ UNCHANGED <<recvOp, received>>
    <3>1. Took(0) /\ pc' = "idle"
      BY <1>0, <2>0, <2>3, Failed, SameRecvFails
    <3>2. Common'
      BY <1>0, <2>0, <2>n, <2>3, <3>1, ReceiveLeft
    <3>3. recvOp' = recvOp
      BY <2>3
    <3> QED BY <2>n, <2>0, <2>3, <3>1, <3>2, <3>3
       DEF PassiveIInv, Passive!OneReceive, EventClear, RecvWaitBounded
  <2> QED BY <1>3, <2>1, <2>2, <2>3 DEF Passive!RecvStart
<1>4. CASE Passive!RecvCompleted
  <2>1. /\ pc = "recvWait" /\ "read" \in signalled /\ RecvInitiated' = FALSE
        /\ recvOp' = NoOp
        /\ UNCHANGED <<now, signalled, sendOp, strays, received, accepted,
                       RecvEndTime, SendEndTime, reported>>
    BY <1>4, SameOperators DEF Passive!RecvCompleted
  <2>2. recvOp.state # "pending"
    BY <2>1 DEF PassiveIInv, EventClear
  <2>3. Took(Count(recvOp.bytes)) /\ pc' \in {"idle", "recv"}
    <3>0. Receiving
      BY <2>1 DEF Receiving
    <3>1. CASE recvOp.bytes > 0 /\ Passive!Progress(recvOp.bytes)
      <4>1. recvOp.bytes \in Nat /\ Count(recvOp.bytes) = recvOp.bytes
        BY <1>0, <3>1 DEF Typed, FAILED, Count
      <4> QED BY <1>0, <3>0, <3>1, <4>1, Progressed, SameProgress
    <3>2. CASE recvOp.bytes = 0 /\ Passive!Closed
      <4>1. Count(recvOp.bytes) = 0
        BY <3>2 DEF Count, FAILED
      <4> QED BY <1>0, <3>0, <3>2, <4>1, EndOfStream, SameClosed
    <3>3. CASE recvOp.bytes = Passive!FAILED /\ Passive!RecvFails
      <4>1. Count(recvOp.bytes) = 0
        BY <3>3, SameOperators DEF Count
      <4> QED BY <1>0, <3>0, <3>3, <4>1, Failed, SameRecvFails
    <3> QED BY <1>4, <3>1, <3>2, <3>3 DEF Passive!RecvCompleted
  <2>4. Common'
    BY <1>0, <1>1, <2>1, <2>2, <2>3, ReceiveTaken
  <2>5. recvOp'.state = "none"
    BY <1>0, <2>1, NoOperation DEF Typed
  <2>6. DeadlineNear'
    BY <1>0, <2>1 DEF DeadlineNear
  <2> QED BY <2>3, <2>4, <2>5, <2>6
     DEF PassiveIInv, Passive!OneReceive, EventClear, RecvWaitBounded
<1>5. CASE Passive!RecvStopped \/ Passive!RecvTimeout
  <2>1. /\ Receiving /\ Passive!RecvFails
        /\ UNCHANGED <<now, signalled, recvOp, sendOp, strays, received, accepted,
                       RecvInitiated, RecvEndTime, SendEndTime, reported>>
    BY <1>5 DEF Passive!RecvStopped, Passive!RecvTimeout, Passive!sockVars,
                Passive!kernelVars, Receiving
  <2>2. Took(0) /\ pc' = "idle"
    BY <1>0, <2>1, Failed, SameRecvFails
  <2>3. Common'
    BY <1>0, <1>1, <2>1, <2>2, ReceiveLeft DEF Typed
  <2> QED BY <2>1, <2>2, <2>3
     DEF PassiveIInv, Passive!OneReceive, EventClear, DeadlineNear, RecvWaitBounded
<1> QED BY <1>2, <1>3, <1>4, <1>5

LEMMA PassiveSends ==
    ASSUME PassiveIInv,
           \/ Passive!SendStart \/ Passive!SendStopped \/ Passive!SendTimeout
           \/ Passive!SendCompleted \/ Passive!SendResult
    PROVE  PassiveIInv'
<1>0. Typed /\ Common
  BY Types DEF PassiveIInv, Common
<1>r. SendEndTime \in Times /\ RecvEndTime \in Times
  BY <1>0 DEF Typed
<1>q. UNCHANGED <<now, recvOp, RecvInitiated, RecvEndTime, SendEndTime>>
  BY DEF Passive!SendStart, Passive!SendStopped, Passive!SendTimeout,
         Passive!SendCompleted, Passive!SendResult, Passive!AbandonSend,
         Passive!sockVars, Passive!kernelVars
<1>s. "read" \in signalled' => "read" \in signalled
  BY DEF Passive!SendStart, Passive!SendStopped, Passive!SendTimeout,
         Passive!SendCompleted, Passive!SendResult, Passive!AbandonSend,
         Passive!sockVars, Passive!kernelVars
<1>k. ASSUME Common', pc' # "recvWait" PROVE PassiveIInv'
  BY <1>q, <1>s, <1>k
     DEF PassiveIInv, Passive!OneReceive, EventClear, DeadlineNear, RecvWaitBounded
<1>1. CASE Passive!SendStart
  <2>0. /\ pc = "send" /\ strays < MaxStrays /\ Sending
        /\ UNCHANGED <<now, recvOp, strays, received, RecvInitiated, RecvEndTime,
                       SendEndTime, returned, dropped>>
    BY <1>1 DEF Passive!SendStart, Passive!sockVars, Sending
  <2>1. CASE /\ sendOp' = Passive!Pending("write", want)
             /\ signalled' = signalled \ {"read", "write"}
             /\ Passive!Wait("sendWait", SendEndTime - now)
             /\ UNCHANGED <<accepted, reported>>
    <3>1. SendEndTime - now \in Int /\ SendEndTime' \in Times
      BY <1>0, <1>q, <1>r, Timers
    <3>2. Tells(0) /\ pc' = "sendWait"
      <4>1. CallTyped' /\ pc' = "sendWait" /\ moved' = moved
        BY <1>0, <2>1, <3>1, Waited, SameWait
      <4> QED BY <1>0, <2>0, <2>1, <4>1, ToldNothing
    <3>3. sendOp' = Pending("write", want)
      BY <2>1, SameOperators
    <3>4. Common'
      BY <1>0, <2>0, <2>1, <3>1, <3>2, <3>3, SendPending
    <3> QED BY <1>k, <3>2, <3>4
  <2>2. CASE \E k \in Passive!SendResults(want) \ {Passive!FAILED} :
               /\ signalled' = (signalled \ {"read"}) \cup {"write"}
               /\ accepted' = accepted + k
               /\ Passive!SendProgress(k)
               /\ UNCHANGED sendOp
    <3>1. PICK k \in SendResults(want) \ {FAILED} :
               /\ signalled' = (signalled \ {"read"}) \cup {"write"}
               /\ accepted' = accepted + k
               /\ Passive!SendProgress(k)
               /\ UNCHANGED sendOp
      BY <2>2, SameOperators
    <3>2. k \in Nat
      BY <1>0, <3>1 DEF SendResults, FAILED, Typed
    <3>3. Tells(k) /\ pc' \in {"idle", "send"} /\ SendEndTime' \in Times
      BY <1>0, <1>q, <1>r, <2>0, <3>1, <3>2, SendProgressed, SameSendProgress
    <3>4. Common'
      BY <1>0, <2>0, <3>1, <3>3, SendAtOnce
    <3> QED BY <1>k, <3>3, <3>4
  <2>3. CASE /\ signalled' = signalled \ {"read", "write"}
             /\ Passive!SendFails
             /\ UNCHANGED <<sendOp, accepted>>
    <3>1. Tells(0) /\ pc' = "idle" /\ SendEndTime' \in Times
      BY <1>0, <1>q, <1>r, <2>0, <2>3, SendFailed, SameSendFails
    <3>2. Common'
      BY <1>0, <2>0, <2>3, <3>1, SendLeft
    <3> QED BY <1>k, <3>1, <3>2
  <2> QED BY <1>1, <2>1, <2>2, <2>3 DEF Passive!SendStart
<1>2. CASE Passive!SendStopped \/ Passive!SendTimeout
  <2>1. pc = "sendWait" /\ AbandonSend /\ SendFails
    BY <1>2, SameSendFails, SameAbandonSend DEF Passive!SendStopped, Passive!SendTimeout
  <2>2. Common' /\ pc' = "idle"
    BY <1>0, <2>1, SendGivenUp
  <2> QED BY <1>k, <2>2
<1>3. CASE Passive!SendCompleted
  <2>1. /\ pc = "sendWait" /\ pc' = "sendResult"
        /\ UNCHANGED <<now, signalled, recvOp, sendOp, strays, received, accepted,
                       RecvInitiated, RecvEndTime, SendEndTime, loop, want,
                       until, moved, returned, dropped, reported>>
    BY <1>3 DEF Passive!SendCompleted, Passive!kernelVars, Passive!sockVars,
                Passive!counts
  <2>2. Tells(0) /\ SendEndTime' \in Times
    <3>1. CallTyped' /\ SendEndTime' \in Times
      BY <1>0, <1>r, <2>1 DEF Typed, CallTyped, IdleEmpty
    <3> QED BY <1>0, <2>1, <3>1, ToldNothing DEF Sending
  <2>3. Common'
    BY <1>0, <2>1, <2>2, SendLeft
  <2> QED BY <1>k, <2>1, <2>3
<1>4. CASE Passive!SendResult
  <2>1. /\ pc = "sendResult" /\ sendOp.state = "done" /\ sendOp' = NoOp
        /\ UNCHANGED <<now, signalled, recvOp, strays, received, accepted,
                       RecvInitiated, RecvEndTime, returned, dropped>>
    BY <1>4, SameOperators DEF Passive!SendResult, Passive!sockVars
  <2>2. /\ Tells(Count(sendOp.bytes)) /\ pc' \in {"idle", "send"}
        /\ SendEndTime' \in Times
    <3>0. Sending
      BY <2>1 DEF Sending
    <3>1. CASE sendOp.bytes >= 0 /\ Passive!SendProgress(sendOp.bytes)
      <4>1. sendOp.bytes \in Nat /\ Count(sendOp.bytes) = sendOp.bytes
        BY <1>0, <3>1 DEF Typed, FAILED, Count
      <4>2. SendProgress(sendOp.bytes)
        BY <3>1, SameSendProgress
      <4> QED BY <1>0, <1>q, <1>r, <3>0, <4>1, <4>2, SendProgressed
    <3>2. CASE sendOp.bytes = Passive!FAILED /\ Passive!SendFails
      <4>1. Count(sendOp.bytes) = 0
        BY <3>2, SameOperators DEF Count
      <4> QED BY <1>0, <1>q, <1>r, <3>0, <3>2, <4>1, SendFailed, SameSendFails
    <3> QED BY <1>4, <3>1, <3>2 DEF Passive!SendResult
  <2>3. Common'
    BY <1>0, <2>1, <2>2, SendTaken
  <2> QED BY <1>k, <2>2, <2>3
<1> QED BY <1>1, <1>2, <1>3, <1>4

LEMMA PassiveNext == ASSUME PassiveIInv, [Passive!Next]_vars PROVE PassiveIInv'
<1>0. Typed /\ Common
  BY Types DEF PassiveIInv, Common
<1>1. CASE Passive!Caller
  BY <1>1, PassiveCalls
<1>2. CASE Passive!Thread
  BY <1>2, PassiveReceives, PassiveSends DEF Passive!Thread
<1>3. CASE Passive!Environment
  <2>1. Environment
    BY <1>3, SameEnvironment
  <2>2. /\ Common'
        /\ \/ recvOp'.state = recvOp.state
           \/ recvOp'.state = "done" /\ recvOp.state = "pending"
        /\ recvOp'.event = recvOp.event
    BY <1>0, <2>1, EnvironmentKeeps
  <2>3. UNCHANGED <<RecvInitiated, RecvEndTime, pc, until>>
    BY <2>1 DEF Environment, callerVars, sockVars, callVars
  <2>4. /\ now' = now \/ now' = now + 1
        /\ recvOp'.state = "done" \/ ("read" \in signalled' => "read" \in signalled)
    <3>1. CASE KernelRecv
      BY <1>0, <3>1 DEF KernelRecv, Done, Op, Typed
    <3>2. CASE KernelSend \/ KernelStray \/ Tick \/ SetStop
      BY <3>2 DEF KernelSend, KernelStray, Tick, SetStop
    <3> QED BY <2>1, <3>1, <3>2 DEF Environment, Kernel
  <2>5. DeadlineNear' /\ RecvWaitBounded'
    BY <1>0, <2>3, <2>4
       DEF Typed, PassiveIInv, DeadlineNear, RecvWaitBounded, Times
  <2>6. EventClear'
    BY <2>2, <2>4 DEF PassiveIInv, EventClear
  <2> QED BY <2>2, <2>3, <2>5, <2>6 DEF PassiveIInv, Passive!OneReceive
<1>4. CASE UNCHANGED vars
  <2>1. /\ UNCHANGED <<kernelVars, RecvInitiated, callVars, counts>>
        /\ UNCHANGED <<RecvEndTime, SendEndTime>>
    BY <1>4 DEF vars, callerVars, sockVars
  <2>2. Common'
    BY <1>0, <2>1, TimeoutSet DEF Typed
  <2>3. UNCHANGED <<now, signalled, recvOp, RecvInitiated, RecvEndTime, pc, until>>
    BY <2>1 DEF kernelVars, callVars
  <2> QED BY <2>2, <2>3
     DEF PassiveIInv, Passive!OneReceive, EventClear, DeadlineNear, RecvWaitBounded
<1> QED BY <1>1, <1>2, <1>3, <1>4 DEF Passive!Next

\* What the server's socket keeps: the inductive invariant.
THEOREM PassiveInvariant == Passive!Spec => []PassiveIInv
<1>1. Passive!Init => PassiveIInv
  BY PassiveInit
<1>2. ASSUME PassiveIInv, [Passive!Next]_(Passive!vars)
      PROVE  PassiveIInv'
  <2>1. UNCHANGED Passive!vars => UNCHANGED vars
    BY DEF Passive!vars, vars, Passive!kernelVars, kernelVars, Passive!callerVars,
           callerVars, Passive!sockVars, sockVars, Passive!callVars, callVars,
           Passive!counts, counts
  <2>2. [Passive!Next]_vars
    BY <1>2, <2>1
  <2> QED BY <1>2, <2>2, PassiveNext
<1> QED BY <1>1, <1>2, PTL DEF Passive!Spec

\* CPassiveSock::Recv never starts a second WSARecv while the kernel still
\* writes for the first (tools/ssrv/PassiveSock.cpp), whichever timed out or
\* were stopped before.
THEOREM PassiveOneReceive == Passive!Spec => []Passive!OneReceive
<1>1. PassiveIInv => Passive!OneReceive
  BY DEF PassiveIInv
<1> QED BY <1>1, PassiveInvariant, PTL

\* Every byte the server's socket receives is returned by exactly one call, is
\* with the call under way or waits in the completed receive; the one exception
\* are the bytes ReceiveBytes had when a later turn of its loop failed
\* (tools/ssrv/PassiveSock.cpp, lines 127-128).
THEOREM PassiveReturnedOnce == Passive!Spec => []BytesReturnedOnce
<1>1. PassiveIInv => BytesReturnedOnce
  BY DEF PassiveIInv, Common
<1> QED BY <1>1, PassiveInvariant, PTL

\* The server's socket never reports more bytes sent than the kernel has
\* accepted.
THEOREM PassiveNoOverReport == Passive!Spec => []NotOverReported
<1>1. PassiveIInv => NotOverReported
  BY ReportsBounded DEF PassiveIInv
<1> QED BY <1>1, PassiveInvariant, PTL

\* CPassiveSock::Recv never waits longer than the timeout: the time left is
\* looked at before it becomes a DWORD (line 84), which a time in the past
\* would pass as 49 days.
THEOREM PassiveRecvBounded == Passive!Spec => []RecvWaitBounded
<1>1. PassiveIInv => RecvWaitBounded
  BY DEF PassiveIInv
<1> QED BY <1>1, PassiveInvariant, PTL
=============================================================================

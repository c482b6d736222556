----------------------------- MODULE ActiveSock -----------------------------
(***************************************************************************)
(* CActiveSock (tools/scli/ActiveSock.cpp), the client's end of a TCP      *)
(* connection: RecvPartial, RecvMsg, SendPartial and SendMsg.  It lists    *)
(* its own event before the stop event where CPassiveSock lists it after,  *)
(* and still takes index 1 for its own: its receives complete on the stop  *)
(* event, and a send that completes while it is waited for is an error.    *)
(***************************************************************************)
EXTENDS OverlappedSock

SetRecvTimeoutSeconds ==
    /\ pc = "idle" /\ RecvEndTime' = now + TimeoutSeconds
    /\ UNCHANGED <<kernelVars, RecvInitiated, SendEndTime, callVars, counts>>

SetSendTimeoutSeconds ==
    /\ pc = "idle" /\ SendEndTime' = now + TimeoutSeconds
    /\ UNCHANGED <<kernelVars, RecvInitiated, RecvEndTime, callVars, counts>>

RecvPartial(n) ==
    Enter("recv", n, FALSE) /\ UNCHANGED <<RecvEndTime, SendEndTime>>

RecvMsg(n) ==
    Enter("recv", n, TRUE) /\ RecvEndTime' = 0 /\ UNCHANGED SendEndTime

SendPartial(n) ==
    Enter("send", n, FALSE) /\ UNCHANGED <<RecvEndTime, SendEndTime>>

SendMsg(n) ==
    Enter("send", n, TRUE) /\ SendEndTime' = 0 /\ UNCHANGED RecvEndTime

-----------------------------------------------------------------------------
\* "If the timer has been invalidated, restart it"
Restarted(endTime) == IF endTime = 0 THEN now + TimeoutSeconds ELSE endTime

\* Bytes were moved: the timer starts again only after a full transfer.
NextEndTime(endTime, k) == IF k = want THEN 0 ELSE endTime

\* Only a time that is exactly up is not waited for.
AwaitRecv(endTime) ==
    \/ endTime = now /\ RecvFails
    \/ /\ endTime # now
       /\ Wait("recvWait", endTime - now) /\ UNCHANGED <<returned, dropped>>

RecvRetry ==
    /\ pc = "recv" /\ RecvInitiated
    /\ RecvEndTime' = Restarted(0)
    /\ AwaitRecv(RecvEndTime')
    /\ UNCHANGED <<kernelVars, RecvInitiated, SendEndTime, reported>>

\* The receive's event is the stop event, which starting it clears.
RecvStart ==
    /\ pc = "recv" /\ ~RecvInitiated
    /\ \/ /\ recvOp' = Pending("stop", want)
          /\ signalled' = signalled \ {"stop"}
          /\ RecvInitiated' = TRUE
          /\ RecvEndTime' = Restarted(RecvEndTime)
          /\ AwaitRecv(RecvEndTime')
          /\ UNCHANGED received
       \/ \E k \in RecvResults(want) \ {FAILED} :
          /\ signalled' = signalled \cup {"stop"}
          /\ received' = received + k
          /\ RecvInitiated' = FALSE
          /\ RecvEndTime' = NextEndTime(Restarted(RecvEndTime), k)
          /\ IF k > 0 THEN Progress(k) ELSE Closed
          /\ UNCHANGED recvOp
       \/ /\ signalled' = signalled \ {"stop"}
          /\ RecvInitiated' = TRUE
          /\ RecvEndTime' = Restarted(RecvEndTime)
          /\ RecvFails
          /\ UNCHANGED <<recvOp, received>>
    /\ UNCHANGED <<now, sendOp, strays, accepted, SendEndTime, reported>>

\* WAIT_OBJECT_0 + 1, the stop event: set by the receive, or to stop.
RecvCompleted ==
    /\ pc = "recvWait" /\ "stop" \in signalled
    /\ pc' = "recvResult" /\ RecvInitiated' = FALSE
    /\ UNCHANGED <<kernelVars, RecvEndTime, SendEndTime, loop, want, until, moved, counts>>

\* Mutant: the result is not waited for.
RecvResultUnawaited ==
    /\ pc = "recvResult"
    /\ recvOp' = IF recvOp.state = "pending" THEN recvOp ELSE NoOp
    /\ Give(Count(recvOp.bytes)) \/ RecvFails
    /\ UNCHANGED <<now, signalled, sendOp, strays, received, accepted, sockVars,
                   reported>>

\* WSAGetOverlappedResult waits for a receive that is not complete.
RecvResult ==
    /\ pc = "recvResult" /\ recvOp.state # "pending"
    /\ recvOp' = NoOp
    /\ \/ /\ recvOp.bytes > 0
          /\ RecvEndTime' = NextEndTime(RecvEndTime, recvOp.bytes)
          /\ Progress(recvOp.bytes)
       \/ recvOp.bytes = 0 /\ Closed /\ UNCHANGED RecvEndTime
       \/ recvOp.bytes = FAILED /\ RecvFails /\ UNCHANGED RecvEndTime
    /\ UNCHANGED <<now, signalled, sendOp, strays, received, accepted,
                   RecvInitiated, SendEndTime, reported>>

\* Mutant: the next call starts a new receive.
RecvTimeoutForgets ==
    /\ pc = "recvWait" /\ "stop" \notin signalled /\ now >= until
    /\ RecvFails /\ RecvInitiated' = FALSE
    /\ UNCHANGED <<kernelVars, RecvEndTime, SendEndTime, reported>>

RecvTimeout ==
    /\ pc = "recvWait" /\ "stop" \notin signalled /\ now >= until
    /\ RecvFails
    /\ UNCHANGED <<kernelVars, sockVars, reported>>

-----------------------------------------------------------------------------
SendStart ==
    /\ pc = "send" /\ strays < MaxStrays
    /\ \/ /\ sendOp' = Pending("write", want)
          /\ signalled' = signalled \ {"read", "write"}
          /\ SendEndTime' = Restarted(SendEndTime)
          /\ Wait("sendWait", SendEndTime' - now)
          /\ UNCHANGED <<accepted, reported>>
       \/ \E k \in SendResults(want) \ {FAILED} :
          /\ signalled' = (signalled \ {"read"}) \cup {"write"}
          /\ accepted' = accepted + k
          /\ SendEndTime' = NextEndTime(Restarted(SendEndTime), k)
          /\ SendProgress(k)
          /\ UNCHANGED sendOp
       \/ /\ signalled' = signalled \ {"read", "write"}
          /\ SendEndTime' = Restarted(SendEndTime)
          /\ SendFails
          /\ UNCHANGED <<sendOp, accepted>>
    /\ UNCHANGED <<now, recvOp, strays, received, RecvInitiated, RecvEndTime,
                   returned, dropped>>

\* WAIT_OBJECT_0 is the write event, and not taken for it: SOCKET_ERROR.
SendMissed ==
    /\ pc = "sendWait" /\ "write" \in signalled
    /\ SendFails /\ AbandonSend

SendTimeout ==
    /\ pc = "sendWait" /\ {"stop", "write"} \cap signalled = {} /\ now >= until
    /\ SendFails /\ AbandonSend

\* The stop event is taken for the write event.
SendCompleted ==
    /\ pc = "sendWait" /\ "write" \notin signalled /\ "stop" \in signalled
    /\ pc' = "sendResult"
    /\ UNCHANGED <<kernelVars, sockVars, loop, want, until, moved,
                   counts>>

\* Mutant: the event alone is taken for the completion of this send.
SendResultAssumed ==
    /\ pc = "sendResult"
    /\ sendOp' = NoOp /\ GiveSent(want)
    /\ UNCHANGED <<now, signalled, recvOp, strays, received, accepted, sockVars,
                   returned, dropped>>

SendResult ==
    /\ pc = "sendResult" /\ sendOp.state = "done"
    /\ sendOp' = NoOp
    /\ \/ /\ sendOp.bytes >= 0
          /\ SendEndTime' = NextEndTime(SendEndTime, sendOp.bytes)
          /\ SendProgress(sendOp.bytes)
       \/ sendOp.bytes = FAILED /\ SendFails /\ UNCHANGED SendEndTime
    /\ UNCHANGED <<now, signalled, recvOp, strays, received, accepted,
                   RecvInitiated, RecvEndTime, returned, dropped>>

-----------------------------------------------------------------------------
Caller ==
    \/ SetRecvTimeoutSeconds \/ SetSendTimeoutSeconds
    \/ \E n \in 1 .. MaxLen :
        RecvPartial(n) \/ RecvMsg(n) \/ SendPartial(n) \/ SendMsg(n)

Thread ==
    \/ RecvRetry \/ RecvStart \/ RecvCompleted \/ RecvResult \/ RecvTimeout
    \/ SendStart \/ SendMissed \/ SendTimeout \/ SendCompleted \/ SendResult

Next == Caller \/ Thread \/ Environment

Spec == Init /\ [][Next]_vars

-----------------------------------------------------------------------------
\* A receive the kernel works on is one RecvInitiated knows of, or one whose
\* result the call is waiting for: no second WSARecv is ever started on the
\* same OVERLAPPED while the first may still write.
OneReceive == recvOp.state # "none" => RecvInitiated \/ pc = "recvResult"

\* "the previous read timed out, so we are trying again" (ActiveSock.cpp:154):
\* the receive a retry waits for is one the kernel has.
RetryOutstanding == pc = "recvWait" => recvOp.state # "none"

\* "The write event" (ActiveSock.cpp:330): a call that waits for its send does
\* not return an error when the send is complete.
SendCompletionSeen ==
    [][ pc = "sendWait" /\ sendOp.state = "done" => pc' # "idle" ]_vars
=============================================================================

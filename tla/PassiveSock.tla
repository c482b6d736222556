---------------------------- MODULE PassiveSock -----------------------------
(***************************************************************************)
(* CPassiveSock (tools/ssrv/PassiveSock.cpp), the server's end of a TCP    *)
(* connection: Recv, ReceiveBytes, Send and SendBytes on overlapped        *)
(* operations, each call waiting for its event, the stop event or its      *)
(* deadline.  A receive that times out stays outstanding and is picked up  *)
(* by the next call; a send that times out stays outstanding unattended.   *)
(***************************************************************************)
EXTENDS OverlappedSock

SetTimeoutSeconds ==
    /\ pc = "idle"
    /\ RecvEndTime' = now + TimeoutSeconds /\ SendEndTime' = now + TimeoutSeconds
    /\ UNCHANGED <<kernelVars, RecvInitiated, callVars, counts>>

Recv(n) ==
    Enter("recv", n, FALSE) /\ UNCHANGED <<RecvEndTime, SendEndTime>>

ReceiveBytes(n) ==
    /\ Enter("recv", n, TRUE)
    /\ RecvEndTime' = now + TimeoutSeconds /\ UNCHANGED SendEndTime

Send(n) ==
    Enter("send", n, FALSE) /\ UNCHANGED <<RecvEndTime, SendEndTime>>

\* SendBytes sets RecvEndTime, not SendEndTime (line 209).
SendBytes(n) ==
    /\ Enter("send", n, TRUE)
    /\ RecvEndTime' = now + TimeoutSeconds /\ UNCHANGED SendEndTime

-----------------------------------------------------------------------------
\* Mutant: as in Send, the time left is not looked at.
AwaitRecvUnchecked ==
    Wait("recvWait", RecvEndTime - now) /\ UNCHANGED <<returned, dropped>>

\* The receive is in progress: wait for it, unless the time is up.
AwaitRecv ==
    \/ RecvEndTime - now <= 0 /\ RecvFails
    \/ /\ RecvEndTime - now > 0
       /\ Wait("recvWait", RecvEndTime - now) /\ UNCHANGED <<returned, dropped>>

\* "Special case, the previous read timed out, so we are trying again"
RecvRetry ==
    /\ pc = "recv" /\ RecvInitiated
    /\ AwaitRecv
    /\ UNCHANGED <<kernelVars, sockVars, reported>>

\* WSARecv is in progress, completes at once, or fails.
RecvStart ==
    /\ pc = "recv" /\ ~RecvInitiated
    /\ \/ /\ recvOp' = Pending("read", want)
          /\ signalled' = signalled \ {"read"}
          /\ RecvInitiated' = TRUE
          /\ AwaitRecv
          /\ UNCHANGED received
       \/ \E k \in RecvResults(want) \ {FAILED} :
          /\ signalled' = signalled \cup {"read"}
          /\ received' = received + k
          /\ RecvInitiated' = FALSE
          /\ IF k > 0 THEN Progress(k) ELSE RecvFails
          /\ UNCHANGED recvOp
       \/ /\ signalled' = signalled \ {"read"}
          /\ RecvInitiated' = TRUE
          /\ RecvFails
          /\ UNCHANGED <<recvOp, received>>
    /\ UNCHANGED <<now, sendOp, strays, accepted, RecvEndTime, SendEndTime,
                   reported>>

\* Mutants: the loop goes on; the receive is taken for cancelled.
RecvStoppedRetries ==
    /\ pc = "recvWait" /\ "stop" \in signalled
    /\ pc' = "recv"
    /\ UNCHANGED <<kernelVars, sockVars, loop, want, until, moved,
                   counts>>

RecvStoppedForgets ==
    /\ pc = "recvWait" /\ "stop" \in signalled
    /\ RecvFails /\ RecvInitiated' = FALSE /\ recvOp' = NoOp
    /\ UNCHANGED <<now, signalled, sendOp, strays, received, accepted,
                   RecvEndTime, SendEndTime, reported>>

\* WaitForMultipleObjects: the stop event has the lower index.
RecvStopped ==
    /\ pc = "recvWait" /\ "stop" \in signalled
    /\ RecvFails
    /\ UNCHANGED <<kernelVars, sockVars, reported>>

RecvCompleted ==
    /\ pc = "recvWait" /\ "stop" \notin signalled /\ "read" \in signalled
    /\ RecvInitiated' = FALSE /\ recvOp' = NoOp
    /\ \/ recvOp.bytes > 0      /\ Progress(recvOp.bytes)
       \/ recvOp.bytes = 0      /\ Closed
       \/ recvOp.bytes = FAILED /\ RecvFails
    /\ UNCHANGED <<now, signalled, sendOp, strays, received, accepted,
                   RecvEndTime, SendEndTime, reported>>

RecvTimeout ==
    /\ pc = "recvWait" /\ {"stop", "read"} \cap signalled = {} /\ now >= until
    /\ RecvFails
    /\ UNCHANGED <<kernelVars, sockVars, reported>>

-----------------------------------------------------------------------------
\* Send clears the read event where it means its own (line 181).
SendStart ==
    /\ pc = "send" /\ strays < MaxStrays
    /\ \/ /\ sendOp' = Pending("write", want)
          /\ signalled' = signalled \ {"read", "write"}
          /\ Wait("sendWait", SendEndTime - now)
          /\ UNCHANGED <<accepted, reported>>
       \/ \E k \in SendResults(want) \ {FAILED} :
          /\ signalled' = (signalled \ {"read"}) \cup {"write"}
          /\ accepted' = accepted + k
          /\ SendProgress(k)
          /\ UNCHANGED sendOp
       \/ /\ signalled' = signalled \ {"read", "write"}
          /\ SendFails
          /\ UNCHANGED <<sendOp, accepted>>
    /\ UNCHANGED <<now, recvOp, strays, received, sockVars, returned, dropped>>

SendStopped ==
    /\ pc = "sendWait" /\ "stop" \in signalled
    /\ SendFails /\ AbandonSend

SendTimeout ==
    /\ pc = "sendWait" /\ {"stop", "write"} \cap signalled = {} /\ now >= until
    /\ SendFails /\ AbandonSend

\* The event is set, by this send or by an abandoned one; in either case
\* WSAGetOverlappedResult waits until this send is complete.
SendCompleted ==
    /\ pc = "sendWait" /\ "stop" \notin signalled /\ "write" \in signalled
    /\ pc' = "sendResult"
    /\ UNCHANGED <<kernelVars, sockVars, loop, want, until, moved,
                   counts>>

\* Mutant: the event alone is taken for the completion of this send.
SendResultAssumed ==
    /\ pc = "sendResult"
    /\ sendOp' = NoOp /\ GiveSent(want)
    /\ UNCHANGED <<now, signalled, recvOp, strays, received, accepted, sockVars,
                   returned, dropped>>

SendResult ==
    /\ pc = "sendResult" /\ sendOp.state = "done"
    /\ sendOp' = NoOp
    /\ \/ sendOp.bytes >= 0 /\ SendProgress(sendOp.bytes)
       \/ sendOp.bytes = FAILED /\ SendFails
    /\ UNCHANGED <<now, signalled, recvOp, strays, received, accepted, sockVars,
                   returned, dropped>>

-----------------------------------------------------------------------------
Caller ==
    \/ SetTimeoutSeconds
    \/ \E n \in 1 .. MaxLen :
        Recv(n) \/ ReceiveBytes(n) \/ Send(n) \/ SendBytes(n)

Thread ==
    \/ RecvRetry \/ RecvStart \/ RecvStopped \/ RecvCompleted \/ RecvTimeout
    \/ SendStart \/ SendStopped \/ SendTimeout \/ SendCompleted \/ SendResult

Next == Caller \/ Thread \/ Environment

Spec == Init /\ [][Next]_vars

\* The calling thread runs, and the kernel completes the sends it works on.
FairSpec ==
    /\ Spec
    /\ WF_vars(Thread)
    /\ WF_vars((KernelSend \/ KernelStray) /\ UNCHANGED callerVars)

-----------------------------------------------------------------------------
\* A receive the kernel works on is one RecvInitiated knows of: no second
\* WSARecv is started on the same OVERLAPPED while the first may still write.
OneReceive == recvOp.state # "none" => RecvInitiated

\* "maybe it completed in the meantime" (PassiveSock.cpp:53): a call that waits
\* for a receive which is complete is woken.
CompletionSeen ==
    pc = "recvWait" /\ recvOp.state = "done" => "read" \in signalled

\* The same comment: a retry takes a receive that is complete.  Behind
\* RecvEndTime, which Recv never renews, it does not look at it (line 84).
RetryTakes ==
    [][ pc = "recv" /\ RecvInitiated /\ recvOp.state = "done" => pc' # "idle" ]_vars

\* Once the stop event is set every call comes back.
StopReturns == "stop" \in signalled ~> pc = "idle"
=============================================================================

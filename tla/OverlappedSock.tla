--------------------------- MODULE OverlappedSock ---------------------------
(***************************************************************************)
(* What CPassiveSock and CActiveSock have in common: the members of a      *)
(* socket object, the thread that calls it, the loops that ask again for   *)
(* the rest of a message, and what becomes of a call that gives up.        *)
(***************************************************************************)
EXTENDS Winsock

VARIABLES
    RecvInitiated, RecvEndTime, SendEndTime,
    pc,        \* "idle", or where in a receive or a send the thread is
    loop,      \* the call repeats until it has the whole message
    want,      \* bytes the current receive or send asks for
    until,     \* when the current wait gives up
    moved,     \* bytes the loop of the call has moved so far
    returned,  \* bytes the receives have returned to their callers
    dropped,   \* bytes a receiving loop had when it failed: nobody is told
    reported   \* bytes the sends have reported to their callers

sockVars   == <<RecvInitiated, RecvEndTime, SendEndTime>>
callVars   == <<pc, loop, want, until, moved>>
counts     == <<returned, dropped, reported>>
callerVars == <<sockVars, callVars, counts>>
vars       == <<kernelVars, callerVars>>

Times == 0 .. MaxNow + TimeoutSeconds

TypeOK ==
    /\ KernelTypeOK
    /\ RecvInitiated \in BOOLEAN
    /\ RecvEndTime \in Times /\ SendEndTime \in Times
    /\ pc \in {"idle", "recv", "recvWait", "recvResult",
               "send", "sendWait", "sendResult"}
    /\ loop \in BOOLEAN /\ want \in 0 .. MaxLen
    /\ until \in 0 .. MaxNow + DwordSeconds
    /\ moved \in 0 .. MaxBytes
    /\ returned \in 0 .. MaxBytes /\ dropped \in 0 .. MaxBytes
    /\ reported \in 0 .. MaxBytes

\* The constructor, and the timeouts set right behind it.
Init ==
    /\ KernelInit
    /\ RecvInitiated = FALSE
    /\ RecvEndTime = now + TimeoutSeconds /\ SendEndTime = now + TimeoutSeconds
    /\ pc = "idle" /\ loop = FALSE /\ want = 0 /\ until = 0
    /\ moved = 0 /\ returned = 0 /\ dropped = 0 /\ reported = 0

\* A call for n bytes, in a loop or not.
Enter(where, n, inLoop) ==
    /\ pc = "idle" /\ pc' = where /\ want' = n /\ loop' = inLoop
    /\ until' = 0
    /\ UNCHANGED <<kernelVars, RecvInitiated, moved, counts>>

\* The call comes back.
Return ==
    pc' = "idle" /\ want' = 0 /\ loop' = FALSE /\ until' = 0 /\ moved' = 0

\* A receiving call returns the number of bytes it has, 0 when the peer closed.
Give(k) ==
    /\ Return /\ returned' = returned + moved + k
    /\ UNCHANGED dropped

\* SOCKET_ERROR, also for a timeout: the bytes its loop has moved are in the
\* caller's buffer, but the caller is not told of them.
RecvFails ==
    /\ Return /\ dropped' = dropped + moved
    /\ UNCHANGED returned

\* A sending call returns the number of bytes it has sent, or SOCKET_ERROR.
GiveSent(k) == Return /\ reported' = reported + moved + k
SendFails   == Return /\ UNCHANGED reported

\* The loop of a call has moved k bytes and asks for the rest.
Again(where, k) ==
    /\ loop /\ 0 < k /\ k < want
    /\ pc' = where /\ want' = want - k /\ until' = 0 /\ moved' = moved + k
    /\ UNCHANGED loop

\* k bytes were received.
Progress(k) ==
    \/ Again("recv", k) /\ UNCHANGED <<returned, dropped>>
    \/ ~(loop /\ k < want) /\ Give(k)

\* A receive that is complete and brought no bytes: the peer has closed, which
\* ends a loop with what it has; but a WSAGetLastError left over from the start
\* of the receive hides it.
Closed == Give(0) \/ RecvFails

\* k bytes were sent.  None at all ends a loop: an error unless it had sent some.
SendProgress(k) ==
    \/ Again("send", k) /\ UNCHANGED reported
    \/ loop /\ k = 0 /\ IF moved = 0 THEN SendFails ELSE GiveSent(0)
    \/ ~(loop /\ k < want) /\ GiveSent(k)

Wait(where, t) ==
    /\ pc' = where /\ until' = now + WaitSeconds(t)
    /\ UNCHANGED <<want, loop, moved>>

\* The sending call gives up; its operation goes on without it.
AbandonSend ==
    /\ strays' = strays + (IF sendOp.state = "pending" THEN 1 ELSE 0)
    /\ sendOp' = NoOp
    /\ UNCHANGED <<now, signalled, recvOp, received, accepted, sockVars,
                   returned, dropped>>

Environment == (Kernel \/ Tick \/ SetStop) /\ UNCHANGED callerVars

-----------------------------------------------------------------------------
\* Every byte received is returned to a caller, and once: until then it is with
\* the loop of the call under way or waits in the completed receive for the next
\* call, however calls and timeouts follow one another.  The exception are the
\* bytes a loop had when a later turn failed (dropped).
BytesReturnedOnce ==
    received = returned + dropped
        + (IF pc \in {"recv", "recvWait", "recvResult"} THEN moved ELSE 0)
        + (IF recvOp.state = "done" THEN Count(recvOp.bytes) ELSE 0)

\* No call reports more bytes sent than the kernel has accepted: a send woken
\* by the completion of one given up earlier is not taken for complete.
NotOverReported == reported <= accepted

\* A receive, or a send, never waits longer than the timeout.
RecvWaitBounded == pc = "recvWait" => until <= now + TimeoutSeconds
SendWaitBounded == pc = "sendWait" => until <= now + TimeoutSeconds
=============================================================================

----------------------------- MODULE ServerRecv -----------------------------
(***************************************************************************)
(* CSSLServer::Recv (tools/ssrv/SSLServer.cpp).  It differs from the       *)
(* client's RecvPartial in three ways: the buffered ciphertext is never    *)
(* moved down, a record longer than the caller's buffer is an error, and   *)
(* the end of the session is an error like any other.  Of CPassiveSock's   *)
(* Recv it has what decides whether a completed receive is taken: the      *)
(* deadline, which only SetTimeoutSeconds renews, and the event, which     *)
(* Send clears.                                                            *)
(***************************************************************************)
EXTENDS RecvBuffer

CONSTANTS
    Lens,           \* lengths of the caller's buffers
    HandshakeEnds   \* where in readBuffer the handshake's last message ends

ASSUME ServerRecvAssumption ==
    /\ Lens \subseteq Nat \ {0}
    /\ HandshakeEnds \subseteq Cells

VARIABLES
    pc,           \* where the call is: "idle", "loop" (the while), "started"
                  \* (WSARecv was called) or "wait" (for the events)
    len,          \* the caller's Len
    m_LastError,
    got,          \* the bytes the caller has received
    late,         \* RecvEndTime has passed, or the server is being stopped:
                  \* no wait begins any more, and one under way gives up
    read_event    \* the event of the receive is set

callVars == <<pc, len, m_LastError, got>>
waitVars == <<late, read_event>>
vars     == <<recvVars, callVars, waitVars>>

CallTypeOK ==
    /\ RecvTypeOK
    /\ pc \in {"idle", "loop", "started", "wait"}
    /\ len \in Lens \cup {0}
    /\ m_LastError \in {"0", "decrypt", "WSAEMSGSIZE"}
    /\ got \in Seq(Nat)

TypeOK == CallTypeOK /\ late \in BOOLEAN /\ read_event \in BOOLEAN

Init ==
    /\ RecvInit(HandshakeEnds)
    /\ pc = "idle" /\ len = 0 /\ m_LastError = "0" /\ got = <<>>
    /\ late = FALSE /\ read_event = FALSE

-----------------------------------------------------------------------------
Return == pc' = "idle" /\ len' = 0

\* Mutant: the caller gets as much as there is room for.
RecordDoneCut(n, b, error) ==
    /\ Decrypts(b)
    /\ got' = got \o SubSeq(Text, 1, IF Len(Text) <= n THEN Len(Text) ELSE n)
    /\ decoded' = Upcoming /\ readBuffer' = Decrypted /\ KeepExtra(b)
    /\ m_LastError' = error
    /\ Return
    /\ UNCHANGED context

\* A whole record that fits the caller's buffer.
RecordDone(n, b, error) ==
    /\ Decrypts(b) /\ Len(Text) <= n
    /\ got' = got \o Text
    /\ decoded' = Upcoming /\ readBuffer' = Decrypted /\ KeepExtra(b)
    /\ m_LastError' = error
    /\ Return
    /\ UNCHANGED context

\* "More bytes were decoded than the caller requested, so return an error":
\* the record is gone from the context, its cleartext stays where it was.
RecordTooLong(n, b) ==
    /\ Decrypts(b) /\ Len(Text) > n
    /\ decoded' = Upcoming /\ readBuffer' = Decrypted
    /\ readBufferBytes' = b
    /\ m_LastError' = "WSAEMSGSIZE"
    /\ Return
    /\ UNCHANGED <<context, readPtr, got>>

RecordMissing(n, b, error) ==
    /\ Incomplete(b)
    /\ readBufferBytes' = b /\ m_LastError' = error
    /\ pc' = "loop" /\ len' = n
    /\ UNCHANGED <<decoded, context, readBuffer, readPtr, got>>

RecordRefused(b) ==
    /\ \/ Expires(b) /\ context' = "expired"
       \/ Fails(b) /\ context' = AfterFailure
    /\ readBufferBytes' = b /\ m_LastError' = "decrypt"
    /\ Return
    /\ UNCHANGED <<decoded, readBuffer, readPtr, got>>

TryDecrypt(n, b, error) ==
    \/ RecordDone(n, b, error)
    \/ RecordTooLong(n, b)
    \/ RecordMissing(n, b, error)
    \/ RecordRefused(b)

\* The call looks at the buffered bytes first.
RecvStart ==
    /\ pc = "idle"
    /\ \E n \in Lens :
        IF readBufferBytes = 0
        THEN /\ pc' = "loop" /\ len' = n
             /\ UNCHANGED <<recvVars, m_LastError, got>>
        ELSE /\ TryDecrypt(n, readBufferBytes, m_LastError)
             /\ UNCHANGED <<peerVars, taken, io>>
    /\ UNCHANGED waitVars

\* Read more behind the buffered bytes, in whatever room is left there.
RecvLoop ==
    /\ pc = "loop" /\ io.state = "none"
    /\ io' = Posted(readPtr + readBufferBytes, Cap - readBufferBytes - readPtr)
    /\ read_event' = FALSE
    /\ pc' = "started"
    /\ UNCHANGED <<peerVars, taken, decoded, context, bufferVars,
                   len, m_LastError, got, late>>

\* WSA_IO_PENDING: what WSARecv has said, and what a retry takes for granted
\* of the receive that timed out.
Pending == pc = "started" \/ (pc = "loop" /\ io.state # "none")

\* The wait begins, unless RecvEndTime has passed.
RecvWait ==
    /\ Pending /\ ~late
    /\ pc' = "wait"
    /\ UNCHANGED <<recvVars, len, m_LastError, got, waitVars>>

\* A receive is taken when WSARecv completed it at once or its event is seen.
Completed ==
    /\ pc = "started" \/ (pc = "wait" /\ read_event)
    /\ io.state = "done"

\* The socket returns bytes; look at the buffer again.
RecvBytes ==
    /\ Completed /\ io.bytes > 0
    /\ io' = NoIO
    /\ TryDecrypt(len, readBufferBytes + io.bytes, "0")
    /\ UNCHANGED <<peerVars, taken, waitVars>>

\* The socket returns 0 or SOCKET_ERROR.
RecvError ==
    /\ Completed /\ io.bytes = 0
    /\ io' = NoIO
    /\ m_LastError' = "0" /\ Return
    /\ UNCHANGED <<peerVars, taken, decoded, context, bufferVars, got, waitVars>>

\* Mutants: the timed-out receive is forgotten; the call starts over.
RecvTimeoutForgets ==
    /\ (Pending \/ pc = "wait") /\ late
    /\ io' = NoIO /\ m_LastError' = "0" /\ Return
    /\ UNCHANGED <<peerVars, taken, decoded, context, bufferVars, got, waitVars>>

\* A timeout, without a look at the event when RecvEndTime had passed before,
\* leaves the receive outstanding.
RecvTimeout ==
    /\ (Pending \/ pc = "wait") /\ late
    /\ m_LastError' = "0" /\ Return
    /\ UNCHANGED <<recvVars, got, waitVars>>

Recv ==
    \/ RecvStart \/ RecvLoop \/ RecvWait
    \/ RecvBytes \/ RecvError \/ RecvTimeout

-----------------------------------------------------------------------------
(***************************************************************************)
(* Around the call.                                                        *)
(***************************************************************************)

\* The kernel completes the receive and sets its event.
Kernel ==
    /\ KernelWrite \/ KernelEnd
    /\ read_event' = TRUE
    /\ UNCHANGED <<callVars, late>>

\* Time passes RecvEndTime, which Recv never renews, or the server is stopped.
Deadline ==
    /\ ~late /\ late' = TRUE
    /\ UNCHANGED <<recvVars, callVars, read_event>>

\* Between two calls: a new deadline (a server that is stopped stays late).
SetTimeoutSeconds ==
    /\ pc = "idle" /\ late' = FALSE
    /\ UNCHANGED <<recvVars, callVars, read_event>>

\* Between two calls: a message is sent, which clears the event of the receive.
Send ==
    /\ pc = "idle" /\ read_event' = FALSE
    /\ UNCHANGED <<recvVars, callVars, late>>

Next ==
    \/ (PeerSend \/ PeerClose \/ ConnReset) /\ UNCHANGED <<callVars, waitVars>>
    \/ Kernel
    \/ Deadline \/ SetTimeoutSeconds \/ Send
    \/ Recv

Spec == Init /\ [][Next]_vars

\* The kernel reports a completed receive, and the thread of a caller that
\* keeps calling runs.  Nobody has to send, and no deadline has to pass.
Fairness == WF_vars(Kernel) /\ WF_vars(Recv)

FairSpec == Spec /\ Fairness

-----------------------------------------------------------------------------
\* A record that has left the context without reaching the caller.
Lost == TextEnd(decoded) > Len(got)

\* As long as no record was longer than the caller's buffer the bytes that
\* DecryptMessage is given are the next ones of the connection.
AlignedUntilLost == ~Lost => BufferAligned /\ context # "failed"

\* After a record was refused for its length nothing behind it is delivered.
\* (A later record handed over would leave a gap in the stream.)
NothingBehindAGap == [][Lost => got' = got]_vars

\* The comment "Enough for two whole messages so we don't need to move data
\* around in buffers" (SSLServer.h:41): a receive always has room to write to.
RoomLeft == io.state = "posted" => io.room > 0

\* The room behind the buffered bytes is used up with no record whole: every
\* further receive is posted with no room and fails.
OutOfRoom == io.state # "none" /\ io.room = 0

\* The receive is complete, but Send has cleared its event: a retry does not
\* see that it completed in the meantime.
CompletionMissed == io.state = "done" /\ ~read_event

\* Nothing but a refused record, an aborted connection, a buffer used up, a
\* deadline that is not renewed or a completion Send has hidden keeps a record
\* from a caller that keeps calling, also when it timed out before.
AllReceived ==
    \A i \in 1 .. MaxRecords :
        Len(sent) >= i ~>
            \/ reset \/ Lost \/ OutOfRoom \/ late \/ CompletionMissed
            \/ Len(sent) >= i /\ Len(got) >= TextEnd(i)

\* What is delivered is the byte stream, up to a record refused.
Stream == INSTANCE ByteStream
            WITH written <- TextEnd(Len(sent)), delivered <- got

ImplementsByteStream == Stream!Spec
=============================================================================

----------------------------- MODULE ClientRecv -----------------------------
(***************************************************************************)
(* CSSLClient::RecvPartial (tools/scli/SSLClient.cpp): a call returns      *)
(* cached plaintext, or decrypts the next record, reading ciphertext into  *)
(* the tail of readBuffer until the record is whole and moving the partial *)
(* record down when the tail is used up.                                   *)
(***************************************************************************)
EXTENDS RecvBuffer

CONSTANT Lens     \* lengths of the caller's buffers

ASSUME LensAssumption == Lens \subseteq Nat \ {0}

VARIABLES
    pc,           \* where the call is: "idle", "loop" (the while) or "wait"
    len,          \* the caller's Len
    plainText,    \* cached plaintext not delivered yet
    m_LastError,  \* 0 ("see the socket"), or what DecryptMessage said
    got           \* the bytes the caller has received

callVars == <<pc, len, plainText, m_LastError, got>>
vars     == <<recvVars, callVars>>

TypeOK ==
    /\ RecvTypeOK
    /\ pc \in {"idle", "loop", "wait"}
    /\ len \in Lens \cup {0}
    /\ plainText \in Seq(Nat)
    /\ m_LastError \in {"0", "expired", "failed"}
    /\ got \in Seq(Nat)

Init ==
    /\ RecvInit({0})           \* SSPINegotiateLoop moves the extra bytes down
    /\ pc = "idle" /\ len = 0
    /\ plainText = <<>> /\ m_LastError = "0" /\ got = <<>>

-----------------------------------------------------------------------------
Least(m, n) == IF m <= n THEN m ELSE n

Return == pc' = "idle" /\ len' = 0

\* Hand over the first n bytes of text and keep the rest for the next call.
GiveSome(text, n) ==
    LET k == Least(n, Len(text)) IN
    /\ got' = got \o SubSeq(text, 1, k)
    /\ plainText' = SubSeq(text, k + 1, Len(text))

\* Mutant: plainTextPtr is not moved past the bytes returned.
RecvCachedAgain ==
    /\ pc = "idle" /\ plainText # <<>>
    /\ \E n \in Lens : got' = got \o SubSeq(plainText, 1, Least(n, Len(plainText)))
    /\ Len(got) < MaxRecords * Cap
    /\ UNCHANGED <<recvVars, pc, len, plainText, m_LastError>>

\* There are stored bytes, just return them.
RecvCached ==
    /\ pc = "idle" /\ plainText # <<>>
    /\ \E n \in Lens : GiveSome(plainText, n)
    /\ UNCHANGED <<recvVars, pc, len, m_LastError>>

\* The b bytes at readPtr hold a whole record: deliver it to a caller that
\* gave room for n bytes.  The two errors the code provides for here cannot be:
\* a DecryptMessage that succeeds gives a data buffer, and what is over of a
\* record, less than 16384 bytes, fits in the 32000 of plainText.
RecordDone(n, b, error) ==
    /\ Decrypts(b)
    /\ GiveSome(Text, n)
    /\ decoded' = Upcoming /\ readBuffer' = Decrypted /\ KeepExtra(b)
    /\ m_LastError' = error
    /\ Return
    /\ UNCHANGED <<context>>

RecordMissing(n, b, error) ==
    /\ Incomplete(b)
    /\ readBufferBytes' = b /\ m_LastError' = error
    /\ pc' = "loop" /\ len' = n
    /\ UNCHANGED <<decoded, context, readBuffer, readPtr, plainText, got>>

\* "Server signalled end of session" or "Couldn't decrypt data from server"
RecordRefused(b) ==
    /\ \/ Expires(b) /\ context' = "expired" /\ m_LastError' = "expired"
       \/ Fails(b) /\ context' = AfterFailure /\ m_LastError' = "failed"
    /\ readBufferBytes' = b
    /\ Return
    /\ UNCHANGED <<decoded, readBuffer, readPtr, plainText, got>>

TryDecrypt(n, b, error) ==
    \/ RecordDone(n, b, error)
    \/ RecordMissing(n, b, error)
    \/ RecordRefused(b)

\* A call with nothing cached looks at the buffered bytes first.
RecvStart ==
    /\ pc = "idle" /\ plainText = <<>>
    /\ \E n \in Lens :
        IF readBufferBytes = 0
        THEN /\ pc' = "loop" /\ len' = n
             /\ UNCHANGED <<recvVars, plainText, m_LastError, got>>
        ELSE /\ TryDecrypt(n, readBufferBytes, m_LastError)
             /\ UNCHANGED <<sent, reset, taken, io>>

freeBytesAtStart == readPtr
freeBytesAtEnd   == Cap - readBufferBytes - freeBytesAtStart

\* Mutant: the data is moved down but readPtr stays.
RecvLoopStays ==
    /\ pc = "loop"
    /\ freeBytesAtEnd # 0 \/ freeBytesAtStart > 0
    /\ IF freeBytesAtEnd = 0
       THEN /\ readBuffer' = [k \in Cells |->
                  IF k < Cap - freeBytesAtStart
                  THEN readBuffer[k + freeBytesAtStart] ELSE readBuffer[k]]
            /\ io' = Posted(readBufferBytes, freeBytesAtStart)
       ELSE /\ io' = Posted(readPtr + readBufferBytes, freeBytesAtEnd)
            /\ UNCHANGED readBuffer
    /\ pc' = "wait"
    /\ UNCHANGED <<peerVars, taken, decoded, context, readBufferBytes, readPtr,
                   len, plainText, m_LastError, got>>

\* Move the existing data down when the end of the buffer is reached, and
\* read more behind it.
RecvLoop ==
    /\ pc = "loop"
    /\ freeBytesAtEnd # 0 \/ freeBytesAtStart > 0
    /\ IF freeBytesAtEnd = 0
       THEN /\ readBuffer' = [k \in Cells |->
                  IF k < Cap - freeBytesAtStart
                  THEN readBuffer[k + freeBytesAtStart] ELSE readBuffer[k]]
            /\ readPtr' = 0
            /\ io' = Posted(readBufferBytes, freeBytesAtStart)
       ELSE /\ io' = Posted(readPtr + readBufferBytes, freeBytesAtEnd)
            /\ UNCHANGED <<readBuffer, readPtr>>
    /\ pc' = "wait"
    /\ UNCHANGED <<peerVars, taken, decoded, context, readBufferBytes,
                   len, plainText, m_LastError, got>>

\* Mutant: the space at the start is not looked at.
FullAtEnd == freeBytesAtEnd = 0

\* "RecvMsg Buffer inexplicably full"
Full == freeBytesAtEnd = 0 /\ freeBytesAtStart = 0

RecvFull ==
    /\ pc = "loop" /\ Full
    /\ Return
    /\ UNCHANGED <<recvVars, plainText, m_LastError, got>>

\* The socket returns bytes; look at the buffer again.
RecvBytes ==
    /\ pc = "wait" /\ io.state = "done" /\ io.bytes > 0
    /\ io' = NoIO
    /\ TryDecrypt(len, readBufferBytes + io.bytes, "0")
    /\ UNCHANGED <<sent, reset, taken>>

\* The socket returns 0 or SOCKET_ERROR: end of the connection ...
RecvError ==
    /\ pc = "wait" /\ io.state = "done" /\ io.bytes = 0
    /\ io' = NoIO
    /\ m_LastError' = "0" /\ Return
    /\ UNCHANGED <<sent, reset, taken, decoded, context, bufferVars,
                   plainText, got>>

\* Mutants: the timed-out receive is forgotten; the call starts over.
RecvTimeoutForgets ==
    /\ pc = "wait" /\ io.state # "none"
    /\ io' = NoIO /\ m_LastError' = "0" /\ Return
    /\ UNCHANGED <<peerVars, taken, decoded, context, bufferVars, plainText, got>>

RecvTimeoutRestarts ==
    /\ pc = "wait" /\ io.state # "none"
    /\ readBufferBytes' = 0 /\ m_LastError' = "0" /\ Return
    /\ UNCHANGED <<peerVars, taken, io, decoded, context, readBuffer, readPtr,
                   plainText, got>>

\* ... or a timeout, which leaves the receive outstanding (it may even have
\* completed: the wait is skipped when no time is left).
RecvTimeout ==
    /\ pc = "wait" /\ io.state # "none"
    /\ m_LastError' = "0" /\ Return
    /\ UNCHANGED <<recvVars, plainText, got>>

Call == RecvCached \/ RecvStart \/ RecvLoop \/ RecvFull \/ RecvBytes \/ RecvError

Next == (Network /\ UNCHANGED callVars) \/ Call \/ RecvTimeout

Spec == Init /\ [][Next]_vars

\* The kernel completes a receive it has data for; a caller that keeps calling
\* runs RecvPartial; a retry that finds the receive complete does not time out
\* for ever.
Fairness ==
    /\ WF_vars((KernelWrite \/ KernelEnd) /\ UNCHANGED callVars)
    /\ WF_vars(RecvCached \/ RecvStart \/ RecvLoop \/ RecvFull)
    /\ SF_vars(RecvBytes) /\ SF_vars(RecvError)

FairSpec == Spec /\ Fairness

-----------------------------------------------------------------------------
\* What has been decrypted has been delivered or is cached, and the next
\* plaintext byte to come is the next one the caller is owed: a call that
\* times out between two reads, or returns part of a record, loses nothing.
Accounted ==
    /\ TextEnd(decoded) = Len(got) + Len(plainText)
    /\ \A i \in 1 .. Len(got) : got[i] = i
    /\ \A i \in 1 .. Len(plainText) : plainText[i] = Len(got) + i

\* RecvPartial never hands DecryptMessage bytes other than the next ones of
\* the connection, so the session never fails of its own making.
NeverFailed == context # "failed"

\* "which ought to always be true at this point" (SSLClient.cpp:181): when the
\* tail of the buffer is used up there is room to gain at its start.
NeverFull == pc = "loop" => ~Full

\* The next record is longer than the buffer.
TooLong == decoded < Len(sent) /\ Length(Upcoming) > Cap

\* The branch that contradicts it, "RecvMsg Buffer inexplicably full", is only
\* ever taken for a record longer than the whole buffer: wherever in the buffer
\* a record began, the space before it is used before the call gives up.
FullMeansTooLong ==
    pc = "loop" /\ Full => TooLong

\* Every byte the peer wrote reaches a caller that keeps calling, unless the
\* connection is aborted or a record is longer than the buffer, however TCP
\* cuts the records and whatever times out.
AllDelivered ==
    \A i \in 1 .. MaxRecords :
        Len(sent) >= i ~>
            reset \/ TooLong \/ (Len(sent) >= i /\ Len(got) >= TextEnd(i))

\* RecvPartial implements the byte stream.
Stream == INSTANCE ByteStream
            WITH written <- TextEnd(Len(sent)), delivered <- got

ImplementsByteStream == Stream!Spec
=============================================================================

----------------------------- MODULE SecureSend -----------------------------
(***************************************************************************)
(* CSSLClient::SendPartial and CSSLServer::Send: a message is copied into  *)
(* writeBuffer, encrypted there in place as the next record of the         *)
(* session, and given to the socket.  The client's socket call repeats     *)
(* until the record has gone (CActiveSock::SendMsg), the server's is made  *)
(* once (CPassiveSock::Send).  A socket call that gives up leaves its      *)
(* overlapped send with the kernel, which goes on reading writeBuffer.     *)
(*                                                                         *)
(* The bytes of all records are numbered as the session produces them: the *)
(* other end can decrypt the wire as far as it carries 1, 2, 3, ...  A     *)
(* cell of writeBuffer that holds no ciphertext is 0.                      *)
(***************************************************************************)
EXTENDS Integers, Sequences, SequencesExt

CONSTANTS
    Lengths,       \* what callers give for Len
    MaxMsgSize,
    Overhead,      \* header and trailer of a record
    MaxExtraSize,
    MaxBytes       \* bound: bytes ever encrypted

ASSUME SendAssumption ==
    /\ Lengths \subseteq Nat /\ MaxMsgSize \in Nat /\ MaxBytes \in Nat
    /\ Overhead \in Nat \ {0} /\ MaxExtraSize \in Nat /\ Overhead <= MaxExtraSize

VARIABLES
    side,         \* "client" or "server": which class this is
    pc,           \* "idle", or where in the call the thread is
    len,          \* the caller's Len
    writeBuffer,
    encrypted,    \* bytes of all records encrypted so far
    gone,         \* bytes of the record the socket has reported sent
    ops,          \* overlapped sends the kernel works on, oldest first
    done,         \* bytes the send of this call has moved, 0 while it goes on
    wire,         \* the bytes on the connection, in order
    up,           \* the connection has not been aborted
    broken,       \* a call has returned with its record not known to have gone
    pressed       \* a message was given to a session already broken

callVars == <<pc, len, gone, done>>
netVars  == <<ops, wire, up>>
vars     == <<side, callVars, writeBuffer, encrypted, netVars, broken, pressed>>

Cells == 0 .. MaxMsgSize + MaxExtraSize - 1      \* sizeof(writeBuffer)

TypeOK ==
    /\ side \in {"client", "server"}
    /\ pc \in {"idle", "encrypt", "send", "wait"}
    /\ len \in Lengths \cup {0}
    /\ writeBuffer \in [Cells -> 0 .. MaxBytes]
    /\ encrypted \in 0 .. MaxBytes
    /\ gone \in 0 .. MaxBytes /\ done \in 0 .. MaxBytes
    /\ \A i \in DOMAIN ops : ops[i].left > 0 => ops[i].at \in Cells
    /\ wire \in Seq(0 .. MaxBytes)
    /\ up \in BOOLEAN /\ broken \in BOOLEAN /\ pressed \in BOOLEAN

Init ==
    /\ side \in {"client", "server"}
    /\ pc = "idle" /\ len = 0 /\ gone = 0 /\ done = 0
    /\ writeBuffer = [k \in Cells |-> 0] /\ encrypted = 0
    /\ ops = <<>> /\ wire = <<>> /\ up = TRUE
    /\ broken = FALSE /\ pressed = FALSE

RecordLength == len + Overhead

\* The buffer with bytes, a function on some of its cells, put into it.
Put(bytes) ==
    [k \in Cells \cup DOMAIN bytes |->
        IF k \in DOMAIN bytes THEN bytes[k] ELSE writeBuffer[k]]

-----------------------------------------------------------------------------
\* "if (!lpBuf || Len > MaxMsgSize) return SOCKET_ERROR"
Accepted(n) == n <= MaxMsgSize

Refuse ==
    /\ pc = "idle" /\ \E n \in Lengths : ~Accepted(n)
    /\ UNCHANGED vars

\* The copy leaves clear text behind the place of the header.
Copy(n) ==
    /\ pc = "idle" /\ Accepted(n) /\ encrypted + n + Overhead <= MaxBytes
    /\ pc' = "encrypt" /\ len' = n
    /\ writeBuffer' = Put([k \in 1 .. n |-> 0])
    /\ pressed' = (pressed \/ broken)
    /\ UNCHANGED <<side, gone, done, encrypted, netVars, broken>>

Return == pc' = "idle" /\ len' = 0 /\ gone' = 0 /\ done' = 0

\* EncryptMessage: the next record of the session, in place.
Encrypt ==
    /\ pc = "encrypt" /\ pc' = "send"
    /\ writeBuffer' = Put([k \in 0 .. RecordLength - 1 |-> encrypted + 1 + k])
    /\ encrypted' = encrypted + RecordLength
    /\ UNCHANGED <<side, len, gone, done, netVars, broken, pressed>>

\* EncryptMessage fails: no record has been made.
EncryptFails ==
    /\ pc = "encrypt" /\ Return
    /\ UNCHANGED <<side, writeBuffer, encrypted, netVars, broken, pressed>>

\* Mutant: the loop starts over at the beginning of the record.
SocketSendAgain ==
    /\ pc = "send" /\ pc' = "wait"
    /\ ops' = Append(ops, [at |-> 0, left |-> RecordLength - gone, sent |-> 0])
    /\ UNCHANGED <<side, len, gone, done, writeBuffer, encrypted, wire, up,
                   broken, pressed>>

\* WSASend with what is left of the record.
SocketSend ==
    /\ pc = "send" /\ pc' = "wait"
    /\ ops' = Append(ops, [at |-> gone, left |-> RecordLength - gone, sent |-> 0])
    /\ UNCHANGED <<side, len, gone, done, writeBuffer, encrypted, wire, up,
                   broken, pressed>>

\* WSASend fails at once.
SocketFails ==
    /\ pc = "send" /\ Return /\ broken' = TRUE
    /\ UNCHANGED <<side, writeBuffer, encrypted, netVars, pressed>>

\* Mutant: SendMsg is satisfied with a part of the record.
EnoughAlways(n) == TRUE

\* SendMsg repeats until the record has gone; the server does not look.
Enough(n) == n = RecordLength \/ side = "server"

\* The send has completed, with all or some of its bytes.
SocketDone ==
    /\ pc = "wait" /\ done > 0
    /\ IF Enough(gone + done)
       THEN /\ Return
            /\ broken' = (broken \/ (side = "server" /\ gone + done < RecordLength))
       ELSE /\ pc' = "send" /\ gone' = gone + done /\ done' = 0
            /\ UNCHANGED <<len, broken>>
    /\ UNCHANGED <<side, writeBuffer, encrypted, netVars, pressed>>

\* The send completes without a byte.  SendMsg does not go on ("no chance of
\* sending more"), and only when nothing had gone before is that an error.
SocketClosed ==
    /\ pc = "wait" /\ Len(ops) = 1 /\ ops[1].sent = 0
    /\ ops' = <<>> /\ Return /\ broken' = TRUE
    /\ UNCHANGED <<side, writeBuffer, encrypted, wire, up, pressed>>

\* Mutant: the send is made again on a connection that is gone.
GiveUpRetries ==
    /\ pc = "wait" /\ ~up /\ done = 0
    /\ pc' = "send" /\ ops' = Front(ops)
    /\ UNCHANGED <<side, len, gone, done, writeBuffer, encrypted, wire, up, broken,
                   pressed>>

\* A timeout, a stop, a failure, or on the client a completion that is taken
\* for none (see ActiveSock): SOCKET_ERROR, whatever the send does.
GiveUp ==
    /\ pc = "wait" /\ Return /\ broken' = TRUE
    /\ UNCHANGED <<side, writeBuffer, encrypted, netVars, pressed>>

-----------------------------------------------------------------------------
\* The kernel takes the next byte from the buffer as it is now.
KernelSends ==
    /\ up /\ ops # <<>> /\ ops[1].left > 0
    /\ wire' = Append(wire, writeBuffer[ops[1].at])
    /\ ops' = [ops EXCEPT ![1] = [at |-> @.at + 1, left |-> @.left - 1,
                                  sent |-> @.sent + 1]]
    /\ UNCHANGED <<side, callVars, writeBuffer, encrypted, up, broken, pressed>>

\* The send completes, if need be short; its caller may have gone.
KernelCompletes ==
    /\ up /\ ops # <<>>
    /\ ops[1].sent > 0 \/ pc # "wait" \/ Len(ops) > 1
    /\ ops' = Tail(ops)
    /\ done' = IF pc = "wait" /\ Len(ops) = 1 THEN ops[1].sent ELSE done
    /\ UNCHANGED <<side, pc, len, gone, writeBuffer, encrypted, wire, up, broken,
                   pressed>>

ConnReset ==
    /\ up /\ up' = FALSE
    /\ UNCHANGED <<side, callVars, writeBuffer, encrypted, ops, wire, broken,
                   pressed>>

Kernel == KernelSends \/ KernelCompletes

Call == Encrypt \/ SocketSend \/ SocketDone

Next ==
    \/ \E n \in Lengths : Copy(n)
    \/ Refuse \/ Call \/ EncryptFails \/ SocketFails \/ SocketClosed \/ GiveUp
    \/ Kernel \/ ConnReset

Spec == Init /\ [][Next]_vars

\* The thread runs, the peer reads so that the kernel can send, and a caller
\* learns of an aborted connection.
FairSpec ==
    /\ Spec
    /\ WF_vars(Call) /\ WF_vars(Kernel) /\ WF_vars(GiveUp /\ ~up)

-----------------------------------------------------------------------------
\* As long as nobody sends again after a send that failed, the connection
\* carries the records the session made, byte by byte: though sends go out in
\* parts, are started while others go on, and read the one buffer late.
WireGenuine == ~pressed => \A i \in DOMAIN wire : wire[i] = i

\* When a call has returned and none has failed, or moved a part only, every
\* record made so far is on the connection as a whole.  (The server's socket call
\* may move a part, the client's when a send has completed without a byte.)
NothingMissing == pc = "idle" /\ ~broken => Len(wire) = encrypted

\* A call comes back: the client's loop ends however small the parts are.
SendReturns == pc # "idle" ~> pc = "idle"

\* "Send an encrypted message containing an encrypted version of whatever
\* plaintext data the caller provides" (SSLServer.cpp:253): the server's Send
\* does not return the caller's length with a part of the record unsent.
NoPartReported ==
    [][ pc = "wait" /\ done > 0 /\ pc' = "idle" /\ side = "server" /\ ~broken
        => ~broken' ]_vars
=============================================================================

----------------------------- MODULE RecvBuffer -----------------------------
(***************************************************************************)
(* What CSSLClient::RecvPartial and CSSLServer::Recv share: the records    *)
(* the peer encrypts, the TCP connection they arrive on, the one           *)
(* overlapped receive a socket object may have outstanding, the Schannel   *)
(* context that decrypts records in order, and the read buffer the         *)
(* ciphertext is assembled in.                                             *)
(*                                                                         *)
(* The bytes of the connection are numbered.  A cell of readBuffer holds   *)
(* the number of the ciphertext byte stored there, or 0 for anything that  *)
(* is no longer (or not yet) ciphertext.  The plaintext bytes are numbered *)
(* as well, so that losing, repeating or reordering one is visible.        *)
(***************************************************************************)
EXTENDS Integers, Sequences

CONSTANTS
    Sizes,        \* plaintext lengths a record may carry
    Overhead,     \* header plus trailer of a record (MaxExtraSize bounds it)
    Cap,          \* sizeof(readBuffer)
    MaxRecords,   \* bound: records the peer sends
    Window        \* records the peer sends ahead of those decrypted: 1 is
                  \* request and response, MaxRecords no limit

ASSUME BufferAssumption ==
    /\ Sizes \subseteq Nat
    /\ Overhead \in Nat \ {0}
    /\ Cap \in Nat \ {0}
    /\ MaxRecords \in Nat
    /\ Window \in Nat \ {0}

\* A whole record fits the buffer: at most (16384 + 41) bytes against 32100.
RecordFits == \A n \in Sizes \cup {0} : n + Overhead <= Cap

VARIABLES
    sent,             \* the records written by the peer, by cumulative ends
    reset,            \* the connection was aborted
    taken,            \* ciphertext bytes TCP has handed over so far
    io,               \* the overlapped receive of the socket object
    decoded,          \* records the security context has decrypted
    context,          \* "open", "expired" (close notify seen) or "failed"
    readBuffer, readPtr, readBufferBytes

bufferVars == <<readBuffer, readPtr, readBufferBytes>>
peerVars   == <<sent, reset>>
recvVars   == <<sent, reset, taken, io, decoded, context, bufferVars>>

Cells == 0 .. Cap - 1

Record == [wire : Nat, text : Nat, close : BOOLEAN]

\* No receive outstanding.
NoIO == [state |-> "none", addr |-> 0, room |-> 0, bytes |-> 0]

RecvTypeOK ==
    /\ sent \in Seq(Record)
    /\ reset \in BOOLEAN
    /\ taken \in Nat
    /\ io \in [state : {"none", "posted", "done"},
               addr : 0 .. Cap, room : 0 .. Cap, bytes : 0 .. Cap]
    /\ decoded \in Nat
    /\ context \in {"open", "expired", "failed"}
    /\ readBuffer \in [Cells -> Nat]
    /\ readPtr \in 0 .. Cap
    /\ readBufferBytes \in 0 .. Cap

-----------------------------------------------------------------------------
(***************************************************************************)
(* The peer.  Record i is the ciphertext WireEnd(i-1)+1 .. WireEnd(i) and  *)
(* the plaintext TextEnd(i-1)+1 .. TextEnd(i).                             *)
(***************************************************************************)

WireEnd(i) == IF i = 0 THEN 0 ELSE sent[i].wire
TextEnd(i) == IF i = 0 THEN 0 ELSE sent[i].text

Written == WireEnd(Len(sent))

PeerClosed == \E i \in 1 .. Len(sent) : sent[i].close

PeerRecord(n, c) == [wire  |-> Written + n + Overhead,
                     text  |-> TextEnd(Len(sent)) + n,
                     close |-> c]

\* The other side's Send: one call, one record, written whole.
PeerSend ==
    /\ Len(sent) < MaxRecords /\ Len(sent) < decoded + Window
    /\ ~PeerClosed /\ ~reset
    /\ \E n \in Sizes : sent' = Append(sent, PeerRecord(n, FALSE))
    /\ UNCHANGED <<reset, taken, io, decoded, context, bufferVars>>

\* The other side's Disconnect: a close notify, the last record.
PeerClose ==
    /\ Len(sent) < MaxRecords /\ ~PeerClosed /\ ~reset
    /\ sent' = Append(sent, PeerRecord(0, TRUE))
    /\ UNCHANGED <<reset, taken, io, decoded, context, bufferVars>>

\* The connection is aborted: what TCP has not handed over yet is lost.
ConnReset ==
    /\ ~reset /\ reset' = TRUE
    /\ UNCHANGED <<sent, taken, io, decoded, context, bufferVars>>

\* The handshake may leave the first bytes of the first record behind, at a
\* position in `starts'.
RecvInit(starts) ==
    /\ \/ sent = <<>>
       \/ \E n \in Sizes :
            sent = <<[wire |-> n + Overhead, text |-> n, close |-> FALSE]>>
    /\ \E e \in 0 .. Written, p \in starts :
        /\ p + e <= Cap
        /\ readPtr = IF e = 0 THEN 0 ELSE p
        /\ readBuffer = [k \in Cells |->
                           IF p <= k /\ k < p + e THEN 1 + k - p ELSE 0]
        /\ readBufferBytes = e
        /\ taken = e
    /\ reset = FALSE /\ io = NoIO
    /\ decoded = 0 /\ context = "open"

-----------------------------------------------------------------------------
(***************************************************************************)
(* The overlapped receive.  It is posted with the address and the room the *)
(* call computed; the kernel writes to THAT address whenever data comes,   *)
(* also after the call that posted it has timed out.                       *)
(***************************************************************************)

Posted(addr, room) ==
    IF io.state = "none"
    THEN [state |-> "posted", addr |-> addr, room |-> room, bytes |-> 0]
    ELSE io             \* RecvInitiated: "Special case for retries"

KernelWrite ==
    /\ io.state = "posted" /\ ~reset
    /\ \E n \in 1 .. io.room :
        /\ taken + n <= Written
        /\ readBuffer' = [k \in Cells |->
             IF io.addr <= k /\ k < io.addr + n
             THEN taken + 1 + k - io.addr ELSE readBuffer[k]]
        /\ taken' = taken + n
        /\ io' = [io EXCEPT !.state = "done", !.bytes = n]
    /\ UNCHANGED <<sent, reset, decoded, context, readPtr, readBufferBytes>>

\* No byte to give: the peer shut down, the connection is gone, or the
\* receive was posted with no room at all.
KernelEnd ==
    /\ io.state = "posted"
    /\ reset \/ (PeerClosed /\ taken = Written) \/ io.room = 0
    /\ io' = [io EXCEPT !.state = "done"]
    /\ UNCHANGED <<sent, reset, taken, decoded, context, bufferVars>>

Network == PeerSend \/ PeerClose \/ ConnReset \/ KernelWrite \/ KernelEnd

-----------------------------------------------------------------------------
(***************************************************************************)
(* DecryptMessage on the n bytes at readPtr of a buffer.                   *)
(***************************************************************************)

Upcoming == decoded + 1

\* The n bytes at readPtr are the bytes that follow the last record decoded.
Genuine(buffer, n) ==
    \A i \in 0 .. n - 1 :
        readPtr + i \in Cells /\ buffer[readPtr + i] = WireEnd(decoded) + 1 + i

Length(i) == WireEnd(i) - WireEnd(i - 1)

NeedMore(n) == n = 0 \/ (decoded < Len(sent) /\ n < Length(Upcoming))

\* SEC_E_INCOMPLETE_MESSAGE
Incomplete(n) == context = "open" /\ Genuine(readBuffer, n) /\ NeedMore(n)

Whole(n) == context = "open" /\ Genuine(readBuffer, n) /\ ~NeedMore(n)

\* SEC_E_OK
Decrypts(n) == Whole(n) /\ ~sent[Upcoming].close

\* SEC_I_CONTEXT_EXPIRED
Expires(n) == Whole(n) /\ sent[Upcoming].close

\* Anything else: no further record can be read from the context.
Fails(n) == ~(context = "open" /\ Genuine(readBuffer, n))

AfterFailure == IF context = "open" THEN "failed" ELSE context

\* The record's bytes are decrypted in place.
Decrypted ==
    [k \in Cells |->
        IF readPtr <= k /\ k < readPtr + Length(Upcoming) THEN 0
                                                      ELSE readBuffer[k]]

\* Mutant: the subtraction the wrong way round.
KeepExtraSwapped(n) ==
    /\ readBufferBytes' = Length(Upcoming) - n
    /\ readPtr' = IF n > Length(Upcoming) THEN readPtr + Length(Upcoming) ELSE 0

\* The extra bytes behind the record become the buffered ciphertext.
KeepExtra(n) ==
    /\ readBufferBytes' = n - Length(Upcoming)
    /\ readPtr' = IF n > Length(Upcoming) THEN readPtr + Length(Upcoming) ELSE 0

\* The plaintext of the next record.
Text ==
    [i \in 1 .. TextEnd(Upcoming) - TextEnd(decoded) |-> TextEnd(decoded) + i]

\* The bytes of the buffer that still hold ciphertext are those that follow
\* the last record decoded, also the ones a receive has just written.
BufferAligned ==
    /\ readPtr + readBufferBytes + io.bytes <= Cap
    /\ Genuine(readBuffer, readBufferBytes + io.bytes)
    /\ taken = WireEnd(decoded) + readBufferBytes + io.bytes

\* An outstanding receive writes right behind the bytes already buffered and
\* inside the buffer, whatever calls have timed out since it was posted.
PendingTarget ==
    io.state # "none" =>
        /\ io.addr = readPtr + readBufferBytes
        /\ io.addr + io.room <= Cap
=============================================================================

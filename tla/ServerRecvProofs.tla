-------------------------- MODULE ServerRecvProofs --------------------------
(***************************************************************************)
(* What CSSLServer::Recv guarantees for every buffer size, every set of    *)
(* record sizes, every place the handshake may end at and every way TCP    *)
(* may cut the ciphertext.                                                 *)
(***************************************************************************)
EXTENDS ServerRecv, SequenceTheorems, TLAPS

-----------------------------------------------------------------------------
(* The inductive invariant.  As long as no record was longer than the       *)
(* caller's buffer the call is in step with the connection; from then on it *)
(* is out of step for good.                                                 *)

\* Every record carries one of the sizes, and they follow one another.
SentRecords ==
    /\ decoded <= Len(sent)
    /\ \A i \in 1 .. Len(sent) :
        \E n \in Sizes \cup {0} :
            /\ sent[i].wire = WireEnd(i - 1) + n + Overhead
            /\ sent[i].text = TextEnd(i - 1) + n
    /\ taken <= Written

\* Only a completed receive has bytes, no more than there was room for.
IoBytes ==
    /\ io.bytes <= io.room
    /\ io.state # "done" => io.bytes = 0
    /\ io.state = "none" => io = NoIO

\* A call that reads, and a receive that is outstanding, wait for the rest of
\* a record the buffered bytes do not hold whole.
Waiting ==
    /\ pc # "idle" \/ io.state # "none" => NeedMore(readBufferBytes)
    /\ pc # "idle" => len \in Lens
    /\ pc \in {"started", "wait"} => io.state # "none"

\* The caller has the plaintext of every record decrypted, in order.
InOrder ==
    /\ TextEnd(decoded) = Len(got)
    /\ \A i \in 1 .. Len(got) : got[i] = i

SessionKept == context # "failed"

InStep ==
    /\ CallTypeOK
    /\ SentRecords
    /\ IoBytes
    /\ BufferAligned
    /\ PendingTarget
    /\ Waiting
    /\ InOrder
    /\ SessionKept

\* A record was refused for its length: the bytes at readPtr are its cleartext,
\* no call is reading and none ever will, for DecryptMessage refuses them.
OutOfStep ==
    /\ CallTypeOK
    /\ SentRecords
    /\ pc = "idle" /\ io = NoIO
    /\ readBufferBytes > 0 /\ readPtr \in Cells /\ readBuffer[readPtr] = 0
    /\ Lost
    /\ \A i \in 1 .. Len(got) : got[i] = i

IInv == InStep \/ OutOfStep

USE DEF Cells

-----------------------------------------------------------------------------
\* Where a record starts and ends, and that it is longer than nothing and no
\* longer than a record may be (RecvBuffer's record layout).
LEMMA RecordEnds ==
    ASSUME sent \in Seq(Record), NEW i \in 0 .. Len(sent)
    PROVE  WireEnd(i) \in Nat /\ TextEnd(i) \in Nat
<1>1. CASE i = 0
  BY <1>1 DEF WireEnd, TextEnd
<1>2. CASE i # 0
  <2>1. sent[i] \in Record
    BY <1>2
  <2> QED BY <1>2, <2>1 DEF WireEnd, TextEnd, Record
<1> QED BY <1>1, <1>2

\* Records only ever move the stream on: each ends behind the one before it in
\* ciphertext, not before it in plaintext, and if records fit so does its length.
LEMMA RecordGrows ==
    ASSUME sent \in Seq(Record), SentRecords,
           NEW i \in 0 .. Len(sent) - 1
    PROVE  /\ WireEnd(i + 1) > WireEnd(i)
           /\ TextEnd(i + 1) >= TextEnd(i)
           /\ RecordFits => Length(i + 1) <= Cap
<1>1. i + 1 \in 1 .. Len(sent) /\ (i + 1) - 1 = i /\ i \in 0 .. Len(sent)
  OBVIOUS
<1>2. PICK n \in Sizes \cup {0} :
           /\ sent[i + 1].wire = WireEnd(i) + n + Overhead
           /\ sent[i + 1].text = TextEnd(i) + n
  BY <1>1 DEF SentRecords
<1>3. /\ n \in Nat /\ Overhead \in Nat \ {0} /\ Cap \in Nat
      /\ WireEnd(i) \in Nat /\ TextEnd(i) \in Nat
  BY <1>1, BufferAssumption, RecordEnds
<1>4. WireEnd(i + 1) = WireEnd(i) + n + Overhead
      /\ TextEnd(i + 1) = TextEnd(i) + n
  BY <1>1, <1>2 DEF WireEnd, TextEnd
<1>5. RecordFits => Length(i + 1) <= Cap
  BY <1>1, <1>3, <1>4 DEF RecordFits, Length
<1> QED BY <1>3, <1>4, <1>5

\* Handing over the next bytes keeps what the caller has in order.
LEMMA InOrderGrows ==
    ASSUME NEW text \in Seq(Nat), got \in Seq(Nat),
           \A i \in 1 .. Len(got) : got[i] = i,
           \A i \in 1 .. Len(text) : text[i] = Len(got) + i,
           got' = got \o text
    PROVE  /\ got' \in Seq(Nat) /\ Len(got') = Len(got) + Len(text)
           /\ \A i \in 1 .. Len(got') : got'[i] = i
<1>1. /\ got' \in Seq(Nat) /\ Len(got') = Len(got) + Len(text)
      /\ \A i \in 1 .. Len(got) + Len(text) :
            got'[i] = IF i <= Len(got) THEN got[i] ELSE text[i - Len(got)]
  <2>1. /\ got \o text \in Seq(Nat) /\ Len(got \o text) = Len(got) + Len(text)
        /\ \A i \in 1 .. Len(got) + Len(text) :
              (got \o text)[i] = IF i <= Len(got) THEN got[i]
                                                  ELSE text[i - Len(got)]
    BY ConcatProperties
  <2> QED BY <2>1
<1>2. ASSUME NEW i \in 1 .. Len(got') PROVE got'[i] = i
  <2>1. CASE i <= Len(got)
    BY <1>1, <2>1
  <2>2. CASE i > Len(got)
    <3>1. Len(got) \in Nat /\ Len(text) \in Nat
      OBVIOUS
    <3>2. i - Len(got) \in 1 .. Len(text)
      BY <1>1, <2>2, <3>1
    <3>3. got'[i] = text[i - Len(got)]
      BY <1>1, <2>2
    <3> QED BY <3>1, <3>2, <3>3
  <2> QED BY <1>1, <2>1, <2>2
<1> QED BY <1>1, <1>2

\* A step that sends no record, decrypts none that was not sent and takes no
\* byte that was not written leaves the records in order.
LEMMA SameRecords ==
    ASSUME SentRecords, sent' = sent, decoded' <= Len(sent),
           taken' = taken \/ taken' <= Written
    PROVE  SentRecords'
<1>1. /\ \A i \in 1 .. Len(sent) :
            WireEnd(i - 1)' = WireEnd(i - 1) /\ TextEnd(i - 1)' = TextEnd(i - 1)
      /\ Written' = Written
  BY DEF WireEnd, TextEnd, Written
<1> QED BY <1>1 DEF SentRecords

\* What the invariant says of the types, spelled out.
LEMMA Typed ==
    ASSUME InStep
    PROVE  /\ CallTypeOK /\ SentRecords /\ IoBytes
           /\ Cap \in Nat \ {0} /\ Overhead \in Nat \ {0}
           /\ sent \in Seq(Record) /\ Len(sent) \in Nat
           /\ decoded \in 0 .. Len(sent) /\ taken \in Nat
           /\ readPtr \in 0 .. Cap /\ readBufferBytes \in 0 .. Cap
           /\ readBuffer \in [Cells -> Nat]
           /\ io \in [state : {"none", "posted", "done"},
                      addr : 0 .. Cap, room : 0 .. Cap, bytes : 0 .. Cap]
           /\ io.addr \in 0 .. Cap /\ io.room \in 0 .. Cap
           /\ io.bytes \in 0 .. Cap
<1>1. CallTypeOK /\ SentRecords /\ IoBytes
  BY DEF InStep
<1>2. /\ sent \in Seq(Record) /\ decoded \in Nat /\ taken \in Nat
      /\ readPtr \in 0 .. Cap /\ readBufferBytes \in 0 .. Cap
      /\ readBuffer \in [Cells -> Nat]
      /\ io \in [state : {"none", "posted", "done"},
                 addr : 0 .. Cap, room : 0 .. Cap, bytes : 0 .. Cap]
  BY <1>1 DEF CallTypeOK, RecvTypeOK
<1>3. io.addr \in 0 .. Cap /\ io.room \in 0 .. Cap /\ io.bytes \in 0 .. Cap
  BY <1>2
<1>4. Len(sent) \in Nat /\ decoded <= Len(sent)
  BY <1>1, <1>2 DEF SentRecords
<1>5. decoded \in 0 .. Len(sent)
  BY <1>2, <1>4
<1>6. Cap \in Nat \ {0} /\ Overhead \in Nat \ {0}
  BY BufferAssumption
<1> QED BY <1>1, <1>2, <1>3, <1>4, <1>5, <1>6

\* When DecryptMessage finds a whole record in the b bytes Recv gives
\* it, there is a record, and it is inside those bytes.
LEMMA WholeRecord ==
    ASSUME InStep, NEW b \in Nat, b <= readBufferBytes + io.bytes, Whole(b)
    PROVE  /\ Upcoming \in 1 .. Len(sent)
           /\ Length(Upcoming) \in 1 .. b
           /\ WireEnd(Upcoming) = WireEnd(decoded) + Length(Upcoming)
           /\ WireEnd(decoded) \in Nat /\ WireEnd(Upcoming) \in Nat
           /\ TextEnd(decoded) \in Nat /\ TextEnd(Upcoming) \in Nat
           /\ TextEnd(Upcoming) >= TextEnd(decoded)
<1> USE DEF Upcoming
<1>1. /\ sent \in Seq(Record) /\ decoded \in 0 .. Len(sent)
      /\ CallTypeOK /\ SentRecords
  BY DEF InStep, CallTypeOK, RecvTypeOK, SentRecords
<1>2. WireEnd(decoded) \in Nat /\ TextEnd(decoded) \in Nat
  BY <1>1, RecordEnds
<1>3. b # 0 /\ ~(decoded < Len(sent) /\ b < Length(Upcoming))
  BY DEF Whole, NeedMore
<1>4. decoded < Len(sent)
  <2>1. taken <= WireEnd(Len(sent))
    BY <1>1 DEF SentRecords, Written
  <2>2. taken = WireEnd(decoded) + (readBufferBytes + io.bytes)
        /\ readBufferBytes + io.bytes \in Nat
    <3>1. taken = WireEnd(decoded) + readBufferBytes + io.bytes
      BY DEF InStep, BufferAligned
    <3>2. readBufferBytes \in Nat /\ io.bytes \in Nat
      BY Typed
    <3> QED BY <1>2, <3>1, <3>2
  <2>3. Len(sent) \in Nat
    BY <1>1
  <2> QED BY <1>1, <1>2, <1>3, <2>1, <2>2, <2>3
<1>5. /\ WireEnd(decoded + 1) \in Nat /\ TextEnd(decoded + 1) \in Nat
      /\ WireEnd(decoded + 1) > WireEnd(decoded)
      /\ TextEnd(decoded + 1) >= TextEnd(decoded)
  <2>1. decoded + 1 \in 0 .. Len(sent)
    BY <1>1, <1>4
  <2>2. WireEnd(decoded + 1) \in Nat /\ TextEnd(decoded + 1) \in Nat
    BY <1>1, <2>1, RecordEnds
  <2>3. /\ WireEnd(decoded + 1) > WireEnd(decoded)
        /\ TextEnd(decoded + 1) >= TextEnd(decoded)
    <3>1. decoded \in 0 .. Len(sent) - 1
      BY <1>1, <1>4
    <3> QED BY <1>1, <3>1, RecordGrows
  <2> QED BY <2>2, <2>3
<1>6. Length(decoded + 1) = WireEnd(decoded + 1) - WireEnd(decoded)
  BY <1>1 DEF Length
<1> QED BY <1>1, <1>2, <1>3, <1>4, <1>5, <1>6

\* What every decryption of Recv starts from: b bytes at readPtr, the
\* buffered ones or these and the ones the socket has just returned.
LookAt(b) ==
    /\ b \in 1 .. Cap
    /\ io' = io \/ io' = NoIO
    /\ b + io'.bytes = readBufferBytes + io.bytes
    /\ io'.state # "none" => NeedMore(b) /\ b = readBufferBytes
    /\ UNCHANGED <<sent, reset, taken>>

\* Delivering a record keeps the invariant: its plaintext is handed over,
\* the extra bytes behind it become the buffered ciphertext.
LEMMA RecordDoneKeeps ==
    ASSUME InStep, NEW n \in Lens, NEW b, LookAt(b),
           NEW error \in {"0", "decrypt", "WSAEMSGSIZE"},
           RecordDone(n, b, error)
    PROVE  InStep'
<1> DEFINE L == Length(Upcoming)
<1>0. /\ n \in Nat /\ b \in 1 .. Cap /\ Cap \in Nat /\ CallTypeOK /\ SentRecords
      /\ Whole(b)
  BY ServerRecvAssumption, BufferAssumption DEF InStep, LookAt, RecordDone, Decrypts
<1>1. io' = NoIO /\ io'.bytes = 0 /\ b = readBufferBytes + io.bytes
  BY <1>0 DEF LookAt, Whole, InStep, IoBytes, NoIO
<1>2. /\ Upcoming \in 1 .. Len(sent) /\ L \in 1 .. b
      /\ WireEnd(Upcoming) = WireEnd(decoded) + L
      /\ WireEnd(decoded) \in Nat /\ TextEnd(decoded) \in Nat
      /\ WireEnd(Upcoming) \in Nat /\ TextEnd(Upcoming) \in Nat
      /\ TextEnd(Upcoming) >= TextEnd(decoded)
  BY <1>0, <1>1, WholeRecord
<1>3. /\ sent' = sent /\ taken' = taken /\ reset' = reset /\ context' = context
      /\ decoded' = Upcoming /\ readBuffer' = Decrypted /\ KeepExtra(b)
      /\ pc' = "idle" /\ len' = 0 /\ m_LastError' = error
  BY DEF RecordDone, LookAt, Return
<1>4. /\ WireEnd(decoded)' = WireEnd(Upcoming)
      /\ TextEnd(decoded)' = TextEnd(Upcoming)
      /\ Written' = Written
  BY <1>3 DEF WireEnd, TextEnd, Written
<1>5. got' \in Seq(Nat) /\ InOrder'
  <2>1. Text \in Seq(Nat) /\ Len(Text) = TextEnd(Upcoming) - TextEnd(decoded)
    <3>1. TextEnd(Upcoming) - TextEnd(decoded) \in Nat
      BY <1>2
    <3>2. \A i \in 1 .. TextEnd(Upcoming) - TextEnd(decoded) :
             TextEnd(decoded) + i \in Nat
      BY <1>2
    <3> QED BY <3>1, <3>2 DEF Text
  <2>2. \A i \in 1 .. Len(Text) : Text[i] = TextEnd(decoded) + i
    BY <1>2, <2>1 DEF Text
  <2>3. got \in Seq(Nat) /\ TextEnd(decoded) = Len(got)
        /\ \A i \in 1 .. Len(got) : got[i] = i
    BY <1>0 DEF InStep, CallTypeOK, InOrder, LookAt
  <2>4. got' = got \o Text
    BY DEF RecordDone
  <2>5. /\ got' \in Seq(Nat) /\ Len(got') = Len(got) + Len(Text)
        /\ \A i \in 1 .. Len(got') : got'[i] = i
    <3> HIDE DEF Text
    <3>1. \A i \in 1 .. Len(Text) : Text[i] = Len(got) + i
      BY <2>2, <2>3
    <3> QED BY <2>1, <2>3, <2>4, <3>1, InOrderGrows
  <2>6. TextEnd(Upcoming) = Len(got')
    BY <1>2, <2>1, <2>3, <2>5
  <2> QED BY <1>4, <2>5, <2>6 DEF InOrder
<1>6. /\ readPtr \in Nat /\ readBuffer \in [Cells -> Nat]
      /\ readPtr + b <= Cap
      /\ \A i \in 0 .. b - 1 :
            readBuffer[readPtr + i] = WireEnd(decoded) + 1 + i
      /\ taken = WireEnd(decoded) + b
  <2>1. /\ readPtr \in Nat /\ readBuffer \in [Cells -> Nat]
        /\ readBufferBytes \in Nat /\ io.bytes \in Nat
    BY Typed
  <2>2. /\ readPtr + readBufferBytes + io.bytes <= Cap
        /\ Genuine(readBuffer, b)
        /\ taken = WireEnd(decoded) + readBufferBytes + io.bytes
    <3>1. BufferAligned
      BY DEF InStep
    <3> QED BY <1>1, <3>1 DEF BufferAligned
  <2>3. readPtr + b <= Cap /\ taken = WireEnd(decoded) + b
    <3>1. WireEnd(decoded) \in Nat
      BY <1>2
    <3>2. b = readBufferBytes + io.bytes
      BY <1>1
    <3> QED BY <2>1, <2>2, <3>1, <3>2
  <2> QED BY <2>1, <2>2, <2>3 DEF Genuine
<1>7. /\ readBuffer' = [k \in Cells |->
             IF readPtr <= k /\ k < readPtr + L THEN 0 ELSE readBuffer[k]]
      /\ readBufferBytes' = b - L
      /\ readPtr' = IF b > L THEN readPtr + L ELSE 0
  BY <1>3 DEF KeepExtra, Decrypted
<1> HIDE DEF L
<1>8. BufferAligned'
  <2>1. ASSUME NEW i \in 0 .. (b - L) - 1
        PROVE  /\ readPtr' + i \in Cells
               /\ readBuffer'[readPtr' + i] = WireEnd(Upcoming) + 1 + i
    <3>1. readPtr' = readPtr + L /\ L + i \in 0 .. b - 1
      BY <1>0, <1>2, <1>7, <2>1
    <3>2. readPtr + (L + i) \in Cells /\ ~(readPtr + (L + i) < readPtr + L)
      <4>1. readPtr \in Nat /\ Cap \in Nat /\ L \in Nat /\ i \in Nat /\ b \in Nat
            /\ readPtr + b <= Cap /\ L + i < b
        BY <1>0, <1>2, <1>6, <3>1
      <4> QED BY <4>1
    <3>3. readBuffer'[readPtr + (L + i)] = readBuffer[readPtr + (L + i)]
      BY <1>7, <3>2
    <3>4. readBuffer[readPtr + (L + i)] = WireEnd(decoded) + 1 + (L + i)
      BY <1>6, <3>1
    <3>5. readPtr + (L + i) = readPtr' + i
          /\ WireEnd(decoded) + 1 + (L + i) = WireEnd(Upcoming) + 1 + i
      <4>1. /\ readPtr \in Nat /\ L \in Nat /\ i \in Nat
            /\ WireEnd(decoded) \in Nat
        BY <1>0, <1>2, <1>6
      <4>2. readPtr' = readPtr + L /\ WireEnd(Upcoming) = WireEnd(decoded) + L
        BY <1>2, <3>1
      <4> QED BY <4>1, <4>2
    <3> QED BY <3>2, <3>3, <3>4, <3>5
  <2>2. b - L + 0 = b - L /\ readBufferBytes' + io'.bytes = b - L
    BY <1>0, <1>1, <1>2, <1>7
  <2>3. Genuine(readBuffer, readBufferBytes + io.bytes)'
    BY <1>4, <2>1, <2>2 DEF Genuine
  <2>4. taken' = WireEnd(decoded)' + readBufferBytes' + io'.bytes
    BY <1>1, <1>2, <1>3, <1>4, <1>6, <1>7
  <2>5. readPtr' + readBufferBytes' + io'.bytes <= Cap
    <3>1. CASE b > L
      <4>1. /\ readPtr' = readPtr + L /\ readBufferBytes' = b - L
            /\ io'.bytes = 0
        BY <1>1, <1>7, <3>1
      <4>2. (readPtr + L) + (b - L) + 0 <= Cap
        BY <1>0, <1>2, <1>6
      <4> QED BY <4>1, <4>2
    <3>2. CASE b = L
      BY <1>1, <1>0, <1>2, <1>7, <3>2
    <3> QED BY <1>0, <1>2, <3>1, <3>2
  <2> QED BY <2>3, <2>4, <2>5 DEF BufferAligned
<1>9. SentRecords'
  <2>1. decoded' <= Len(sent)
    BY <1>2, <1>3
  <2> QED BY <1>0, <1>3, <2>1, SameRecords
<1>10. CallTypeOK'
  <2>1. io' \in [state : {"none", "posted", "done"},
                 addr : 0 .. Cap, room : 0 .. Cap, bytes : 0 .. Cap]
    BY <1>0, <1>1 DEF NoIO
  <2>2. /\ sent' \in Seq(Record) /\ reset' \in BOOLEAN /\ taken' \in Nat
        /\ decoded' \in Nat /\ context' \in {"open", "expired", "failed"}
    BY <1>0, <1>2, <1>3 DEF CallTypeOK, RecvTypeOK, Upcoming
  <2>3. /\ readBuffer' \in [Cells -> Nat]
        /\ readBufferBytes' \in 0 .. Cap /\ readPtr' \in 0 .. Cap
    <3>1. readBuffer' \in [Cells -> Nat]
      BY <1>6, <1>7
    <3>2. /\ b \in Nat /\ L \in Nat /\ L <= b /\ b <= Cap /\ Cap \in Nat
          /\ readPtr \in Nat /\ readPtr + b <= Cap
      BY <1>0, <1>2, <1>6
    <3>3. b - L \in 0 .. Cap /\ readPtr + L \in 0 .. Cap /\ 0 \in 0 .. Cap
      BY <3>2
    <3> QED BY <1>7, <3>1, <3>3
  <2>4. RecvTypeOK'
    BY <2>1, <2>2, <2>3 DEF RecvTypeOK
  <2> QED BY <1>3, <1>5, <2>4 DEF CallTypeOK
<1>11. IoBytes' /\ PendingTarget' /\ Waiting' /\ SessionKept'
  BY <1>0, <1>1, <1>3 DEF NoIO, IoBytes, PendingTarget, Waiting, SessionKept, InStep
<1> QED BY <1>5, <1>8, <1>9, <1>10, <1>11 DEF InStep

\* A step that moves bytes at most between the receive and the buffered count
\* leaves the stream and the accounts as they are.
LEMMA BufferKept ==
    ASSUME InStep,
           UNCHANGED <<sent, taken, decoded, readBuffer, readPtr,
                       got>>,
           readBufferBytes' \in 0 .. Cap, io'.bytes \in 0 .. Cap,
           readBufferBytes' + io'.bytes = readBufferBytes + io.bytes
    PROVE  /\ SentRecords' /\ BufferAligned' /\ InOrder'
           /\ \A n : NeedMore(n)' = NeedMore(n)
<1>1. SentRecords'
  BY SameRecords DEF InStep, SentRecords
<1>2. BufferAligned'
  <2>1. readPtr \in Nat /\ readBufferBytes \in Nat /\ io.bytes \in Nat
        /\ Cap \in Nat
    BY BufferAssumption DEF InStep, CallTypeOK, RecvTypeOK
  <2>2. readPtr' + readBufferBytes' + io'.bytes <= Cap
    BY <2>1 DEF InStep, BufferAligned
  <2>3. sent \in Seq(Record) /\ decoded \in 0 .. Len(sent)
    BY DEF InStep, CallTypeOK, RecvTypeOK, SentRecords
  <2>4. WireEnd(decoded) \in Nat
    BY <2>3, RecordEnds
  <2>5. WireEnd(decoded)' = WireEnd(decoded)
    BY DEF WireEnd
  <2>6. Genuine(readBuffer, readBufferBytes + io.bytes)'
    BY <2>5 DEF InStep, BufferAligned, Genuine
  <2>7. taken = WireEnd(decoded) + readBufferBytes + io.bytes
    BY DEF InStep, BufferAligned
  <2>8. taken' = WireEnd(decoded)' + readBufferBytes' + io'.bytes
    BY <2>1, <2>4, <2>5, <2>7
  <2> QED BY <2>2, <2>6, <2>8 DEF BufferAligned
<1>3. InOrder'
  <2>1. TextEnd(decoded)' = TextEnd(decoded)
    BY DEF TextEnd
  <2> QED BY <2>1 DEF InStep, InOrder
<1>4. \A n : NeedMore(n)' = NeedMore(n)
  BY DEF NeedMore, Length, WireEnd, Upcoming
<1> QED BY <1>1, <1>2, <1>3, <1>4

\* A record that is not whole yet keeps the invariant: its bytes stay where
\* they are and count as buffered.
LEMMA RecordMissingKeeps ==
    ASSUME InStep, NEW n \in Lens, NEW b, LookAt(b),
           NEW error \in {"0", "decrypt", "WSAEMSGSIZE"},
           RecordMissing(n, b, error)
    PROVE  InStep'
<1>1. /\ b \in 1 .. Cap /\ Cap \in Nat /\ CallTypeOK /\ IoBytes /\ NeedMore(b)
      /\ io' = io \/ io' = NoIO
      /\ b + io'.bytes = readBufferBytes + io.bytes
      /\ io'.state # "none" => b = readBufferBytes
  BY BufferAssumption DEF InStep, LookAt, RecordMissing, Incomplete
<1>2. /\ sent' = sent /\ taken' = taken /\ reset' = reset /\ decoded' = decoded
      /\ readBuffer' = readBuffer /\ readPtr' = readPtr /\ context' = context
      /\ got' = got
      /\ readBufferBytes' = b /\ m_LastError' = error
      /\ pc' = "loop" /\ len' = n
  BY DEF LookAt, RecordMissing
<1>3. io'.bytes \in 0 .. Cap
      /\ io' \in [state : {"none", "posted", "done"},
                  addr : 0 .. Cap, room : 0 .. Cap, bytes : 0 .. Cap]
  BY <1>1 DEF CallTypeOK, RecvTypeOK, NoIO
<1>4. SentRecords' /\ BufferAligned' /\ InOrder' /\ NeedMore(b)' = NeedMore(b)
  <2>1. UNCHANGED <<sent, taken, decoded, readBuffer, readPtr, got>>
    BY <1>2
  <2>2. /\ readBufferBytes' \in 0 .. Cap
        /\ readBufferBytes' + io'.bytes = readBufferBytes + io.bytes
    BY <1>1, <1>2
  <2> QED BY <1>3, <2>1, <2>2, BufferKept
<1>5. CallTypeOK'
  <2>1. /\ sent' \in Seq(Record) /\ reset' \in BOOLEAN
        /\ taken' \in Nat /\ decoded' \in Nat
        /\ context' \in {"open", "expired", "failed"}
    BY <1>1, <1>2, Zenon DEF CallTypeOK, RecvTypeOK
  <2>2. readBuffer' \in [Cells -> Nat]
    BY <1>1, <1>2, Zenon DEF CallTypeOK, RecvTypeOK, Cells
  <2>3. readPtr' \in 0 .. Cap
    BY <1>1, <1>2, Zenon DEF CallTypeOK, RecvTypeOK
  <2>4. readBufferBytes' \in 0 .. Cap
    BY <1>1, <1>2
  <2>5. RecvTypeOK'
    BY <1>3, <2>1, <2>2, <2>3, <2>4, Zenon DEF RecvTypeOK, Cells
  <2>6. /\ got' \in Seq(Nat)
        /\ pc' \in {"idle", "loop", "started", "wait"} /\ len' \in Lens \cup {0}
        /\ m_LastError' \in {"0", "decrypt", "WSAEMSGSIZE"}
    BY <1>1, <1>2 DEF CallTypeOK
  <2> QED BY <2>5, <2>6, Zenon DEF CallTypeOK
<1>6. IoBytes'
  BY <1>1 DEF IoBytes, NoIO
<1>7. PendingTarget'
  BY <1>1, <1>2 DEF InStep, PendingTarget, NoIO
<1>8. Waiting'
  BY <1>1, <1>2, <1>4 DEF Waiting, NeedMore
<1>9. SessionKept'
  BY <1>2 DEF InStep, SessionKept
<1> QED BY <1>4, <1>5, <1>6, <1>7, <1>8, <1>9 DEF InStep

\* A refusal is the peer's close notify: the bytes looked at are genuine.
LEMMA RecordRefusedKeeps ==
    ASSUME InStep, NEW b, LookAt(b), RecordRefused(b)
    PROVE  InStep'
<1>1. /\ b \in 1 .. Cap /\ Cap \in Nat /\ CallTypeOK /\ IoBytes
      /\ io' = io \/ io' = NoIO
      /\ b + io'.bytes = readBufferBytes + io.bytes
      /\ io'.state # "none" => NeedMore(b) /\ b = readBufferBytes
  BY BufferAssumption DEF InStep, LookAt
<1>2. /\ sent' = sent /\ taken' = taken /\ reset' = reset /\ decoded' = decoded
      /\ readBuffer' = readBuffer /\ readPtr' = readPtr
      /\ got' = got
      /\ readBufferBytes' = b
      /\ pc' = "idle" /\ len' = 0
  BY DEF LookAt, RecordRefused, Return
<1>3. io'.bytes \in 0 .. Cap
      /\ io' \in [state : {"none", "posted", "done"},
                  addr : 0 .. Cap, room : 0 .. Cap, bytes : 0 .. Cap]
  BY <1>1 DEF CallTypeOK, RecvTypeOK, NoIO
<1>4. SentRecords' /\ BufferAligned' /\ InOrder' /\ NeedMore(b)' = NeedMore(b)
  <2>1. UNCHANGED <<sent, taken, decoded, readBuffer, readPtr, got>>
    BY <1>2
  <2>2. /\ readBufferBytes' \in 0 .. Cap
        /\ readBufferBytes' + io'.bytes = readBufferBytes + io.bytes
    BY <1>1, <1>2
  <2> QED BY <1>3, <2>1, <2>2, BufferKept
<1>5. context' \in {"open", "expired"} /\ m_LastError' = "decrypt"
  <2>1. context \in {"open", "expired"}
    BY <1>1 DEF InStep, SessionKept, CallTypeOK, RecvTypeOK
  <2>2. Genuine(readBuffer, b)
    <3>1. b <= readBufferBytes + io.bytes
      BY <1>1, <1>3
    <3>2. readBufferBytes + io.bytes \in Nat
      BY <1>1 DEF CallTypeOK, RecvTypeOK
    <3>3. Genuine(readBuffer, readBufferBytes + io.bytes)
      BY DEF InStep, BufferAligned
    <3> QED BY <1>1, <3>1, <3>2, <3>3 DEF Genuine
  <2>3. m_LastError' = "decrypt"
    BY DEF RecordRefused
  <2>4. CASE Expires(b) /\ context' = "expired"
    BY <2>3, <2>4
  <2>5. CASE Fails(b) /\ context' = AfterFailure
    BY <2>3, <2>1, <2>2, <2>5 DEF Fails, AfterFailure
  <2>6. \/ Expires(b) /\ context' = "expired"
        \/ Fails(b) /\ context' = AfterFailure
    BY DEF RecordRefused
  <2> QED BY <2>4, <2>5, <2>6
<1>6. CallTypeOK'
  <2>1. readBufferBytes' \in 0 .. Cap /\ context' \in {"open", "expired", "failed"}
    BY <1>1, <1>2, <1>5
  <2>2. RecvTypeOK'
    BY <1>1, <1>2, <1>3, <2>1 DEF CallTypeOK, RecvTypeOK
  <2> QED BY <1>1, <1>2, <1>5, <2>2 DEF CallTypeOK
<1>7. IoBytes'
  BY <1>1 DEF IoBytes, NoIO
<1>8. PendingTarget'
  BY <1>1, <1>2 DEF InStep, PendingTarget, NoIO
<1>9. Waiting'
  BY <1>1, <1>2, <1>4 DEF Waiting, NeedMore
<1>10. SessionKept'
  BY <1>5 DEF SessionKept
<1> QED BY <1>4, <1>6, <1>7, <1>8, <1>9, <1>10 DEF InStep
-----------------------------------------------------------------------------
(* The peer and the kernel.                                                 *)

\* A record the peer adds leaves the records before it as they were.
LEMMA RecordSent ==
    ASSUME sent \in Seq(Record), SentRecords, decoded \in 0 .. Len(sent),
           taken \in Nat, NEW n \in Sizes \cup {0}, NEW c \in BOOLEAN,
           sent' = Append(sent, PeerRecord(n, c)),
           UNCHANGED <<taken, decoded>>
    PROVE  /\ sent' \in Seq(Record) /\ Len(sent') = Len(sent) + 1
           /\ SentRecords'
           /\ \A i \in 0 .. Len(sent) :
                 WireEnd(i)' = WireEnd(i) /\ TextEnd(i)' = TextEnd(i)
           /\ WireEnd(decoded)' = WireEnd(decoded)
           /\ TextEnd(decoded)' = TextEnd(decoded)
<1>1. Len(sent) \in Nat /\ n \in Nat /\ Overhead \in Nat
  BY BufferAssumption
<1>2. Written \in Nat /\ TextEnd(Len(sent)) \in Nat
  BY <1>1, RecordEnds DEF Written
<1>3. PeerRecord(n, c) \in Record
  BY <1>1, <1>2 DEF PeerRecord, Record
<1>4. /\ sent' \in Seq(Record) /\ Len(sent') = Len(sent) + 1
      /\ \A i \in 1 .. Len(sent) : sent'[i] = sent[i]
      /\ sent'[Len(sent) + 1] = PeerRecord(n, c)
  BY <1>1, <1>3, AppendProperties
<1>5. \A i \in 0 .. Len(sent) :
        WireEnd(i)' = WireEnd(i) /\ TextEnd(i)' = TextEnd(i)
  BY <1>4 DEF WireEnd, TextEnd
<1>6. Written' = Written + n + Overhead
  BY <1>1, <1>4 DEF Written, WireEnd, PeerRecord
<1>7. SentRecords'
  <2>1. ASSUME NEW i \in 1 .. Len(sent')
        PROVE  \E m \in Sizes \cup {0} :
                  /\ sent'[i].wire = WireEnd(i - 1)' + m + Overhead
                  /\ sent'[i].text = TextEnd(i - 1)' + m
    <3>1. i - 1 \in 0 .. Len(sent)
      BY <1>1, <1>4
    <3>2. WireEnd(i - 1)' = WireEnd(i - 1) /\ TextEnd(i - 1)' = TextEnd(i - 1)
      BY <1>5, <3>1
    <3>3. CASE i = Len(sent) + 1
      <4>1. i - 1 = Len(sent) /\ sent'[i] = PeerRecord(n, c)
        BY <1>1, <1>4, <3>3
      <4>2. /\ sent'[i].wire = WireEnd(i - 1) + n + Overhead
            /\ sent'[i].text = TextEnd(i - 1) + n
        BY <4>1 DEF PeerRecord, Written
      <4> QED BY <3>2, <4>2
    <3>4. CASE i # Len(sent) + 1
      <4>1. i \in 1 .. Len(sent) /\ sent'[i] = sent[i]
        BY <1>1, <1>4, <3>4
      <4> QED BY <1>1, <3>2, <4>1 DEF SentRecords
    <3> QED BY <3>3, <3>4
  <2>2. decoded' <= Len(sent') /\ taken' <= Written'
    BY <1>1, <1>2, <1>4, <1>6 DEF SentRecords
  <2> QED BY <2>1, <2>2 DEF SentRecords
<1>8. WireEnd(decoded)' = WireEnd(decoded) /\ TextEnd(decoded)' = TextEnd(decoded)
  BY <1>1, <1>5
<1> QED BY <1>4, <1>5, <1>7, <1>8

\* The peer may add a record at any time, also a close notify.
LEMMA PeerRecordKeeps ==
    ASSUME InStep, NEW n \in Sizes \cup {0}, NEW c \in BOOLEAN,
           sent' = Append(sent, PeerRecord(n, c)),
           UNCHANGED <<reset, taken, io, decoded, context, bufferVars, callVars>>
    PROVE  InStep'
<1> USE DEF bufferVars, callVars
<1>1. /\ sent \in Seq(Record) /\ decoded \in 0 .. Len(sent) /\ Len(sent) \in Nat
      /\ taken \in Nat /\ CallTypeOK /\ SentRecords
  BY Typed
<1>2. sent' \in Seq(Record) /\ Len(sent') = Len(sent) + 1 /\ SentRecords'
  BY <1>1, RecordSent
<1>3. \A i \in 0 .. Len(sent) : WireEnd(i)' = WireEnd(i)
  BY <1>1, RecordSent
<1>4. WireEnd(decoded)' = WireEnd(decoded) /\ TextEnd(decoded)' = TextEnd(decoded)
  BY <1>1, <1>3, RecordSent
<1>5. CallTypeOK'
  BY <1>1, <1>2 DEF CallTypeOK, RecvTypeOK
<1>6. BufferAligned'
  BY <1>4 DEF InStep, BufferAligned, Genuine
<1>7. InOrder'
  BY <1>4 DEF InStep, InOrder
<1>8. NeedMore(readBufferBytes) => NeedMore(readBufferBytes)'
  <2>1. CASE readBufferBytes = 0
    BY <2>1 DEF NeedMore
  <2>2. CASE decoded < Len(sent) /\ readBufferBytes < Length(Upcoming)
    <3>1. decoded + 1 \in 0 .. Len(sent) /\ (decoded + 1) - 1 = decoded
      BY <1>1, <2>2
    <3>2. Length(Upcoming)' = Length(Upcoming)
      BY <1>3, <1>4, <3>1 DEF Length, Upcoming
    <3>3. decoded' < Len(sent')
      BY <1>1, <1>2, <2>2
    <3> QED BY <2>2, <3>2, <3>3 DEF NeedMore
  <2> QED BY <2>1, <2>2 DEF NeedMore
<1>9. Waiting'
  BY <1>8 DEF InStep, Waiting
<1>10. IoBytes' /\ PendingTarget' /\ SessionKept'
  BY DEF InStep, IoBytes, PendingTarget, SessionKept
<1> QED BY <1>2, <1>5, <1>6, <1>7, <1>9, <1>10 DEF InStep

\* The kernel writes behind the buffered bytes, wherever the receive was
\* posted from, and what it writes continues them.
LEMMA KernelWriteKeeps ==
    ASSUME InStep, KernelWrite, UNCHANGED callVars
    PROVE  InStep'
<1> USE DEF callVars
<1>1. PICK n \in 1 .. io.room :
        /\ taken + n <= Written
        /\ readBuffer' = [k \in Cells |->
             IF io.addr <= k /\ k < io.addr + n
             THEN taken + 1 + k - io.addr ELSE readBuffer[k]]
        /\ taken' = taken + n
        /\ io' = [io EXCEPT !.state = "done", !.bytes = n]
  BY DEF KernelWrite
<1>2. /\ io.state = "posted"
      /\ UNCHANGED <<sent, reset, decoded, context, readPtr, readBufferBytes>>
  BY DEF KernelWrite
<1>3. /\ CallTypeOK /\ IoBytes /\ SentRecords
      /\ Cap \in Nat /\ taken \in Nat /\ readPtr \in 0 .. Cap
      /\ readBufferBytes \in 0 .. Cap /\ io.room \in 0 .. Cap
      /\ readBuffer \in [Cells -> Nat]
      /\ io.addr = readPtr + readBufferBytes /\ io.addr + io.room <= Cap
      /\ io.bytes = 0
      /\ sent \in Seq(Record) /\ decoded \in 0 .. Len(sent)
  <2>1. io.addr = readPtr + readBufferBytes /\ io.addr + io.room <= Cap
    BY <1>2 DEF InStep, PendingTarget
  <2>2. io.bytes = 0
    BY <1>2, Typed DEF IoBytes
  <2> QED BY <2>1, <2>2, Typed
<1>4. /\ n \in Nat /\ n \in 1 .. Cap /\ readPtr + readBufferBytes + n <= Cap
      /\ io'.state = "done" /\ io'.bytes = n /\ io'.room = io.room
      /\ io'.addr = io.addr
      /\ io' \in [state : {"none", "posted", "done"},
                  addr : 0 .. Cap, room : 0 .. Cap, bytes : 0 .. Cap]
  <2>1. n \in Nat /\ n \in 1 .. Cap /\ readPtr + readBufferBytes + n <= Cap
    BY <1>3
  <2>2. io \in [state : {"none", "posted", "done"},
               addr : 0 .. Cap, room : 0 .. Cap, bytes : 0 .. Cap]
    BY <1>3 DEF CallTypeOK, RecvTypeOK
  <2>3. /\ io'.state = "done" /\ io'.bytes = n /\ io'.room = io.room
        /\ io'.addr = io.addr
    BY <1>1, <2>2
  <2>4. io' \in [state : {"none", "posted", "done"},
                addr : 0 .. Cap, room : 0 .. Cap, bytes : 0 .. Cap]
    <3>1. n \in 0 .. Cap
      BY <1>3, <2>1
    <3> QED BY <1>1, <2>2, <3>1
  <2> QED BY <2>1, <2>3, <2>4
<1>5. WireEnd(decoded) \in Nat /\ WireEnd(decoded)' = WireEnd(decoded)
  BY <1>2, <1>3, RecordEnds DEF WireEnd
<1>6. taken = WireEnd(decoded) + readBufferBytes
  BY <1>3, <1>5 DEF InStep, BufferAligned
<1>7. readBuffer' \in [Cells -> Nat]
  <2>1. ASSUME NEW k \in Cells, io.addr <= k
        PROVE  taken + 1 + k - io.addr \in Nat
    <3>1. taken \in Nat /\ io.addr \in Nat /\ k \in Nat
      BY <1>3
    <3> QED BY <2>1, <3>1
  <2> QED BY <1>1, <1>3, <2>1
<1>8. ASSUME NEW i \in 0 .. readBufferBytes + n - 1
      PROVE  /\ readPtr + i \in Cells
             /\ readBuffer'[readPtr + i] = WireEnd(decoded) + 1 + i
  <2>1. readPtr + i \in Cells /\ i \in Nat
    BY <1>3, <1>4
  <2>2. CASE i < readBufferBytes
    <3>0. ~(io.addr <= readPtr + i)
      BY <1>3, <2>1, <2>2
    <3>1. readBuffer'[readPtr + i] = readBuffer[readPtr + i]
      BY <1>1, <2>1, <3>0
    <3>2. readBuffer[readPtr + i] = WireEnd(decoded) + 1 + i
      <4>1. i \in 0 .. (readBufferBytes + io.bytes) - 1
        BY <1>3, <2>2
      <4> QED BY <4>1 DEF InStep, BufferAligned, Genuine
    <3> QED BY <2>1, <3>1, <3>2
  <2>3. CASE i >= readBufferBytes
    <3>0. /\ readPtr \in Nat /\ readBufferBytes \in Nat /\ n \in Nat
          /\ io.addr = readPtr + readBufferBytes
          /\ i < readBufferBytes + n
      BY <1>3, <1>4
    <3>1. io.addr <= readPtr + i /\ readPtr + i < io.addr + n
      BY <2>1, <2>3, <3>0
    <3>2. readBuffer'[readPtr + i] = taken + 1 + (readPtr + i) - io.addr
      BY <1>1, <2>1, <3>1
    <3>3. taken + 1 + (readPtr + i) - io.addr = WireEnd(decoded) + 1 + i
      BY <1>5, <1>6, <2>1, <3>0
    <3> QED BY <2>1, <3>2, <3>3
  <2> QED BY <1>3, <2>1, <2>2, <2>3
<1>9. BufferAligned'
  <2>1. Genuine(readBuffer, readBufferBytes + io.bytes)'
    <3>1. readBufferBytes' + io'.bytes = readBufferBytes + n
      BY <1>2, <1>4
    <3>2. readPtr' = readPtr
      BY <1>2
    <3>3. ASSUME NEW i \in 0 .. (readBufferBytes' + io'.bytes) - 1
          PROVE  /\ readPtr' + i \in Cells
                 /\ readBuffer'[readPtr' + i] = WireEnd(decoded)' + 1 + i
      <4>1. i \in 0 .. readBufferBytes + n - 1
        BY <1>3, <1>4, <3>1
      <4>2. readPtr + i \in Cells
            /\ readBuffer'[readPtr + i] = WireEnd(decoded) + 1 + i
        BY <1>8, <4>1
      <4> QED BY <1>5, <3>2, <4>2
    <3> QED BY <3>3 DEF Genuine
  <2>2. readPtr + readBufferBytes + n <= Cap
    BY <1>1, <1>3
  <2>3. taken' = WireEnd(decoded) + readBufferBytes + n
    BY <1>1, <1>3, <1>5, <1>6
  <2> QED BY <1>2, <1>4, <1>5, <2>1, <2>2, <2>3 DEF BufferAligned
<1>10. SentRecords'
  <2>1. decoded' <= Len(sent)
    BY <1>2, <1>3
  <2> QED BY <1>1, <1>2, <1>3, <2>1, SameRecords
<1>11. CallTypeOK'
  <2>1. taken' \in Nat
    <3>1. taken \in Nat /\ n \in Nat /\ taken' = taken + n
      BY <1>1, <1>3, <1>4
    <3> QED BY <3>1
  <2>2. RecvTypeOK'
    BY <1>2, <1>3, <1>4, <1>7, <2>1 DEF CallTypeOK, RecvTypeOK
  <2> QED BY <1>3, <2>2 DEF CallTypeOK
<1>12. IoBytes' /\ PendingTarget'
  BY <1>1, <1>2, <1>3, <1>4 DEF IoBytes, PendingTarget
<1>13. Waiting'
  BY <1>2, <1>4 DEF InStep, Waiting, NeedMore, Length, WireEnd, Upcoming
<1>14. InOrder' /\ SessionKept'
  BY <1>2 DEF InStep, InOrder, SessionKept, TextEnd
<1> QED BY <1>9, <1>10, <1>11, <1>12, <1>13, <1>14 DEF InStep

\* A receive that ends without a byte leaves the buffer as it was.
LEMMA KernelEndKeeps ==
    ASSUME InStep, KernelEnd, UNCHANGED callVars
    PROVE  InStep'
<1> USE DEF callVars, bufferVars
<1>1. /\ io.state = "posted" /\ io' = [io EXCEPT !.state = "done"]
      /\ UNCHANGED <<sent, reset, taken, decoded, context, bufferVars>>
  BY DEF KernelEnd
<1>2. /\ io \in [state : {"none", "posted", "done"},
                 addr : 0 .. Cap, room : 0 .. Cap, bytes : 0 .. Cap]
      /\ io.bytes = 0 /\ CallTypeOK /\ IoBytes
  BY <1>1 DEF InStep, CallTypeOK, RecvTypeOK, IoBytes
<1>3. /\ io' \in [state : {"none", "posted", "done"},
                  addr : 0 .. Cap, room : 0 .. Cap, bytes : 0 .. Cap]
      /\ io'.state = "done" /\ io'.bytes = io.bytes
      /\ io'.room = io.room /\ io'.addr = io.addr
  BY <1>1, <1>2
<1>4. /\ SentRecords' /\ BufferAligned' /\ InOrder'
      /\ NeedMore(readBufferBytes)' = NeedMore(readBufferBytes)
  <2>1. UNCHANGED <<sent, taken, decoded, readBuffer, readPtr, got>>
    BY <1>1
  <2>2. /\ readBufferBytes' \in 0 .. Cap /\ io'.bytes \in 0 .. Cap
        /\ readBufferBytes' + io'.bytes = readBufferBytes + io.bytes
    BY <1>1, <1>2, <1>3 DEF CallTypeOK, RecvTypeOK
  <2>3. SentRecords' /\ BufferAligned' /\ InOrder'
    BY <2>1, <2>2, BufferKept
  <2>4. NeedMore(readBufferBytes)' = NeedMore(readBufferBytes)
    BY <1>1 DEF NeedMore, Length, WireEnd, Upcoming
  <2> QED BY <2>3, <2>4
<1>5. CallTypeOK'
  <2>1. RecvTypeOK'
    BY <1>1, <1>2, <1>3 DEF CallTypeOK, RecvTypeOK
  <2> QED BY <1>2, <2>1 DEF CallTypeOK
<1>6. IoBytes' /\ PendingTarget' /\ Waiting' /\ SessionKept'
  BY <1>1, <1>2, <1>3, <1>4
     DEF InStep, IoBytes, PendingTarget, Waiting, SessionKept
<1> QED BY <1>4, <1>5, <1>6 DEF InStep

\* No step of the peer, of TCP or of the kernel breaks the invariant, whatever
\* Recv is doing.
LEMMA NetworkKeeps ==
    ASSUME InStep, Network, UNCHANGED callVars
    PROVE  InStep'
<1>1. CASE PeerSend
  <2>1. PICK n \in Sizes : sent' = Append(sent, PeerRecord(n, FALSE))
    BY <1>1 DEF PeerSend
  <2> QED BY <1>1, <2>1, PeerRecordKeeps DEF PeerSend
<1>2. CASE PeerClose
  BY <1>2, PeerRecordKeeps DEF PeerClose
<1>3. CASE ConnReset
  <2>1. /\ reset' = TRUE
        /\ UNCHANGED <<sent, taken, io, decoded, context, readBuffer, readPtr,
                       readBufferBytes, pc, len, m_LastError, got>>
    BY <1>3 DEF ConnReset, bufferVars, callVars
  <2>2. reset' \in BOOLEAN
    BY <2>1
  <2>3. CallTypeOK'
    BY <2>1, <2>2, Zenon DEF InStep, CallTypeOK, RecvTypeOK, Cells, Record
  <2>4. \A i : WireEnd(i)' = WireEnd(i) /\ TextEnd(i)' = TextEnd(i)
    BY <2>1 DEF WireEnd, TextEnd
  <2>5. SentRecords'
    BY <2>1, <2>4 DEF InStep, SentRecords, Written
  <2>6. IoBytes' /\ PendingTarget' /\ SessionKept'
    BY <2>1 DEF InStep, IoBytes, PendingTarget, SessionKept
  <2>7. BufferAligned'
    BY <2>1, <2>4 DEF InStep, BufferAligned, Genuine, Cells
  <2>8. Waiting'
    BY <2>1, <2>4 DEF InStep, Waiting, NeedMore, Length, Upcoming
  <2>9. InOrder'
    BY <2>1, <2>4 DEF InStep, InOrder
  <2> QED BY <2>3, <2>5, <2>6, <2>7, <2>8, <2>9 DEF InStep
<1>4. CASE KernelWrite
  BY <1>4, KernelWriteKeeps
<1>5. CASE KernelEnd
  BY <1>5, KernelEndKeeps
<1> QED BY <1>1, <1>2, <1>3, <1>4, <1>5 DEF Network

-----------------------------------------------------------------------------
(* Recv.                                                             *)

\* A record longer than the caller's buffer (SSLServer.cpp:206-218) puts the
\* call out of step: it counts as decrypted, its cleartext counts as buffered.
LEMMA RecordTooLongBreaks ==
    ASSUME InStep, NEW n \in Lens, NEW b, LookAt(b), RecordTooLong(n, b)
    PROVE  OutOfStep'
<1> DEFINE L == Length(Upcoming)
<1>0. /\ n \in Nat \ {0} /\ b \in 1 .. Cap /\ Cap \in Nat /\ CallTypeOK
      /\ SentRecords /\ Whole(b)
  BY ServerRecvAssumption, BufferAssumption
     DEF InStep, LookAt, RecordTooLong, Decrypts
<1>1. io' = NoIO /\ b = readBufferBytes + io.bytes
  BY <1>0 DEF LookAt, Whole, InStep, IoBytes, NoIO
<1>2. /\ Upcoming \in 1 .. Len(sent) /\ L \in 1 .. b
      /\ TextEnd(decoded) \in Nat /\ TextEnd(Upcoming) \in Nat
      /\ TextEnd(Upcoming) >= TextEnd(decoded)
  BY <1>0, <1>1, WholeRecord
<1>3. /\ sent' = sent /\ taken' = taken /\ reset' = reset /\ context' = context
      /\ decoded' = Upcoming /\ readBuffer' = Decrypted /\ readPtr' = readPtr
      /\ readBufferBytes' = b /\ got' = got
      /\ pc' = "idle" /\ len' = 0 /\ m_LastError' = "WSAEMSGSIZE"
      /\ Len(Text) > n
  BY DEF RecordTooLong, LookAt, Return
<1>4. /\ readPtr \in Nat /\ readBuffer \in [Cells -> Nat] /\ readPtr + b <= Cap
  <2>1. readPtr + readBufferBytes + io.bytes <= Cap
    BY DEF InStep, BufferAligned
  <2>2. /\ readPtr \in Nat /\ readBuffer \in [Cells -> Nat]
        /\ readBufferBytes \in Nat /\ io.bytes \in Nat
    BY Typed
  <2> QED BY <1>1, <2>1, <2>2
<1>5. readBuffer' = [k \in Cells |->
             IF readPtr <= k /\ k < readPtr + L THEN 0 ELSE readBuffer[k]]
  BY <1>3 DEF Decrypted
<1>6. Lost' /\ \A i \in 1 .. Len(got') : got'[i] = i
  <2>1. Len(Text) = TextEnd(Upcoming) - TextEnd(decoded)
    <3>1. TextEnd(Upcoming) - TextEnd(decoded) \in Nat
      BY <1>2
    <3> QED BY <3>1 DEF Text
  <2>2. TextEnd(decoded) = Len(got) /\ \A i \in 1 .. Len(got) : got[i] = i
    BY DEF InStep, InOrder
  <2>3. TextEnd(decoded)' = TextEnd(Upcoming)
    BY <1>3 DEF TextEnd
  <2>4. TextEnd(Upcoming) > Len(got)
    BY <1>0, <1>2, <1>3, <2>1, <2>2
  <2> QED BY <1>3, <2>2, <2>3, <2>4 DEF Lost
<1> HIDE DEF L
<1>7. SentRecords'
  <2>1. decoded' <= Len(sent)
    BY <1>2, <1>3
  <2> QED BY <1>0, <1>3, <2>1, SameRecords
<1>8. readPtr' \in Cells /\ readBuffer'[readPtr'] = 0 /\ readBufferBytes' > 0
  <2>1. readPtr \in Cells /\ readPtr <= readPtr /\ readPtr < readPtr + L
    BY <1>0, <1>2, <1>4
  <2> QED BY <1>0, <1>3, <1>5, <2>1
<1>9. CallTypeOK'
  <2>1. io' \in [state : {"none", "posted", "done"},
                 addr : 0 .. Cap, room : 0 .. Cap, bytes : 0 .. Cap]
    BY <1>0, <1>1 DEF NoIO
  <2>2. /\ sent' \in Seq(Record) /\ reset' \in BOOLEAN /\ taken' \in Nat
        /\ decoded' \in Nat /\ context' \in {"open", "expired", "failed"}
    BY <1>0, <1>2, <1>3 DEF CallTypeOK, RecvTypeOK, Upcoming
  <2>3. /\ readBuffer' \in [Cells -> Nat]
        /\ readBufferBytes' \in 0 .. Cap /\ readPtr' \in 0 .. Cap
    BY <1>0, <1>3, <1>4, <1>5
  <2>4. RecvTypeOK'
    BY <2>1, <2>2, <2>3 DEF RecvTypeOK
  <2>5. got' \in Seq(Nat)
    BY <1>0, <1>3 DEF CallTypeOK
  <2> QED BY <1>3, <2>4, <2>5 DEF CallTypeOK
<1> QED BY <1>1, <1>3, <1>6, <1>7, <1>8, <1>9 DEF OutOfStep

\* DecryptMessage keeps the invariant, whatever it answers.
LEMMA TryDecryptKeeps ==
    ASSUME InStep, NEW n \in Lens, NEW b, LookAt(b),
           NEW error \in {"0", "decrypt", "WSAEMSGSIZE"},
           TryDecrypt(n, b, error)
    PROVE  IInv'
BY RecordDoneKeeps, RecordTooLongBreaks, RecordMissingKeeps, RecordRefusedKeeps
   DEF TryDecrypt, IInv

\* The start of a call looks at what is buffered (SSLServer.cpp:137-147).
LEMMA StartKeeps ==
    ASSUME InStep, RecvStart
    PROVE  IInv'
<1> USE DEF bufferVars, recvVars
<1>1. PICK n \in Lens :
        IF readBufferBytes = 0
        THEN /\ pc' = "loop" /\ len' = n
             /\ UNCHANGED <<recvVars, m_LastError, got>>
        ELSE /\ TryDecrypt(n, readBufferBytes, m_LastError)
             /\ UNCHANGED <<sent, reset, taken, io>>
  BY DEF RecvStart, peerVars
<1>2. pc = "idle"
  BY DEF RecvStart
<1>3. CASE readBufferBytes = 0
  <2>1. /\ pc' = "loop" /\ len' = n
        /\ UNCHANGED <<recvVars, m_LastError, got>>
    BY <1>1, <1>3
  <2>2. CallTypeOK'
    BY <2>1 DEF InStep, CallTypeOK, RecvTypeOK
  <2>3. /\ SentRecords' /\ IoBytes' /\ BufferAligned' /\ PendingTarget'
        /\ SessionKept' /\ InOrder'
    BY <2>1 DEF InStep, SentRecords, IoBytes, BufferAligned, Genuine, PendingTarget,
         SessionKept, InOrder, Written, WireEnd, TextEnd
  <2>4. Waiting'
    BY <1>2, <1>3, <2>1 DEF InStep, Waiting, NeedMore
  <2> QED BY <2>2, <2>3, <2>4 DEF IInv, InStep
<1>4. CASE readBufferBytes # 0
  <2>1. /\ TryDecrypt(n, readBufferBytes, m_LastError)
        /\ UNCHANGED <<sent, reset, taken, io>>
    BY <1>1, <1>4
  <2>2. readBufferBytes \in 1 .. Cap /\ m_LastError \in {"0", "decrypt", "WSAEMSGSIZE"}
    BY <1>4 DEF InStep, CallTypeOK, RecvTypeOK
  <2>3. io.state # "none" => NeedMore(readBufferBytes)
    BY DEF InStep, Waiting
  <2>4. LookAt(readBufferBytes)
    BY <1>2, <2>1, <2>2, <2>3 DEF LookAt
  <2> QED BY <2>1, <2>2, <2>4, TryDecryptKeeps
<1> QED BY <1>3, <1>4

\* The bytes of a completed receive are counted and looked at
\* (SSLServer.cpp:163-177).
LEMMA BytesKeeps ==
    ASSUME InStep, RecvBytes
    PROVE  IInv'
<1>1. /\ pc \in {"started", "wait"}
      /\ io.state = "done" /\ io.bytes > 0 /\ io' = NoIO
      /\ TryDecrypt(len, readBufferBytes + io.bytes, "0")
      /\ UNCHANGED <<sent, reset, taken>>
  BY DEF RecvBytes, Completed, peerVars
<1>2. len \in Lens
  BY <1>1 DEF InStep, Waiting
<1>3. readBufferBytes + io.bytes \in 1 .. Cap
  <2>1. /\ readBufferBytes \in Nat /\ io.bytes \in Nat /\ readPtr \in Nat
        /\ Cap \in Nat
    BY BufferAssumption DEF InStep, CallTypeOK, RecvTypeOK
  <2>2. readPtr + readBufferBytes + io.bytes <= Cap
    BY DEF InStep, BufferAligned
  <2> QED BY <1>1, <2>1, <2>2
<1>4. (readBufferBytes + io.bytes) + 0 = readBufferBytes + io.bytes
  BY <1>3
<1>5. LookAt(readBufferBytes + io.bytes)
  BY <1>1, <1>2, <1>3, <1>4 DEF LookAt, NoIO
<1> QED BY <1>1, <1>2, <1>5, TryDecryptKeeps

\* A receive is posted right behind the buffered bytes (SSLServer.cpp:149-152);
\* an outstanding one is there already, for they never move.
LEMMA LoopKeeps ==
    ASSUME InStep, RecvLoop
    PROVE  InStep'
<1> DEFINE room == Cap - readBufferBytes - readPtr
<1> USE DEF bufferVars, peerVars
<1>1. /\ pc = "loop" /\ pc' = "started"
      /\ UNCHANGED <<peerVars, taken, decoded, context, bufferVars,
                     len, m_LastError, got>>
      /\ io' = Posted(readPtr + readBufferBytes, room)
  BY DEF RecvLoop
<1>2. /\ CallTypeOK /\ IoBytes /\ SentRecords /\ Cap \in Nat \ {0}
      /\ readPtr \in 0 .. Cap /\ readBufferBytes \in 0 .. Cap
      /\ io \in [state : {"none", "posted", "done"},
                 addr : 0 .. Cap, room : 0 .. Cap, bytes : 0 .. Cap]
      /\ readPtr + readBufferBytes + io.bytes <= Cap /\ io.bytes \in 0 .. Cap
      /\ sent \in Seq(Record) /\ decoded \in 0 .. Len(sent)
      /\ NeedMore(readBufferBytes) /\ len \in Lens
  <2>1. readPtr + readBufferBytes + io.bytes <= Cap
    BY DEF InStep, BufferAligned
  <2>2. NeedMore(readBufferBytes) /\ len \in Lens
    BY <1>1 DEF InStep, Waiting
  <2> QED BY <2>1, <2>2, Typed
<1>3. /\ room \in 0 .. Cap /\ readPtr + readBufferBytes \in 0 .. Cap
      /\ (readPtr + readBufferBytes) + room <= Cap
  BY <1>2
<1> HIDE DEF room
<1>4. /\ io' \in [state : {"none", "posted", "done"},
                  addr : 0 .. Cap, room : 0 .. Cap, bytes : 0 .. Cap]
      /\ io'.state # "none"
      /\ io'.bytes = io.bytes /\ IoBytes'
      /\ io'.addr = readPtr + readBufferBytes
      /\ io'.addr + io'.room <= Cap
  <2>1. CASE io.state = "none"
    <3>1. io' = [state |-> "posted", addr |-> readPtr + readBufferBytes,
                 room |-> room, bytes |-> 0]
      BY <1>1, <2>1 DEF Posted
    <3>2. io.bytes = 0
      BY <1>2, <2>1 DEF IoBytes
    <3> QED BY <1>2, <1>3, <3>1, <3>2 DEF IoBytes
  <2>2. CASE io.state # "none"
    <3>1. io' = io
      BY <1>1, <2>2 DEF Posted
    <3> QED BY <1>2, <2>2, <3>1 DEF InStep, PendingTarget, IoBytes
  <2> QED BY <2>1, <2>2
<1>5. /\ SentRecords' /\ BufferAligned' /\ InOrder'
      /\ NeedMore(readBufferBytes)' = NeedMore(readBufferBytes)
  <2>1. UNCHANGED <<sent, taken, decoded, readBuffer, readPtr, got>>
    BY <1>1
  <2>2. /\ readBufferBytes' \in 0 .. Cap /\ io'.bytes \in 0 .. Cap
        /\ readBufferBytes' + io'.bytes = readBufferBytes + io.bytes
    BY <1>1, <1>2, <1>4
  <2>3. SentRecords' /\ BufferAligned' /\ InOrder'
    BY <2>1, <2>2, BufferKept
  <2>4. NeedMore(readBufferBytes)' = NeedMore(readBufferBytes)
    BY <1>1 DEF NeedMore, Length, WireEnd, Upcoming
  <2> QED BY <2>3, <2>4
<1>6. CallTypeOK'
  <2>1. RecvTypeOK'
    BY <1>1, <1>2, <1>4 DEF CallTypeOK, RecvTypeOK
  <2> QED BY <1>1, <1>2, <2>1 DEF CallTypeOK
<1>7. PendingTarget'
  BY <1>1, <1>4 DEF PendingTarget
<1>8. Waiting' /\ SessionKept'
  BY <1>1, <1>2, <1>4, <1>5 DEF InStep, Waiting, SessionKept
<1> QED BY <1>4, <1>5, <1>6, <1>7, <1>8 DEF InStep

\* The wait, and what happens around the call, leave all of this as it is
\* (PassiveSock.cpp:79-88).
LEMMA WaitKeeps ==
    ASSUME InStep, UNCHANGED <<recvVars, len, m_LastError, got>>,
           pc' = pc \/ (Pending /\ pc' = "wait")
    PROVE  InStep'
<1>1. UNCHANGED <<sent, reset, taken, io, decoded, context, readBuffer, readPtr,
                  readBufferBytes, len, m_LastError, got>>
  BY DEF recvVars, bufferVars
<1>2. /\ pc' \in {"idle", "loop", "started", "wait"}
      /\ pc' # "idle" => pc # "idle"
      /\ pc' \in {"started", "wait"} => io.state # "none"
  BY DEF InStep, CallTypeOK, Waiting, Pending
<1>3. CallTypeOK'
  BY <1>1, <1>2 DEF InStep, CallTypeOK, RecvTypeOK
<1>4. Waiting'
  BY <1>1, <1>2 DEF InStep, Waiting, NeedMore, Length, Upcoming, WireEnd
<1>5. /\ SentRecords' /\ IoBytes' /\ BufferAligned' /\ PendingTarget'
      /\ SessionKept' /\ InOrder'
  BY <1>1 DEF InStep, SentRecords, IoBytes, BufferAligned, Genuine, PendingTarget,
       SessionKept, InOrder, Written, WireEnd, TextEnd
<1> QED BY <1>3, <1>4, <1>5 DEF InStep

\* A call that fails in the socket leaves the buffered bytes to the next call.
LEMMA FailedCallKeeps ==
    ASSUME InStep, RecvError \/ RecvTimeout
    PROVE  InStep'
<1> USE DEF bufferVars, recvVars, Return
<1>1. /\ UNCHANGED <<sent, reset, taken, decoded, context, bufferVars,
                     got>>
      /\ pc' = "idle" /\ len' = 0
      /\ m_LastError' = "0" \/ m_LastError' = m_LastError
      /\ io' = io \/ (io' = NoIO /\ io.bytes = 0)
  BY DEF RecvError, RecvTimeout, peerVars
<1>2. /\ CallTypeOK /\ Cap \in Nat /\ readBufferBytes \in 0 .. Cap
      /\ io \in [state : {"none", "posted", "done"},
                 addr : 0 .. Cap, room : 0 .. Cap, bytes : 0 .. Cap]
  BY BufferAssumption DEF InStep, CallTypeOK, RecvTypeOK
<1>3. /\ io' \in [state : {"none", "posted", "done"},
                  addr : 0 .. Cap, room : 0 .. Cap, bytes : 0 .. Cap]
      /\ io'.bytes = io.bytes
      /\ io'.state # "none" => io' = io
  <2>1. CASE io' = io
    BY <1>2, <2>1
  <2>2. CASE io' = NoIO /\ io.bytes = 0
    BY <1>2, <2>2 DEF NoIO
  <2> QED BY <1>1, <2>1, <2>2
<1>4. /\ SentRecords' /\ BufferAligned' /\ InOrder'
      /\ NeedMore(readBufferBytes)' = NeedMore(readBufferBytes)
  <2>1. UNCHANGED <<sent, taken, decoded, readBuffer, readPtr, got>>
    BY <1>1
  <2>2. /\ readBufferBytes' \in 0 .. Cap /\ io'.bytes \in 0 .. Cap
        /\ readBufferBytes' + io'.bytes = readBufferBytes + io.bytes
    BY <1>1, <1>2, <1>3
  <2>3. SentRecords' /\ BufferAligned' /\ InOrder'
    BY <2>1, <2>2, BufferKept
  <2>4. NeedMore(readBufferBytes)' = NeedMore(readBufferBytes)
    BY <1>1 DEF NeedMore, Length, WireEnd, Upcoming
  <2> QED BY <2>3, <2>4
<1>5. CallTypeOK'
  <2>1. RecvTypeOK'
    BY <1>1, <1>2, <1>3 DEF CallTypeOK, RecvTypeOK
  <2>2. m_LastError' \in {"0", "decrypt", "WSAEMSGSIZE"}
    BY <1>1, <1>2 DEF CallTypeOK
  <2> QED BY <1>1, <1>2, <2>1, <2>2 DEF CallTypeOK
<1>6. IoBytes'
  BY <1>1, <1>3 DEF InStep, IoBytes, NoIO
<1>7. PendingTarget'
  BY <1>1, <1>3 DEF InStep, PendingTarget
<1>8. Waiting' /\ SessionKept'
  BY <1>1, <1>3, <1>4 DEF InStep, Waiting, SessionKept
<1> QED BY <1>4, <1>5, <1>6, <1>7, <1>8 DEF InStep

\* What the steps do to the stream and the call.
LEMMA StepCases ==
    ASSUME [Next]_vars
    PROVE  \/ Network /\ UNCHANGED callVars
           \/ RecvStart \/ RecvLoop \/ RecvBytes \/ RecvError \/ RecvTimeout
           \/ /\ UNCHANGED <<recvVars, len, m_LastError, got>>
              /\ pc' = pc \/ (Pending /\ pc' = "wait")
BY DEF Next, Recv, Kernel, Network, Deadline, SetTimeoutSeconds, Send, RecvWait,
       vars, callVars, waitVars

-----------------------------------------------------------------------------
(* Out of step.                                                             *)

\* Once a record was refused for its length, the peer may go on, but no call
\* receives anything: each finds cleartext where a record should begin.
LEMMA OutOfStepForGood ==
    ASSUME OutOfStep, [Next]_vars
    PROVE  OutOfStep' /\ got' = got
<1> USE DEF bufferVars, recvVars, callVars, peerVars
<1>1. /\ CallTypeOK /\ SentRecords /\ pc = "idle" /\ io = NoIO /\ Lost
      /\ readBufferBytes \in Nat \ {0} /\ readPtr \in Cells
      /\ readBuffer[readPtr] = 0 /\ \A i \in 1 .. Len(got) : got[i] = i
      /\ sent \in Seq(Record) /\ decoded \in 0 .. Len(sent) /\ taken \in Nat
  BY DEF OutOfStep, CallTypeOK, RecvTypeOK, SentRecords
<1>2. WireEnd(decoded) \in Nat
  BY <1>1, RecordEnds
<1>3. ASSUME NEW n \in Sizes \cup {0}, NEW c \in BOOLEAN,
             sent' = Append(sent, PeerRecord(n, c)),
             UNCHANGED <<reset, taken, io, decoded, context, bufferVars, callVars>>
      PROVE  OutOfStep' /\ got' = got
  <2>1. SentRecords' /\ sent' \in Seq(Record)
    BY <1>1, <1>3, RecordSent
  <2>2. TextEnd(decoded)' = TextEnd(decoded)
    BY <1>1, <1>3, RecordSent
  <2>3. CallTypeOK'
    BY <1>1, <1>3, <2>1 DEF CallTypeOK, RecvTypeOK
  <2> QED BY <1>1, <1>3, <2>1, <2>2, <2>3 DEF OutOfStep, Lost
<1>4. ASSUME sent' = sent, UNCHANGED <<taken, io, decoded, readBuffer, readPtr>>,
             pc' = "idle", got' = got, readBufferBytes' = readBufferBytes, CallTypeOK'
      PROVE  OutOfStep' /\ got' = got
  <2>1. SentRecords'
    BY <1>1, <1>4, SameRecords
  <2>2. Lost'
    BY <1>1, <1>4 DEF Lost, TextEnd
  <2> QED BY <1>1, <1>4, <2>1, <2>2 DEF OutOfStep
<1>5. CASE Network /\ UNCHANGED callVars
  <2>1. CASE PeerSend
    BY <1>3, <1>5, <2>1 DEF PeerSend
  <2>2. CASE PeerClose
    BY <1>3, <1>5, <2>2 DEF PeerClose
  <2>3. CASE ConnReset
    <3>1. /\ reset' = TRUE
          /\ UNCHANGED <<sent, taken, io, decoded, context, bufferVars, callVars>>
      BY <1>5, <2>3 DEF ConnReset
    <3>2. CallTypeOK'
      BY <1>1, <3>1 DEF CallTypeOK, RecvTypeOK
    <3> QED BY <1>1, <1>4, <3>1, <3>2
  <2>4. CASE KernelWrite \/ KernelEnd
    BY <1>1, <2>4 DEF KernelWrite, KernelEnd, NoIO
  <2> QED BY <1>5, <2>1, <2>2, <2>3, <2>4 DEF Network
<1>6. CASE RecvStart
  <2>1. PICK n \in Lens : TryDecrypt(n, readBufferBytes, m_LastError)
    BY <1>1, <1>6 DEF RecvStart
  <2>2. UNCHANGED <<peerVars, taken, io>>
    BY <1>1, <1>6 DEF RecvStart
  <2>3. ~Genuine(readBuffer, readBufferBytes)
    <3>1. 0 \in 0 .. readBufferBytes - 1 /\ readPtr + 0 = readPtr
      BY <1>1, BufferAssumption
    <3>2. readBuffer[readPtr + 0] # WireEnd(decoded) + 1 + 0
      BY <1>1, <1>2, <3>1
    <3> QED BY <3>1, <3>2 DEF Genuine
  <2>4. RecordRefused(readBufferBytes)
    BY <2>1, <2>3
       DEF TryDecrypt, RecordDone, RecordTooLong, RecordMissing, Decrypts, Whole,
           Incomplete
  <2>5. /\ context' \in {"open", "expired", "failed"}
        /\ readBufferBytes' = readBufferBytes /\ m_LastError' = "decrypt"
        /\ pc' = "idle" /\ len' = 0
        /\ UNCHANGED <<decoded, readBuffer, readPtr, got>>
    BY <1>1, <2>4 DEF RecordRefused, Return, AfterFailure, CallTypeOK, RecvTypeOK
  <2>6. CallTypeOK'
    BY <1>1, <2>2, <2>5 DEF CallTypeOK, RecvTypeOK
  <2> QED BY <1>4, <2>2, <2>5, <2>6
<1>7. CASE RecvLoop \/ RecvBytes \/ RecvError \/ RecvTimeout
  BY <1>1, <1>7
     DEF RecvLoop, RecvBytes, RecvError, RecvTimeout, Completed, Pending, NoIO
<1>8. CASE /\ UNCHANGED <<recvVars, len, m_LastError, got>>
           /\ pc' = pc \/ (Pending /\ pc' = "wait")
  <2>1. pc' = pc
    BY <1>1, <1>8 DEF Pending
  <2>2. CallTypeOK'
    BY <1>1, <1>8, <2>1 DEF CallTypeOK, RecvTypeOK
  <2> QED BY <1>1, <1>4, <1>8, <2>1, <2>2
<1> QED BY <1>5, <1>6, <1>7, <1>8, StepCases

-----------------------------------------------------------------------------
(* The theorems.                                                            *)

\* The invariant holds when the handshake is over, also when it left the first
\* bytes of a record behind.
LEMMA InitIInv == Init => InStep
<1> SUFFICES ASSUME Init PROVE InStep
  OBVIOUS
<1>1. PICK e \in 0 .. Written, p \in HandshakeEnds :
        /\ p + e <= Cap
        /\ readPtr = IF e = 0 THEN 0 ELSE p
        /\ readBuffer = [k \in Cells |->
                           IF p <= k /\ k < p + e THEN 1 + k - p ELSE 0]
        /\ readBufferBytes = e /\ taken = e
  BY DEF Init, RecvInit
<1>2. /\ reset = FALSE /\ io = NoIO /\ decoded = 0 /\ context = "open"
      /\ pc = "idle" /\ len = 0 /\ m_LastError = "0"
      /\ got = <<>>
  BY DEF Init, RecvInit
<1>3. /\ sent \in Seq(Record)
      /\ \A i \in 1 .. Len(sent) :
          \E n \in Sizes \cup {0} :
              /\ sent[i].wire = WireEnd(i - 1) + n + Overhead
              /\ sent[i].text = TextEnd(i - 1) + n
  <2>1. CASE sent = <<>>
    BY <2>1
  <2>2. CASE \E n \in Sizes :
           sent = <<[wire |-> n + Overhead, text |-> n, close |-> FALSE]>>
    <3>1. PICK n \in Sizes :
             sent = <<[wire |-> n + Overhead, text |-> n, close |-> FALSE]>>
      BY <2>2
    <3>2. n \in Nat /\ Overhead \in Nat
      BY BufferAssumption
    <3>3. [wire |-> n + Overhead, text |-> n, close |-> FALSE] \in Record
      BY <3>2 DEF Record
    <3>4. /\ sent \in Seq(Record) /\ Len(sent) = 1
          /\ sent[1].wire = n + Overhead /\ sent[1].text = n
      BY <3>1, <3>3
    <3>5. ASSUME NEW i \in 1 .. Len(sent)
          PROVE  /\ sent[i].wire = WireEnd(i - 1) + n + Overhead
                 /\ sent[i].text = TextEnd(i - 1) + n
      <4>1. i = 1 /\ i - 1 = 0
        BY <3>4
      <4>2. WireEnd(i - 1) = 0 /\ TextEnd(i - 1) = 0
        BY <4>1 DEF WireEnd, TextEnd
      <4> QED BY <3>2, <3>4, <4>1, <4>2
    <3> QED BY <3>4, <3>5
  <2> QED BY <2>1, <2>2 DEF Init, RecvInit
<1>4. /\ Written \in Nat /\ WireEnd(0) = 0 /\ TextEnd(0) = 0
      /\ Len(sent) \in Nat /\ Cap \in Nat \ {0} /\ e \in 0 .. Cap
      /\ p \in 0 .. Cap
  <2>1. Written \in Nat
    BY <1>3, RecordEnds DEF Written
  <2> QED BY <1>1, <1>3, <2>1, BufferAssumption, ServerRecvAssumption
         DEF WireEnd, TextEnd
<1>5. SentRecords
  BY <1>1, <1>2, <1>3, <1>4 DEF SentRecords
<1>6. CallTypeOK
  <2>1. readBuffer \in [Cells -> Nat]
    <3>1. \A k \in Cells : p <= k => 1 + k - p \in Nat
      BY <1>4
    <3> QED BY <1>1, <3>1
  <2>2. io \in [state : {"none", "posted", "done"},
               addr : 0 .. Cap, room : 0 .. Cap, bytes : 0 .. Cap]
    BY <1>2, <1>4 DEF NoIO
  <2>3. /\ readPtr \in 0 .. Cap /\ readBufferBytes \in 0 .. Cap
        /\ taken \in Nat /\ decoded \in Nat
    BY <1>1, <1>2, <1>4
  <2>4. RecvTypeOK
    BY <1>2, <1>3, <2>1, <2>2, <2>3 DEF RecvTypeOK
  <2> QED BY <1>2, <2>4 DEF CallTypeOK
<1>7. BufferAligned
  <2>1. io.bytes = 0 /\ readBufferBytes + io.bytes = e
        /\ readPtr + readBufferBytes + io.bytes <= Cap
    BY <1>1, <1>2, <1>4 DEF NoIO
  <2>2. taken = WireEnd(decoded) + readBufferBytes + io.bytes
    BY <1>1, <1>2, <1>4, <2>1
  <2>3. ASSUME NEW i \in 0 .. (readBufferBytes + io.bytes) - 1
        PROVE  /\ readPtr + i \in Cells
               /\ readBuffer[readPtr + i] = WireEnd(decoded) + 1 + i
    <3>1. readPtr = p /\ i \in Nat /\ i < e /\ p \in Nat /\ e \in Nat /\ Cap \in Nat
      BY <1>1, <1>4, <2>1
    <3>2. p + i \in Cells /\ p <= p + i /\ p + i < p + e
      BY <1>1, <3>1
    <3>3. readBuffer[p + i] = 1 + (p + i) - p
      BY <1>1, <3>2
    <3>4. 1 + (p + i) - p = WireEnd(decoded) + 1 + i
      BY <1>2, <1>4, <3>1
    <3> QED BY <3>1, <3>2, <3>3, <3>4
  <2> QED BY <2>1, <2>2, <2>3 DEF BufferAligned, Genuine
<1>8. IoBytes /\ PendingTarget /\ Waiting /\ SessionKept
  BY <1>2 DEF IoBytes, PendingTarget, Waiting, SessionKept, NoIO
<1>9. InOrder
  BY <1>2, <1>4 DEF InOrder
<1> QED BY <1>5, <1>6, <1>7, <1>8, <1>9 DEF InStep

\* Every step keeps the invariant.
LEMMA NextIInv == IInv /\ [Next]_vars => IInv'
<1> SUFFICES ASSUME InStep, [Next]_vars PROVE IInv'
  BY OutOfStepForGood DEF IInv
<1>1. CASE Network /\ UNCHANGED callVars
  BY <1>1, NetworkKeeps DEF IInv
<1>2. CASE RecvStart
  BY <1>2, StartKeeps
<1>3. CASE RecvLoop
  BY <1>3, LoopKeeps DEF IInv
<1>4. CASE RecvBytes
  BY <1>4, BytesKeeps
<1>5. CASE RecvError \/ RecvTimeout
  BY <1>5, FailedCallKeeps DEF IInv
<1>6. CASE /\ UNCHANGED <<recvVars, len, m_LastError, got>>
           /\ pc' = pc \/ (Pending /\ pc' = "wait")
  BY <1>6, WaitKeeps DEF IInv
<1> QED BY <1>1, <1>2, <1>3, <1>4, <1>5, <1>6, StepCases

\* Whatever the sizes of the buffer, of the records and of the callers'
\* buffers, wherever the handshake ended and however TCP cuts the ciphertext,
\* Recv is in step with the connection or out of step for good.
THEOREM Invariant == Spec => []IInv
<1>1. Init => IInv
  BY InitIInv DEF IInv
<1> QED BY <1>1, NextIInv, PTL DEF Spec

\* The variables keep their types: in particular readPtr and readBufferBytes
\* stay inside readBuffer (SSLServer.cpp:137-250).
THEOREM TypeCorrect == Spec => []TypeOK
<1> DEFINE WaitTypeOK == late \in BOOLEAN /\ read_event \in BOOLEAN
<1>1. Init => WaitTypeOK
  BY DEF Init
<1>2. WaitTypeOK /\ [Next]_vars => WaitTypeOK'
  BY DEF Next, Recv, Kernel, Deadline, SetTimeoutSeconds, Send, RecvStart, RecvLoop,
         RecvWait, RecvBytes, RecvError, RecvTimeout, vars, waitVars
<1>3. IInv /\ WaitTypeOK => TypeOK
  BY DEF IInv, InStep, OutOfStep, TypeOK
<1> QED BY <1>1, <1>2, <1>3, Invariant, PTL DEF Spec

\* Only a record longer than the caller's buffer takes the bytes given to
\* DecryptMessage out of step with the connection or breaks the session.
THEOREM InStepUntilLost == Spec => []AlignedUntilLost
<1>1. IInv => AlignedUntilLost
  BY DEF IInv, InStep, OutOfStep, AlignedUntilLost, SessionKept
<1> QED BY <1>1, Invariant, PTL

\* A record refused for its length (SSLServer.cpp:206-218) is the end of what
\* the caller receives: no later record is delivered behind the gap.
THEOREM NoGap == Spec => NothingBehindAGap
<1>1. ASSUME IInv, [Next]_vars PROVE [Lost => got' = got]_vars
  <2>1. CASE InStep
    <3>1. TextEnd(decoded) = Len(got) /\ got \in Seq(Nat)
      BY <2>1 DEF InStep, InOrder, CallTypeOK
    <3> QED BY <3>1 DEF Lost
  <2>2. CASE OutOfStep
    BY <1>1, <2>2, OutOfStepForGood
  <2> QED BY <1>1, <2>1, <2>2 DEF IInv
<1> QED BY <1>1, Invariant, PTL DEF Spec, NothingBehindAGap

-----------------------------------------------------------------------------
(* Recv implements the byte stream, up to a record refused.                 *)

\* No record ends behind the last one.
TextGrows == \A i \in 1 .. Len(sent) : sent[i].text <= TextEnd(Len(sent))

\* What a step of the system does to the two ends of the stream.
LEMMA StepOfStream ==
    ASSUME IInv, [Next]_vars
    PROVE  \/ /\ got' = got
              /\ \E n \in Nat, c \in BOOLEAN : sent' = Append(sent, PeerRecord(n, c))
           \/ sent' = sent /\ Len(got') >= Len(got)
<1> USE DEF bufferVars, recvVars, callVars, peerVars
<1>1. /\ Sizes \subseteq Nat /\ 0 \in Nat /\ got \in Seq(Nat)
      /\ Len(got) \in Nat /\ Len(got) >= Len(got)
  BY BufferAssumption DEF IInv, InStep, OutOfStep, CallTypeOK
<1>2. CASE OutOfStep
  <2>1. got' = got
    BY <1>2, OutOfStepForGood
  <2>2. CASE PeerSend \/ PeerClose
    BY <1>1, <2>1, <2>2 DEF PeerSend, PeerClose
  <2>3. CASE ~(PeerSend \/ PeerClose)
    BY <1>1, <2>1, <2>3, StepCases
       DEF Network, ConnReset, KernelWrite, KernelEnd, RecvStart, RecvLoop,
           RecvBytes, RecvError, RecvTimeout
  <2> QED BY <2>2, <2>3
<1>3. CASE InStep /\ Network /\ UNCHANGED callVars
  <2>1. CASE PeerSend \/ PeerClose
    BY <1>1, <1>3, <2>1 DEF PeerSend, PeerClose
  <2>2. CASE ConnReset \/ KernelWrite \/ KernelEnd
    BY <1>1, <1>3, <2>2 DEF ConnReset, KernelWrite, KernelEnd
  <2> QED BY <1>3, <2>1, <2>2 DEF Network
<1>4. ASSUME InStep, NEW n, NEW b, NEW error, TryDecrypt(n, b, error),
             b \in Nat, b <= readBufferBytes + io.bytes
      PROVE  Len(got') >= Len(got)
  <2>1. CASE RecordDone(n, b, error)
    <3>1. Whole(b) /\ got' = got \o Text
      BY <2>1 DEF RecordDone, Decrypts
    <3>2. TextEnd(Upcoming) - TextEnd(decoded) \in Nat /\ TextEnd(decoded) \in Nat
      BY <1>4, <3>1, WholeRecord
    <3>3. Text \in Seq(Nat)
      <4>1. \A i \in 1 .. TextEnd(Upcoming) - TextEnd(decoded) :
               TextEnd(decoded) + i \in Nat
        BY <3>2
      <4> QED BY <3>2, <4>1 DEF Text
    <3> HIDE DEF Text
    <3>4. Len(got') = Len(got) + Len(Text) /\ Len(Text) \in Nat
      BY <1>1, <3>1, <3>3, ConcatProperties
    <3> QED BY <1>1, <3>4
  <2>2. CASE RecordTooLong(n, b) \/ RecordMissing(n, b, error) \/ RecordRefused(b)
    BY <1>1, <2>2 DEF RecordTooLong, RecordMissing, RecordRefused
  <2> QED BY <1>4, <2>1, <2>2 DEF TryDecrypt
<1>5. CASE InStep /\ RecvStart
  <2>1. /\ readBufferBytes \in Nat /\ io.bytes \in Nat
        /\ readBufferBytes <= readBufferBytes + io.bytes
    BY <1>5, Typed
  <2>2. sent' = sent
    BY <1>5 DEF RecvStart
  <2>3. got' = got \/ \E n \in Lens : TryDecrypt(n, readBufferBytes, m_LastError)
    BY <1>5 DEF RecvStart
  <2> QED BY <1>1, <1>4, <1>5, <2>1, <2>2, <2>3
<1>6. CASE InStep /\ RecvBytes
  <2>1. readBufferBytes \in Nat /\ io.bytes \in Nat
    BY <1>6, Typed
  <2>2. /\ readBufferBytes + io.bytes \in Nat
        /\ readBufferBytes + io.bytes <= readBufferBytes + io.bytes
    BY <2>1
  <2>3. sent' = sent /\ TryDecrypt(len, readBufferBytes + io.bytes, "0")
    BY <1>6 DEF RecvBytes
  <2> QED BY <1>4, <1>6, <2>2, <2>3
<1>7. CASE RecvLoop \/ RecvError \/ RecvTimeout \/ UNCHANGED <<recvVars, got>>
  BY <1>1, <1>7 DEF RecvLoop, RecvError, RecvTimeout
<1> QED BY <1>2, <1>3, <1>5, <1>6, <1>7, StepCases DEF IInv

\* No record ends beyond the last one, in plaintext.
LEMMA TextGrowsInductive ==
    /\ Init => TextGrows
    /\ IInv /\ TextGrows /\ [Next]_vars => TextGrows'
<1>1. ASSUME Init PROVE TextGrows
  <2>1. CASE sent = <<>>
    BY <2>1 DEF TextGrows
  <2>2. CASE \E n \in Sizes :
           sent = <<[wire |-> n + Overhead, text |-> n, close |-> FALSE]>>
    <3>1. PICK n \in Sizes :
             sent = <<[wire |-> n + Overhead, text |-> n, close |-> FALSE]>>
      BY <2>2
    <3>2. /\ Len(sent) = 1 /\ sent[1].text = n /\ n \in Nat
      BY <3>1, BufferAssumption
    <3> QED BY <3>2 DEF TextGrows, TextEnd
  <2> QED BY <1>1, <2>1, <2>2 DEF Init, RecvInit
<1>2. ASSUME IInv, TextGrows, [Next]_vars PROVE TextGrows'
  <2>1. CASE sent' = sent
    BY <1>2, <2>1 DEF TextGrows, TextEnd
  <2>2. CASE \E n \in Nat, c \in BOOLEAN : sent' = Append(sent, PeerRecord(n, c))
    <3>1. PICK n \in Nat, c \in BOOLEAN : sent' = Append(sent, PeerRecord(n, c))
      BY <2>2
    <3>2. sent \in Seq(Record) /\ Len(sent) \in Nat
      BY <1>2 DEF IInv, InStep, OutOfStep, CallTypeOK, RecvTypeOK
    <3>3. TextEnd(Len(sent)) \in Nat
      BY <3>2, RecordEnds
    <3>4. /\ Len(sent') = Len(sent) + 1
          /\ \A i \in 1 .. Len(sent) : sent'[i] = sent[i]
          /\ sent'[Len(sent) + 1].text = TextEnd(Len(sent)) + n
      BY <3>1, <3>2, AppendProperties DEF PeerRecord
    <3>5. TextEnd(Len(sent))' = TextEnd(Len(sent)) + n
      BY <3>2, <3>4 DEF TextEnd
    <3>6. ASSUME NEW i \in 1 .. Len(sent')
          PROVE  sent'[i].text <= TextEnd(Len(sent)) + n
      <4>1. CASE i = Len(sent) + 1
        BY <3>3, <3>4, <4>1
      <4>2. CASE i # Len(sent) + 1
        <5>1. i \in 1 .. Len(sent) /\ sent'[i] = sent[i]
          BY <3>2, <3>4, <4>2
        <5>2. sent[i].text <= TextEnd(Len(sent))
          BY <1>2, <5>1 DEF TextGrows
        <5>3. sent[i].text \in Nat
          <6>1. sent[i] \in Record
            BY <3>2, <5>1
          <6> QED BY <6>1 DEF Record
        <5> QED BY <3>3, <5>1, <5>2, <5>3
      <4> QED BY <4>1, <4>2
    <3> QED BY <3>5, <3>6 DEF TextGrows
  <2> QED BY <1>2, <2>1, <2>2, StepOfStream
<1> QED BY <1>1, <1>2

\* Every step of Recv, of the peer and of the network is a step of the byte
\* stream or leaves it alone: the caller receives the first bytes of what the
\* peer wrote, in order, none left out and none repeated.
THEOREM Implementation == Spec => ImplementsByteStream
<1> DEFINE Ends == <<TextEnd(Len(sent)), got>>
<1>1. Init => Stream!Init
  <2> SUFFICES ASSUME Init PROVE Stream!Init
    OBVIOUS
  <2>1. sent \in Seq(Record) /\ Len(sent) \in 0 .. Len(sent)
    BY InitIInv DEF InStep, CallTypeOK, RecvTypeOK
  <2>2. TextEnd(Len(sent)) \in Nat
    BY <2>1, RecordEnds
  <2> QED BY <2>2 DEF Stream!Init, Init
<1>2. IInv /\ IInv' /\ TextGrows' /\ [Next]_vars => [Stream!Next]_Ends
  <2> SUFFICES ASSUME IInv, IInv', TextGrows', [Next]_vars
               PROVE  [Stream!Next]_Ends
    OBVIOUS
  <2>1. /\ sent \in Seq(Record) /\ Len(sent) \in Nat
        /\ got' \in Seq(Nat)
        /\ sent' \in Seq(Record) /\ decoded' \in 0 .. Len(sent')
    BY DEF IInv, InStep, OutOfStep, CallTypeOK, RecvTypeOK, SentRecords
  <2>2. TextEnd(Len(sent)) \in Nat
    BY <2>1, RecordEnds
  <2>3. CASE /\ got' = got
             /\ \E n \in Nat, c \in BOOLEAN :
                   sent' = Append(sent, PeerRecord(n, c))
    <3>1. PICK n \in Nat, c \in BOOLEAN : sent' = Append(sent, PeerRecord(n, c))
      BY <2>3
    <3>2. /\ Len(sent') = Len(sent) + 1
          /\ sent'[Len(sent) + 1].text = TextEnd(Len(sent)) + n
      BY <2>1, <3>1, AppendProperties DEF PeerRecord
    <3>3. TextEnd(Len(sent))' = TextEnd(Len(sent)) + n
      BY <2>1, <3>2 DEF TextEnd
    <3>4. /\ TextEnd(Len(sent))' \in Nat
          /\ TextEnd(Len(sent))' >= TextEnd(Len(sent))
      BY <2>2, <3>3
    <3> QED BY <2>3, <3>4 DEF Stream!Next, Stream!Write
  <2>4. CASE sent' = sent /\ Len(got') >= Len(got)
    <3>1. TextEnd(Len(sent))' = TextEnd(Len(sent))
      BY <2>4 DEF TextEnd
    <3>2. Len(got') \in 0 .. TextEnd(Len(sent))
      <4>0. TextEnd(decoded)' \in Nat /\ Len(got') \in Nat
        <5>1. SentRecords' /\ sent' \in Seq(Record) /\ decoded' \in 0 .. Len(sent')
          BY <2>1 DEF IInv, InStep, OutOfStep
        <5>2. TextEnd(decoded)' \in Nat
          <6>1. CASE decoded' = 0
            BY <6>1 DEF TextEnd
          <6>2. CASE decoded' # 0
            <7>1. sent'[decoded'] \in Record
              BY <5>1, <6>2
            <7> QED BY <6>2, <7>1 DEF TextEnd, Record
          <6> QED BY <6>1, <6>2
        <5> QED BY <2>1, <5>2
      <4>1. TextEnd(decoded)' <= TextEnd(Len(sent))'
        <5>1. CASE decoded' = 0
          BY <2>2, <3>1, <5>1 DEF TextEnd
        <5>2. CASE decoded' # 0
          <6>1. decoded' \in 1 .. Len(sent')
            BY <2>1, <5>2
          <6>2. sent'[decoded'].text <= TextEnd(Len(sent))'
            BY <6>1 DEF TextGrows
          <6> QED BY <5>2, <6>2 DEF TextEnd
        <5> QED BY <5>1, <5>2
      <4>2. TextEnd(decoded)' >= Len(got')
        <5>1. CASE InStep'
          BY <4>0, <5>1 DEF InStep, InOrder
        <5>2. CASE OutOfStep'
          BY <4>0, <5>2 DEF OutOfStep, Lost
        <5> QED BY <5>1, <5>2 DEF IInv
      <4> QED BY <2>2, <3>1, <4>0, <4>1, <4>2
    <3>3. got' = Stream!FirstBytes(Len(got'))
      <4>1. \A i \in 1 .. Len(got') : got'[i] = i
        BY DEF IInv, InStep, OutOfStep, InOrder
      <4>2. got' = [i \in 1 .. Len(got') |-> got'[i]]
        BY <2>1
      <4> QED BY <4>1, <4>2 DEF Stream!FirstBytes
    <3> QED BY <2>4, <3>1, <3>2, <3>3 DEF Stream!Next, Stream!Read
  <2> QED BY <2>3, <2>4, StepOfStream
<1>3. Spec => []TextGrows
  BY Invariant, TextGrowsInductive, PTL DEF Spec
<1> QED
  BY <1>1, <1>2, <1>3, Invariant, PTL DEF Spec, ImplementsByteStream, Stream!Spec
=============================================================================

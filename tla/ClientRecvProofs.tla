-------------------------- MODULE ClientRecvProofs --------------------------
(***************************************************************************)
(* What CSSLClient::RecvPartial guarantees for every buffer size, every    *)
(* set of record sizes and every way TCP may cut the ciphertext.           *)
(***************************************************************************)
EXTENDS ClientRecv, SequenceTheorems, TLAPS

-----------------------------------------------------------------------------
(* The inductive invariant: the invariants the runs check, and what they    *)
(* rest on.                                                                 *)

\* Every record carries one of the sizes, and they follow one another.
SentRecords ==
    /\ decoded <= Len(sent)
    /\ \A i \in 1 .. Len(sent) :
        \E n \in Sizes \cup {0} :
            /\ sent[i].wire = WireEnd(i - 1) + n + Overhead
            /\ sent[i].text = TextEnd(i - 1) + n
    /\ taken <= Written

\* Only a completed receive has bytes, no more than there was room for, and
\* there was room.
IoBytes ==
    /\ io.bytes <= io.room
    /\ io.state # "done" => io.bytes = 0
    /\ io.state = "none" => io = NoIO
    /\ io.state # "none" => io.room > 0

\* A call that reads, and a receive that is outstanding, wait for the rest of
\* a record the buffered bytes do not hold whole, with nothing cached.
Waiting ==
    /\ pc # "idle" \/ io.state # "none" =>
            NeedMore(readBufferBytes) /\ plainText = <<>>
    /\ pc # "idle" => len \in Lens
    /\ pc = "wait" => io.state # "none"

IInv ==
    /\ TypeOK
    /\ SentRecords
    /\ IoBytes
    /\ BufferAligned
    /\ PendingTarget
    /\ Waiting
    /\ Accounted
    /\ NeverFailed

USE DEF Cells

-----------------------------------------------------------------------------
\* Where a record starts and ends, and that it is longer than nothing and no
\* longer than a record may be (RecvBuffer's record layout).
LEMMA RecordEnds ==
    ASSUME sent \in Seq(Record), NEW i \in 0 .. Len(sent)
    PROVE  WireEnd(i) \in Nat /\ TextEnd(i) \in Nat
<1>1. CASE i = 0
  BY <1>1 DEF WireEnd, TextEnd
<1>2. CASE i # 0
  <2>1. sent[i] \in Record
    BY <1>2
  <2> QED BY <1>2, <2>1 DEF WireEnd, TextEnd, Record
<1> QED BY <1>1, <1>2

\* Records only ever move the stream on: each ends behind the one before it in
\* ciphertext, not before it in plaintext, and if records fit so does its length.
LEMMA RecordGrows ==
    ASSUME sent \in Seq(Record), SentRecords,
           NEW i \in 0 .. Len(sent) - 1
    PROVE  /\ WireEnd(i + 1) > WireEnd(i)
           /\ TextEnd(i + 1) >= TextEnd(i)
           /\ RecordFits => Length(i + 1) <= Cap
<1>1. i + 1 \in 1 .. Len(sent) /\ (i + 1) - 1 = i /\ i \in 0 .. Len(sent)
  OBVIOUS
<1>2. PICK n \in Sizes \cup {0} :
           /\ sent[i + 1].wire = WireEnd(i) + n + Overhead
           /\ sent[i + 1].text = TextEnd(i) + n
  BY <1>1 DEF SentRecords
<1>3. /\ n \in Nat /\ Overhead \in Nat \ {0} /\ Cap \in Nat
      /\ WireEnd(i) \in Nat /\ TextEnd(i) \in Nat
  BY <1>1, BufferAssumption, RecordEnds
<1>4. WireEnd(i + 1) = WireEnd(i) + n + Overhead
      /\ TextEnd(i + 1) = TextEnd(i) + n
  BY <1>1, <1>2 DEF WireEnd, TextEnd
<1>5. RecordFits => Length(i + 1) <= Cap
  BY <1>1, <1>3, <1>4 DEF RecordFits, Length
<1> QED BY <1>3, <1>4, <1>5

\* GiveSome hands the caller the next bytes it is owed and keeps the rest: the
\* two memcpy's of RecvPartial neither lose nor repeat a byte.
LEMMA GiveSomeKeeps ==
    ASSUME NEW text \in Seq(Nat), NEW n \in Nat,
           got \in Seq(Nat),
           \A i \in 1 .. Len(got) : got[i] = i,
           \A i \in 1 .. Len(text) : text[i] = Len(got) + i,
           GiveSome(text, n)
    PROVE  /\ got' \in Seq(Nat) /\ plainText' \in Seq(Nat)
           /\ Len(got') + Len(plainText') = Len(got) + Len(text)
           /\ Len(got') >= Len(got)
           /\ \A i \in 1 .. Len(got') : got'[i] = i
           /\ \A i \in 1 .. Len(plainText') : plainText'[i] = Len(got') + i
<1> DEFINE k == Least(n, Len(text))
           a == SubSeq(text, 1, k)
           b == SubSeq(text, k + 1, Len(text))
<1>1. k \in 0 .. Len(text)
  BY DEF Least
<1>2. a \in Seq(Nat) /\ Len(a) = k /\ \A i \in 1 .. k : a[i] = text[i]
  BY <1>1, SubSeqProperties
<1>3. /\ b \in Seq(Nat) /\ Len(b) = Len(text) - k
      /\ \A i \in 1 .. Len(b) : b[i] = text[k + i]
  <2>1. \A i \in k + 1 .. Len(text) : text[i] \in Nat
    BY <1>1
  <2>2. /\ b \in Seq(Nat)
        /\ Len(b) = IF k + 1 <= Len(text) THEN Len(text) - (k + 1) + 1 ELSE 0
        /\ \A i \in 1 .. Len(text) - (k + 1) + 1 : b[i] = text[(k + 1) + i - 1]
    <3> HIDE DEF k
    <3> QED BY <1>1, <2>1, SubSeqProperties
  <2>3. /\ Len(b) = Len(text) - k
        /\ \A i \in 1 .. Len(text) - k : b[i] = text[k + i]
    <3> HIDE DEF k, b
    <3> QED BY <1>1, <2>2
  <2> QED BY <2>2, <2>3
<1>4. got' = got \o a /\ plainText' = b
  BY DEF GiveSome
<1> HIDE DEF k, a, b
<1>5. /\ got' \in Seq(Nat) /\ Len(got') = Len(got) + k
      /\ \A i \in 1 .. Len(got') :
            got'[i] = IF i <= Len(got) THEN got[i] ELSE a[i - Len(got)]
  <2>1. /\ got \o a \in Seq(Nat) /\ Len(got \o a) = Len(got) + Len(a)
        /\ \A i \in 1 .. Len(got) + Len(a) :
              (got \o a)[i] = IF i <= Len(got) THEN got[i] ELSE a[i - Len(got)]
    BY <1>2, ConcatProperties
  <2> QED BY <1>2, <1>4, <2>1
<1>6. ASSUME NEW i \in 1 .. Len(got') PROVE got'[i] = i
  <2>1. CASE i <= Len(got)
    BY <2>1, <1>5
  <2>2. CASE i > Len(got)
    <3>1. i - Len(got) \in 1 .. k
      BY <1>1, <1>5, <2>2
    <3>2. got'[i] = text[i - Len(got)]
      BY <1>2, <1>5, <2>2, <3>1
    <3> QED BY <1>1, <3>1, <3>2
  <2> QED BY <2>1, <2>2
<1>7. ASSUME NEW i \in 1 .. Len(plainText') PROVE plainText'[i] = Len(got') + i
  <2>1. k + i \in 1 .. Len(text)
    BY <1>1, <1>3, <1>4
  <2>2. plainText'[i] = text[k + i]
    BY <1>3, <1>4
  <2> QED BY <1>1, <1>5, <2>1, <2>2
<1>8. /\ Len(got') + Len(plainText') = Len(got) + Len(text)
      /\ Len(got') >= Len(got)
  <2>1. Len(got) \in Nat /\ Len(text) \in Nat
    OBVIOUS
  <2>2. Len(got') = Len(got) + k /\ Len(plainText') = Len(text) - k
    BY <1>3, <1>4, <1>5
  <2> QED BY <1>1, <2>1, <2>2
<1> QED BY <1>3, <1>4, <1>5, <1>6, <1>7, <1>8

\* A step that sends no record, decrypts none that was not sent and takes no
\* byte that was not written leaves the records in order.
LEMMA SameRecords ==
    ASSUME SentRecords, sent' = sent, decoded' <= Len(sent),
           taken' = taken \/ taken' <= Written
    PROVE  SentRecords'
<1>1. /\ \A i \in 1 .. Len(sent) :
            WireEnd(i - 1)' = WireEnd(i - 1) /\ TextEnd(i - 1)' = TextEnd(i - 1)
      /\ Written' = Written
  BY DEF WireEnd, TextEnd, Written
<1> QED BY <1>1 DEF SentRecords

\* What the invariant says of the types, spelled out.
LEMMA Typed ==
    ASSUME IInv
    PROVE  /\ TypeOK /\ SentRecords /\ IoBytes
           /\ Cap \in Nat \ {0} /\ Overhead \in Nat \ {0}
           /\ sent \in Seq(Record) /\ Len(sent) \in Nat
           /\ decoded \in 0 .. Len(sent) /\ taken \in Nat
           /\ readPtr \in 0 .. Cap /\ readBufferBytes \in 0 .. Cap
           /\ readBuffer \in [Cells -> Nat]
           /\ io \in [state : {"none", "posted", "done"},
                      addr : 0 .. Cap, room : 0 .. Cap, bytes : 0 .. Cap]
           /\ io.addr \in 0 .. Cap /\ io.room \in 0 .. Cap
           /\ io.bytes \in 0 .. Cap
<1>1. TypeOK /\ SentRecords /\ IoBytes
  BY DEF IInv
<1>2. /\ sent \in Seq(Record) /\ decoded \in Nat /\ taken \in Nat
      /\ readPtr \in 0 .. Cap /\ readBufferBytes \in 0 .. Cap
      /\ readBuffer \in [Cells -> Nat]
      /\ io \in [state : {"none", "posted", "done"},
                 addr : 0 .. Cap, room : 0 .. Cap, bytes : 0 .. Cap]
  BY <1>1 DEF TypeOK, RecvTypeOK
<1>3. io.addr \in 0 .. Cap /\ io.room \in 0 .. Cap /\ io.bytes \in 0 .. Cap
  BY <1>2
<1>4. Len(sent) \in Nat /\ decoded <= Len(sent)
  BY <1>1, <1>2 DEF SentRecords
<1>5. decoded \in 0 .. Len(sent)
  BY <1>2, <1>4
<1>6. Cap \in Nat \ {0} /\ Overhead \in Nat \ {0}
  BY BufferAssumption
<1> QED BY <1>1, <1>2, <1>3, <1>4, <1>5, <1>6

\* When DecryptMessage finds a whole record in the b bytes RecvPartial gives
\* it, there is a record, and it is inside those bytes.
LEMMA WholeRecord ==
    ASSUME IInv, NEW b \in Nat, b <= readBufferBytes + io.bytes, Whole(b)
    PROVE  /\ Upcoming \in 1 .. Len(sent)
           /\ Length(Upcoming) \in 1 .. b
           /\ WireEnd(Upcoming) = WireEnd(decoded) + Length(Upcoming)
           /\ WireEnd(decoded) \in Nat /\ WireEnd(Upcoming) \in Nat
           /\ TextEnd(decoded) \in Nat /\ TextEnd(Upcoming) \in Nat
           /\ TextEnd(Upcoming) >= TextEnd(decoded)
<1> USE DEF Upcoming
<1>1. /\ sent \in Seq(Record) /\ decoded \in 0 .. Len(sent)
      /\ TypeOK /\ SentRecords
  BY DEF IInv, TypeOK, RecvTypeOK, SentRecords
<1>2. WireEnd(decoded) \in Nat /\ TextEnd(decoded) \in Nat
  BY <1>1, RecordEnds
<1>3. b # 0 /\ ~(decoded < Len(sent) /\ b < Length(Upcoming))
  BY DEF Whole, NeedMore
<1>4. decoded < Len(sent)
  <2>1. taken <= WireEnd(Len(sent))
    BY <1>1 DEF SentRecords, Written
  <2>2. taken = WireEnd(decoded) + (readBufferBytes + io.bytes)
        /\ readBufferBytes + io.bytes \in Nat
    <3>1. taken = WireEnd(decoded) + readBufferBytes + io.bytes
      BY DEF IInv, BufferAligned
    <3>2. readBufferBytes \in Nat /\ io.bytes \in Nat
      BY Typed
    <3> QED BY <1>2, <3>1, <3>2
  <2>3. Len(sent) \in Nat
    BY <1>1
  <2> QED BY <1>1, <1>2, <1>3, <2>1, <2>2, <2>3
<1>5. /\ WireEnd(decoded + 1) \in Nat /\ TextEnd(decoded + 1) \in Nat
      /\ WireEnd(decoded + 1) > WireEnd(decoded)
      /\ TextEnd(decoded + 1) >= TextEnd(decoded)
  <2>1. decoded + 1 \in 0 .. Len(sent)
    BY <1>1, <1>4
  <2>2. WireEnd(decoded + 1) \in Nat /\ TextEnd(decoded + 1) \in Nat
    BY <1>1, <2>1, RecordEnds
  <2>3. /\ WireEnd(decoded + 1) > WireEnd(decoded)
        /\ TextEnd(decoded + 1) >= TextEnd(decoded)
    <3>1. decoded \in 0 .. Len(sent) - 1
      BY <1>1, <1>4
    <3> QED BY <1>1, <3>1, RecordGrows
  <2> QED BY <2>2, <2>3
<1>6. Length(decoded + 1) = WireEnd(decoded + 1) - WireEnd(decoded)
  BY <1>1 DEF Length
<1> QED BY <1>1, <1>2, <1>3, <1>4, <1>5, <1>6

\* What every decryption of RecvPartial starts from: b bytes at readPtr, the
\* buffered ones or these and the ones the socket has just returned.
LookAt(b) ==
    /\ b \in 1 .. Cap
    /\ io' = io \/ io' = NoIO
    /\ b + io'.bytes = readBufferBytes + io.bytes
    /\ io'.state # "none" => NeedMore(b) /\ b = readBufferBytes
    /\ plainText = <<>>
    /\ UNCHANGED <<sent, reset, taken>>

\* Delivering a record keeps the invariant: its plaintext is handed over or
\* cached, the extra bytes behind it become the buffered ciphertext.
LEMMA RecordDoneKeeps ==
    ASSUME IInv, NEW n \in Lens, NEW b, LookAt(b),
           NEW error \in {"0", "expired", "failed"},
           RecordDone(n, b, error)
    PROVE  IInv'
<1> DEFINE L == Length(Upcoming)
<1>0. /\ n \in Nat /\ b \in 1 .. Cap /\ Cap \in Nat /\ TypeOK /\ SentRecords
      /\ Whole(b)
  BY LensAssumption, BufferAssumption DEF IInv, LookAt, RecordDone, Decrypts
<1>1. io' = NoIO /\ io'.bytes = 0 /\ b = readBufferBytes + io.bytes
  BY <1>0 DEF LookAt, Whole, IInv, IoBytes, NoIO
<1>2. /\ Upcoming \in 1 .. Len(sent) /\ L \in 1 .. b
      /\ WireEnd(Upcoming) = WireEnd(decoded) + L
      /\ WireEnd(decoded) \in Nat /\ TextEnd(decoded) \in Nat
      /\ WireEnd(Upcoming) \in Nat /\ TextEnd(Upcoming) \in Nat
      /\ TextEnd(Upcoming) >= TextEnd(decoded)
  BY <1>0, <1>1, WholeRecord
<1>3. /\ sent' = sent /\ taken' = taken /\ reset' = reset /\ context' = context
      /\ decoded' = Upcoming /\ readBuffer' = Decrypted /\ KeepExtra(b)
      /\ pc' = "idle" /\ len' = 0 /\ m_LastError' = error
  BY DEF RecordDone, LookAt, Return
<1>4. /\ WireEnd(decoded)' = WireEnd(Upcoming)
      /\ TextEnd(decoded)' = TextEnd(Upcoming)
      /\ Written' = Written
  BY <1>3 DEF WireEnd, TextEnd, Written
<1>5. /\ got' \in Seq(Nat) /\ plainText' \in Seq(Nat)
      /\ Accounted'
  <2>1. Text \in Seq(Nat) /\ Len(Text) = TextEnd(Upcoming) - TextEnd(decoded)
    <3>1. TextEnd(Upcoming) - TextEnd(decoded) \in Nat
      BY <1>2
    <3>2. \A i \in 1 .. TextEnd(Upcoming) - TextEnd(decoded) :
             TextEnd(decoded) + i \in Nat
      BY <1>2
    <3> QED BY <3>1, <3>2 DEF Text
  <2>2. \A i \in 1 .. Len(Text) : Text[i] = TextEnd(decoded) + i
    BY <1>2, <2>1 DEF Text
  <2>3. got \in Seq(Nat) /\ TextEnd(decoded) = Len(got)
        /\ \A i \in 1 .. Len(got) : got[i] = i
    BY <1>0 DEF IInv, TypeOK, Accounted, LookAt
  <2>4. GiveSome(Text, n)
    BY DEF RecordDone
  <2>5. /\ got' \in Seq(Nat) /\ plainText' \in Seq(Nat)
        /\ Len(got') + Len(plainText') = Len(got) + Len(Text)
        /\ \A i \in 1 .. Len(got') : got'[i] = i
        /\ \A i \in 1 .. Len(plainText') : plainText'[i] = Len(got') + i
    <3> HIDE DEF Text
    <3> QED BY <1>0, <2>1, <2>2, <2>3, <2>4, GiveSomeKeeps
  <2>6. TextEnd(Upcoming) = Len(got') + Len(plainText')
    BY <1>2, <2>1, <2>3, <2>5
  <2> QED BY <1>4, <2>5, <2>6 DEF Accounted
<1>6. /\ readPtr \in Nat /\ readBuffer \in [Cells -> Nat]
      /\ readPtr + b <= Cap
      /\ \A i \in 0 .. b - 1 :
            readBuffer[readPtr + i] = WireEnd(decoded) + 1 + i
      /\ taken = WireEnd(decoded) + b
  <2>1. /\ readPtr \in Nat /\ readBuffer \in [Cells -> Nat]
        /\ readBufferBytes \in Nat /\ io.bytes \in Nat
    BY Typed
  <2>2. /\ readPtr + readBufferBytes + io.bytes <= Cap
        /\ Genuine(readBuffer, b)
        /\ taken = WireEnd(decoded) + readBufferBytes + io.bytes
    <3>1. BufferAligned
      BY DEF IInv
    <3> QED BY <1>1, <3>1 DEF BufferAligned
  <2>3. readPtr + b <= Cap /\ taken = WireEnd(decoded) + b
    <3>1. WireEnd(decoded) \in Nat
      BY <1>2
    <3>2. b = readBufferBytes + io.bytes
      BY <1>1
    <3> QED BY <2>1, <2>2, <3>1, <3>2
  <2> QED BY <2>1, <2>2, <2>3 DEF Genuine
<1>7. /\ readBuffer' = [k \in Cells |->
             IF readPtr <= k /\ k < readPtr + L THEN 0 ELSE readBuffer[k]]
      /\ readBufferBytes' = b - L
      /\ readPtr' = IF b > L THEN readPtr + L ELSE 0
  BY <1>3 DEF KeepExtra, Decrypted
<1> HIDE DEF L
<1>8. BufferAligned'
  <2>1. ASSUME NEW i \in 0 .. (b - L) - 1
        PROVE  /\ readPtr' + i \in Cells
               /\ readBuffer'[readPtr' + i] = WireEnd(Upcoming) + 1 + i
    <3>1. readPtr' = readPtr + L /\ L + i \in 0 .. b - 1
      BY <1>0, <1>2, <1>7, <2>1
    <3>2. readPtr + (L + i) \in Cells /\ ~(readPtr + (L + i) < readPtr + L)
      <4>1. readPtr \in Nat /\ Cap \in Nat /\ L \in Nat /\ i \in Nat /\ b \in Nat
            /\ readPtr + b <= Cap /\ L + i < b
        BY <1>0, <1>2, <1>6, <3>1
      <4> QED BY <4>1
    <3>3. readBuffer'[readPtr + (L + i)] = readBuffer[readPtr + (L + i)]
      BY <1>7, <3>2
    <3>4. readBuffer[readPtr + (L + i)] = WireEnd(decoded) + 1 + (L + i)
      BY <1>6, <3>1
    <3>5. readPtr + (L + i) = readPtr' + i
          /\ WireEnd(decoded) + 1 + (L + i) = WireEnd(Upcoming) + 1 + i
      <4>1. /\ readPtr \in Nat /\ L \in Nat /\ i \in Nat
            /\ WireEnd(decoded) \in Nat
        BY <1>0, <1>2, <1>6
      <4>2. readPtr' = readPtr + L /\ WireEnd(Upcoming) = WireEnd(decoded) + L
        BY <1>2, <3>1
      <4> QED BY <4>1, <4>2
    <3> QED BY <3>2, <3>3, <3>4, <3>5
  <2>2. b - L + 0 = b - L /\ readBufferBytes' + io'.bytes = b - L
    BY <1>0, <1>1, <1>2, <1>7
  <2>3. Genuine(readBuffer, readBufferBytes + io.bytes)'
    BY <1>4, <2>1, <2>2 DEF Genuine
  <2>4. taken' = WireEnd(decoded)' + readBufferBytes' + io'.bytes
    BY <1>1, <1>2, <1>3, <1>4, <1>6, <1>7
  <2>5. readPtr' + readBufferBytes' + io'.bytes <= Cap
    <3>1. CASE b > L
      <4>1. /\ readPtr' = readPtr + L /\ readBufferBytes' = b - L
            /\ io'.bytes = 0
        BY <1>1, <1>7, <3>1
      <4>2. (readPtr + L) + (b - L) + 0 <= Cap
        BY <1>0, <1>2, <1>6
      <4> QED BY <4>1, <4>2
    <3>2. CASE b = L
      BY <1>1, <1>0, <1>2, <1>7, <3>2
    <3> QED BY <1>0, <1>2, <3>1, <3>2
  <2> QED BY <2>3, <2>4, <2>5 DEF BufferAligned
<1>9. SentRecords'
  <2>1. decoded' <= Len(sent)
    BY <1>2, <1>3
  <2> QED BY <1>0, <1>3, <2>1, SameRecords
<1>10. TypeOK'
  <2>1. io' \in [state : {"none", "posted", "done"},
                 addr : 0 .. Cap, room : 0 .. Cap, bytes : 0 .. Cap]
    BY <1>0, <1>1 DEF NoIO
  <2>2. /\ sent' \in Seq(Record) /\ reset' \in BOOLEAN /\ taken' \in Nat
        /\ decoded' \in Nat /\ context' \in {"open", "expired", "failed"}
    BY <1>0, <1>2, <1>3 DEF TypeOK, RecvTypeOK, Upcoming
  <2>3. /\ readBuffer' \in [Cells -> Nat]
        /\ readBufferBytes' \in 0 .. Cap /\ readPtr' \in 0 .. Cap
    <3>1. readBuffer' \in [Cells -> Nat]
      BY <1>6, <1>7
    <3>2. /\ b \in Nat /\ L \in Nat /\ L <= b /\ b <= Cap /\ Cap \in Nat
          /\ readPtr \in Nat /\ readPtr + b <= Cap
      BY <1>0, <1>2, <1>6
    <3>3. b - L \in 0 .. Cap /\ readPtr + L \in 0 .. Cap /\ 0 \in 0 .. Cap
      BY <3>2
    <3> QED BY <1>7, <3>1, <3>3
  <2>4. RecvTypeOK'
    BY <2>1, <2>2, <2>3 DEF RecvTypeOK
  <2> QED BY <1>3, <1>5, <2>4 DEF TypeOK
<1>11. IoBytes' /\ PendingTarget' /\ Waiting' /\ NeverFailed'
  BY <1>0, <1>1, <1>3 DEF NoIO, IoBytes, PendingTarget, Waiting, NeverFailed, IInv
<1> QED BY <1>5, <1>8, <1>9, <1>10, <1>11 DEF IInv

\* A step that moves bytes at most between the receive and the buffered count
\* leaves the stream and the accounts as they are.
LEMMA BufferKept ==
    ASSUME IInv,
           UNCHANGED <<sent, taken, decoded, readBuffer, readPtr,
                       plainText, got>>,
           readBufferBytes' \in 0 .. Cap, io'.bytes \in 0 .. Cap,
           readBufferBytes' + io'.bytes = readBufferBytes + io.bytes
    PROVE  /\ SentRecords' /\ BufferAligned' /\ Accounted'
           /\ \A n : NeedMore(n)' = NeedMore(n)
<1>1. SentRecords'
  BY SameRecords DEF IInv, SentRecords
<1>2. BufferAligned'
  <2>1. readPtr \in Nat /\ readBufferBytes \in Nat /\ io.bytes \in Nat
        /\ Cap \in Nat
    BY BufferAssumption DEF IInv, TypeOK, RecvTypeOK
  <2>2. readPtr' + readBufferBytes' + io'.bytes <= Cap
    BY <2>1 DEF IInv, BufferAligned
  <2>3. sent \in Seq(Record) /\ decoded \in 0 .. Len(sent)
    BY DEF IInv, TypeOK, RecvTypeOK, SentRecords
  <2>4. WireEnd(decoded) \in Nat
    BY <2>3, RecordEnds
  <2>5. WireEnd(decoded)' = WireEnd(decoded)
    BY DEF WireEnd
  <2>6. Genuine(readBuffer, readBufferBytes + io.bytes)'
    BY <2>5 DEF IInv, BufferAligned, Genuine
  <2>7. taken = WireEnd(decoded) + readBufferBytes + io.bytes
    BY DEF IInv, BufferAligned
  <2>8. taken' = WireEnd(decoded)' + readBufferBytes' + io'.bytes
    BY <2>1, <2>4, <2>5, <2>7
  <2> QED BY <2>2, <2>6, <2>8 DEF BufferAligned
<1>3. Accounted'
  <2>1. TextEnd(decoded)' = TextEnd(decoded)
    BY DEF TextEnd
  <2> QED BY <2>1 DEF IInv, Accounted
<1>4. \A n : NeedMore(n)' = NeedMore(n)
  BY DEF NeedMore, Length, WireEnd, Upcoming
<1> QED BY <1>1, <1>2, <1>3, <1>4

\* A record that is not whole yet keeps the invariant: its bytes stay where
\* they are and count as buffered.
LEMMA RecordMissingKeeps ==
    ASSUME IInv, NEW n \in Lens, NEW b, LookAt(b),
           NEW error \in {"0", "expired", "failed"},
           RecordMissing(n, b, error)
    PROVE  IInv'
<1>1. /\ b \in 1 .. Cap /\ Cap \in Nat /\ TypeOK /\ IoBytes /\ NeedMore(b)
      /\ io' = io \/ io' = NoIO
      /\ b + io'.bytes = readBufferBytes + io.bytes
      /\ io'.state # "none" => b = readBufferBytes
      /\ plainText = <<>>
  BY BufferAssumption DEF IInv, LookAt, RecordMissing, Incomplete
<1>2. /\ sent' = sent /\ taken' = taken /\ reset' = reset /\ decoded' = decoded
      /\ readBuffer' = readBuffer /\ readPtr' = readPtr /\ context' = context
      /\ plainText' = plainText /\ got' = got
      /\ readBufferBytes' = b /\ m_LastError' = error
      /\ pc' = "loop" /\ len' = n
  BY DEF LookAt, RecordMissing
<1>3. io'.bytes \in 0 .. Cap
      /\ io' \in [state : {"none", "posted", "done"},
                  addr : 0 .. Cap, room : 0 .. Cap, bytes : 0 .. Cap]
  BY <1>1 DEF TypeOK, RecvTypeOK, NoIO
<1>4. SentRecords' /\ BufferAligned' /\ Accounted' /\ NeedMore(b)' = NeedMore(b)
  <2>1. UNCHANGED <<sent, taken, decoded, readBuffer, readPtr, plainText, got>>
    BY <1>2
  <2>2. /\ readBufferBytes' \in 0 .. Cap
        /\ readBufferBytes' + io'.bytes = readBufferBytes + io.bytes
    BY <1>1, <1>2
  <2> QED BY <1>3, <2>1, <2>2, BufferKept
<1>5. TypeOK'
  <2>1. /\ sent' \in Seq(Record) /\ reset' \in BOOLEAN
        /\ taken' \in Nat /\ decoded' \in Nat
        /\ context' \in {"open", "expired", "failed"}
    BY <1>1, <1>2, Zenon DEF TypeOK, RecvTypeOK
  <2>2. readBuffer' \in [Cells -> Nat]
    BY <1>1, <1>2, Zenon DEF TypeOK, RecvTypeOK, Cells
  <2>3. readPtr' \in 0 .. Cap
    BY <1>1, <1>2, Zenon DEF TypeOK, RecvTypeOK
  <2>4. readBufferBytes' \in 0 .. Cap
    BY <1>1, <1>2
  <2>5. RecvTypeOK'
    BY <1>3, <2>1, <2>2, <2>3, <2>4, Zenon DEF RecvTypeOK, Cells
  <2>6. /\ plainText' \in Seq(Nat) /\ got' \in Seq(Nat)
        /\ pc' \in {"idle", "loop", "wait"} /\ len' \in Lens \cup {0}
        /\ m_LastError' \in {"0", "expired", "failed"}
    BY <1>1, <1>2 DEF TypeOK
  <2> QED BY <2>5, <2>6, Zenon DEF TypeOK
<1>6. IoBytes'
  BY <1>1 DEF IoBytes, NoIO
<1>7. PendingTarget'
  BY <1>1, <1>2 DEF IInv, PendingTarget, NoIO
<1>8. Waiting'
  BY <1>1, <1>2, <1>4 DEF Waiting, NeedMore
<1>9. NeverFailed'
  BY <1>2 DEF IInv, NeverFailed
<1> QED BY <1>4, <1>5, <1>6, <1>7, <1>8, <1>9 DEF IInv

\* A refusal is the peer's close notify: the bytes looked at are genuine.
LEMMA RecordRefusedKeeps ==
    ASSUME IInv, NEW b, LookAt(b), RecordRefused(b)
    PROVE  IInv'
<1>1. /\ b \in 1 .. Cap /\ Cap \in Nat /\ TypeOK /\ IoBytes
      /\ io' = io \/ io' = NoIO
      /\ b + io'.bytes = readBufferBytes + io.bytes
      /\ io'.state # "none" => NeedMore(b) /\ b = readBufferBytes
      /\ plainText = <<>>
  BY BufferAssumption DEF IInv, LookAt
<1>2. /\ sent' = sent /\ taken' = taken /\ reset' = reset /\ decoded' = decoded
      /\ readBuffer' = readBuffer /\ readPtr' = readPtr
      /\ plainText' = plainText /\ got' = got
      /\ readBufferBytes' = b
      /\ pc' = "idle" /\ len' = 0
  BY DEF LookAt, RecordRefused, Return
<1>3. io'.bytes \in 0 .. Cap
      /\ io' \in [state : {"none", "posted", "done"},
                  addr : 0 .. Cap, room : 0 .. Cap, bytes : 0 .. Cap]
  BY <1>1 DEF TypeOK, RecvTypeOK, NoIO
<1>4. SentRecords' /\ BufferAligned' /\ Accounted' /\ NeedMore(b)' = NeedMore(b)
  <2>1. UNCHANGED <<sent, taken, decoded, readBuffer, readPtr, plainText, got>>
    BY <1>2
  <2>2. /\ readBufferBytes' \in 0 .. Cap
        /\ readBufferBytes' + io'.bytes = readBufferBytes + io.bytes
    BY <1>1, <1>2
  <2> QED BY <1>3, <2>1, <2>2, BufferKept
<1>5. context' \in {"open", "expired"} /\ m_LastError' \in {"expired", "failed"}
  <2>1. context \in {"open", "expired"}
    BY <1>1 DEF IInv, NeverFailed, TypeOK, RecvTypeOK
  <2>2. Genuine(readBuffer, b)
    <3>1. b <= readBufferBytes + io.bytes
      BY <1>1, <1>3
    <3>2. readBufferBytes + io.bytes \in Nat
      BY <1>1 DEF TypeOK, RecvTypeOK
    <3>3. Genuine(readBuffer, readBufferBytes + io.bytes)
      BY DEF IInv, BufferAligned
    <3> QED BY <1>1, <3>1, <3>2, <3>3 DEF Genuine
  <2>3. CASE Expires(b) /\ context' = "expired" /\ m_LastError' = "expired"
    BY <2>3
  <2>4. CASE Fails(b) /\ context' = AfterFailure /\ m_LastError' = "failed"
    BY <2>1, <2>2, <2>4 DEF Fails, AfterFailure
  <2>5. \/ Expires(b) /\ context' = "expired" /\ m_LastError' = "expired"
        \/ Fails(b) /\ context' = AfterFailure /\ m_LastError' = "failed"
    BY DEF RecordRefused
  <2> QED BY <2>3, <2>4, <2>5
<1>6. TypeOK'
  <2>1. readBufferBytes' \in 0 .. Cap /\ context' \in {"open", "expired", "failed"}
    BY <1>1, <1>2, <1>5
  <2>2. RecvTypeOK'
    BY <1>1, <1>2, <1>3, <2>1 DEF TypeOK, RecvTypeOK
  <2> QED BY <1>1, <1>2, <1>5, <2>2 DEF TypeOK
<1>7. IoBytes'
  BY <1>1 DEF IoBytes, NoIO
<1>8. PendingTarget'
  BY <1>1, <1>2 DEF IInv, PendingTarget, NoIO
<1>9. Waiting'
  BY <1>1, <1>2, <1>4 DEF Waiting, NeedMore
<1>10. NeverFailed'
  BY <1>5 DEF NeverFailed
<1> QED BY <1>4, <1>6, <1>7, <1>8, <1>9, <1>10 DEF IInv
-----------------------------------------------------------------------------
(* The peer and the kernel.                                                 *)

\* The peer may add a record at any time, also a close notify.
LEMMA PeerRecordKeeps ==
    ASSUME IInv, NEW n \in Sizes \cup {0}, NEW c \in BOOLEAN,
           sent' = Append(sent, PeerRecord(n, c)),
           UNCHANGED <<reset, taken, io, decoded, context, bufferVars, callVars>>
    PROVE  IInv'
<1> USE DEF bufferVars, callVars
<1>1. /\ sent \in Seq(Record) /\ decoded \in 0 .. Len(sent) /\ Len(sent) \in Nat
      /\ n \in Nat /\ Overhead \in Nat /\ TypeOK /\ SentRecords
  <2>1. n \in Nat
    BY BufferAssumption
  <2> QED BY <2>1, Typed
<1>2. Written \in Nat /\ TextEnd(Len(sent)) \in Nat
  BY <1>1, RecordEnds DEF Written
<1>3. PeerRecord(n, c) \in Record
  BY <1>1, <1>2 DEF PeerRecord, Record
<1>4. /\ sent' \in Seq(Record) /\ Len(sent') = Len(sent) + 1
      /\ \A i \in 1 .. Len(sent) : sent'[i] = sent[i]
      /\ sent'[Len(sent) + 1] = PeerRecord(n, c)
  BY <1>1, <1>3, AppendProperties
<1>5. \A i \in 0 .. Len(sent) :
        WireEnd(i)' = WireEnd(i) /\ TextEnd(i)' = TextEnd(i)
  BY <1>4 DEF WireEnd, TextEnd
<1>6. Written' = Written + n + Overhead
  BY <1>1, <1>4 DEF Written, WireEnd, PeerRecord
<1>7. SentRecords'
  <2>1. ASSUME NEW i \in 1 .. Len(sent')
        PROVE  \E m \in Sizes \cup {0} :
                  /\ sent'[i].wire = WireEnd(i - 1)' + m + Overhead
                  /\ sent'[i].text = TextEnd(i - 1)' + m
    <3>1. i - 1 \in 0 .. Len(sent)
      BY <1>1, <1>4
    <3>2. WireEnd(i - 1)' = WireEnd(i - 1) /\ TextEnd(i - 1)' = TextEnd(i - 1)
      BY <1>5, <3>1
    <3>3. CASE i = Len(sent) + 1
      <4>1. i - 1 = Len(sent) /\ sent'[i] = PeerRecord(n, c)
        BY <1>1, <1>4, <3>3
      <4>2. /\ sent'[i].wire = WireEnd(i - 1) + n + Overhead
            /\ sent'[i].text = TextEnd(i - 1) + n
        BY <4>1 DEF PeerRecord, Written
      <4> QED BY <3>2, <4>2
    <3>4. CASE i # Len(sent) + 1
      <4>1. i \in 1 .. Len(sent) /\ sent'[i] = sent[i]
        BY <1>1, <1>4, <3>4
      <4> QED BY <1>1, <3>2, <4>1 DEF SentRecords
    <3> QED BY <3>3, <3>4
  <2>2. decoded' <= Len(sent') /\ taken' <= Written'
    BY <1>1, <1>2, <1>4, <1>6 DEF SentRecords, TypeOK, RecvTypeOK
  <2> QED BY <2>1, <2>2 DEF SentRecords
<1>8. WireEnd(decoded)' = WireEnd(decoded) /\ TextEnd(decoded)' = TextEnd(decoded)
  BY <1>1, <1>5
<1>9. TypeOK'
  BY <1>1, <1>4 DEF TypeOK, RecvTypeOK
<1>10. BufferAligned'
  BY <1>8 DEF IInv, BufferAligned, Genuine
<1>11. Accounted'
  BY <1>8 DEF IInv, Accounted
<1>12. NeedMore(readBufferBytes) => NeedMore(readBufferBytes)'
  <2>1. CASE readBufferBytes = 0
    BY <2>1 DEF NeedMore
  <2>2. CASE decoded < Len(sent) /\ readBufferBytes < Length(Upcoming)
    <3>1. decoded + 1 \in 0 .. Len(sent) /\ (decoded + 1) - 1 = decoded
      BY <1>1, <2>2
    <3>2. Length(Upcoming)' = Length(Upcoming)
      BY <1>5, <1>8, <3>1 DEF Length, Upcoming
    <3>3. decoded' < Len(sent')
      BY <1>1, <1>4, <2>2
    <3> QED BY <2>2, <3>2, <3>3 DEF NeedMore
  <2> QED BY <2>1, <2>2 DEF NeedMore
<1>13. Waiting'
  BY <1>12 DEF IInv, Waiting
<1>14. IoBytes' /\ PendingTarget' /\ NeverFailed'
  BY DEF IInv, IoBytes, PendingTarget, NeverFailed
<1> QED BY <1>7, <1>9, <1>10, <1>11, <1>13, <1>14 DEF IInv

\* The kernel writes behind the buffered bytes, wherever the receive was
\* posted from, and what it writes continues them.
LEMMA KernelWriteKeeps ==
    ASSUME IInv, KernelWrite, UNCHANGED callVars
    PROVE  IInv'
<1> USE DEF callVars
<1>1. PICK n \in 1 .. io.room :
        /\ taken + n <= Written
        /\ readBuffer' = [k \in Cells |->
             IF io.addr <= k /\ k < io.addr + n
             THEN taken + 1 + k - io.addr ELSE readBuffer[k]]
        /\ taken' = taken + n
        /\ io' = [io EXCEPT !.state = "done", !.bytes = n]
  BY DEF KernelWrite
<1>2. /\ io.state = "posted"
      /\ UNCHANGED <<sent, reset, decoded, context, readPtr, readBufferBytes>>
  BY DEF KernelWrite
<1>3. /\ TypeOK /\ IoBytes /\ SentRecords
      /\ Cap \in Nat /\ taken \in Nat /\ readPtr \in 0 .. Cap
      /\ readBufferBytes \in 0 .. Cap /\ io.room \in 0 .. Cap
      /\ readBuffer \in [Cells -> Nat]
      /\ io.addr = readPtr + readBufferBytes /\ io.addr + io.room <= Cap
      /\ io.bytes = 0
      /\ sent \in Seq(Record) /\ decoded \in 0 .. Len(sent)
  <2>1. io.addr = readPtr + readBufferBytes /\ io.addr + io.room <= Cap
    BY <1>2 DEF IInv, PendingTarget
  <2>2. io.bytes = 0
    BY <1>2, Typed DEF IoBytes
  <2> QED BY <2>1, <2>2, Typed
<1>4. /\ n \in Nat /\ n \in 1 .. Cap /\ readPtr + readBufferBytes + n <= Cap
      /\ io'.state = "done" /\ io'.bytes = n /\ io'.room = io.room
      /\ io'.addr = io.addr
      /\ io' \in [state : {"none", "posted", "done"},
                  addr : 0 .. Cap, room : 0 .. Cap, bytes : 0 .. Cap]
  <2>1. n \in Nat /\ n \in 1 .. Cap /\ readPtr + readBufferBytes + n <= Cap
    BY <1>3
  <2>2. io \in [state : {"none", "posted", "done"},
               addr : 0 .. Cap, room : 0 .. Cap, bytes : 0 .. Cap]
    BY <1>3 DEF TypeOK, RecvTypeOK
  <2>3. /\ io'.state = "done" /\ io'.bytes = n /\ io'.room = io.room
        /\ io'.addr = io.addr
    BY <1>1, <2>2
  <2>4. io' \in [state : {"none", "posted", "done"},
                addr : 0 .. Cap, room : 0 .. Cap, bytes : 0 .. Cap]
    <3>1. n \in 0 .. Cap
      BY <1>3, <2>1
    <3> QED BY <1>1, <2>2, <3>1
  <2> QED BY <2>1, <2>3, <2>4
<1>5. WireEnd(decoded) \in Nat /\ WireEnd(decoded)' = WireEnd(decoded)
  BY <1>2, <1>3, RecordEnds DEF WireEnd
<1>6. taken = WireEnd(decoded) + readBufferBytes
  BY <1>3, <1>5 DEF IInv, BufferAligned
<1>7. readBuffer' \in [Cells -> Nat]
  <2>1. ASSUME NEW k \in Cells, io.addr <= k
        PROVE  taken + 1 + k - io.addr \in Nat
    <3>1. taken \in Nat /\ io.addr \in Nat /\ k \in Nat
      BY <1>3
    <3> QED BY <2>1, <3>1
  <2> QED BY <1>1, <1>3, <2>1
<1>8. ASSUME NEW i \in 0 .. readBufferBytes + n - 1
      PROVE  /\ readPtr + i \in Cells
             /\ readBuffer'[readPtr + i] = WireEnd(decoded) + 1 + i
  <2>1. readPtr + i \in Cells /\ i \in Nat
    BY <1>3, <1>4
  <2>2. CASE i < readBufferBytes
    <3>0. ~(io.addr <= readPtr + i)
      BY <1>3, <2>1, <2>2
    <3>1. readBuffer'[readPtr + i] = readBuffer[readPtr + i]
      BY <1>1, <2>1, <3>0
    <3>2. readBuffer[readPtr + i] = WireEnd(decoded) + 1 + i
      <4>1. i \in 0 .. (readBufferBytes + io.bytes) - 1
        BY <1>3, <2>2
      <4> QED BY <4>1 DEF IInv, BufferAligned, Genuine
    <3> QED BY <2>1, <3>1, <3>2
  <2>3. CASE i >= readBufferBytes
    <3>0. /\ readPtr \in Nat /\ readBufferBytes \in Nat /\ n \in Nat
          /\ io.addr = readPtr + readBufferBytes
          /\ i < readBufferBytes + n
      BY <1>3, <1>4
    <3>1. io.addr <= readPtr + i /\ readPtr + i < io.addr + n
      BY <2>1, <2>3, <3>0
    <3>2. readBuffer'[readPtr + i] = taken + 1 + (readPtr + i) - io.addr
      BY <1>1, <2>1, <3>1
    <3>3. taken + 1 + (readPtr + i) - io.addr = WireEnd(decoded) + 1 + i
      BY <1>5, <1>6, <2>1, <3>0
    <3> QED BY <2>1, <3>2, <3>3
  <2> QED BY <1>3, <2>1, <2>2, <2>3
<1>9. BufferAligned'
  <2>1. Genuine(readBuffer, readBufferBytes + io.bytes)'
    <3>1. readBufferBytes' + io'.bytes = readBufferBytes + n
      BY <1>2, <1>4
    <3>2. readPtr' = readPtr
      BY <1>2
    <3>3. ASSUME NEW i \in 0 .. (readBufferBytes' + io'.bytes) - 1
          PROVE  /\ readPtr' + i \in Cells
                 /\ readBuffer'[readPtr' + i] = WireEnd(decoded)' + 1 + i
      <4>1. i \in 0 .. readBufferBytes + n - 1
        BY <1>3, <1>4, <3>1
      <4>2. readPtr + i \in Cells
            /\ readBuffer'[readPtr + i] = WireEnd(decoded) + 1 + i
        BY <1>8, <4>1
      <4> QED BY <1>5, <3>2, <4>2
    <3> QED BY <3>3 DEF Genuine
  <2>2. readPtr + readBufferBytes + n <= Cap
    BY <1>1, <1>3
  <2>3. taken' = WireEnd(decoded) + readBufferBytes + n
    BY <1>1, <1>3, <1>5, <1>6
  <2> QED BY <1>2, <1>4, <1>5, <2>1, <2>2, <2>3 DEF BufferAligned
<1>10. SentRecords'
  <2>1. decoded' <= Len(sent)
    BY <1>2, <1>3
  <2> QED BY <1>1, <1>2, <1>3, <2>1, SameRecords
<1>11. TypeOK'
  <2>1. taken' \in Nat
    <3>1. taken \in Nat /\ n \in Nat /\ taken' = taken + n
      BY <1>1, <1>3, <1>4
    <3> QED BY <3>1
  <2>2. RecvTypeOK'
    BY <1>2, <1>3, <1>4, <1>7, <2>1 DEF TypeOK, RecvTypeOK
  <2> QED BY <1>3, <2>2 DEF TypeOK
<1>12. IoBytes' /\ PendingTarget'
  BY <1>1, <1>2, <1>3, <1>4 DEF IoBytes, PendingTarget
<1>13. Waiting'
  BY <1>2, <1>4 DEF IInv, Waiting, NeedMore, Length, WireEnd, Upcoming
<1>14. Accounted' /\ NeverFailed'
  BY <1>2 DEF IInv, Accounted, NeverFailed, TextEnd
<1> QED BY <1>9, <1>10, <1>11, <1>12, <1>13, <1>14 DEF IInv

\* A receive that ends without a byte leaves the buffer as it was.
LEMMA KernelEndKeeps ==
    ASSUME IInv, KernelEnd, UNCHANGED callVars
    PROVE  IInv'
<1> USE DEF callVars, bufferVars
<1>1. /\ io.state = "posted" /\ io' = [io EXCEPT !.state = "done"]
      /\ UNCHANGED <<sent, reset, taken, decoded, context, bufferVars>>
  BY DEF KernelEnd
<1>2. /\ io \in [state : {"none", "posted", "done"},
                 addr : 0 .. Cap, room : 0 .. Cap, bytes : 0 .. Cap]
      /\ io.bytes = 0 /\ TypeOK /\ IoBytes
  BY <1>1 DEF IInv, TypeOK, RecvTypeOK, IoBytes
<1>3. /\ io' \in [state : {"none", "posted", "done"},
                  addr : 0 .. Cap, room : 0 .. Cap, bytes : 0 .. Cap]
      /\ io'.state = "done" /\ io'.bytes = io.bytes
      /\ io'.room = io.room /\ io'.addr = io.addr
  BY <1>1, <1>2
<1>4. /\ SentRecords' /\ BufferAligned' /\ Accounted'
      /\ NeedMore(readBufferBytes)' = NeedMore(readBufferBytes)
  <2>1. UNCHANGED <<sent, taken, decoded, readBuffer, readPtr, plainText, got>>
    BY <1>1
  <2>2. /\ readBufferBytes' \in 0 .. Cap /\ io'.bytes \in 0 .. Cap
        /\ readBufferBytes' + io'.bytes = readBufferBytes + io.bytes
    BY <1>1, <1>2, <1>3 DEF TypeOK, RecvTypeOK
  <2>3. SentRecords' /\ BufferAligned' /\ Accounted'
    BY <2>1, <2>2, BufferKept
  <2>4. NeedMore(readBufferBytes)' = NeedMore(readBufferBytes)
    BY <1>1 DEF NeedMore, Length, WireEnd, Upcoming
  <2> QED BY <2>3, <2>4
<1>5. TypeOK'
  <2>1. RecvTypeOK'
    BY <1>1, <1>2, <1>3 DEF TypeOK, RecvTypeOK
  <2> QED BY <1>2, <2>1 DEF TypeOK
<1>6. IoBytes' /\ PendingTarget' /\ Waiting' /\ NeverFailed'
  BY <1>1, <1>2, <1>3, <1>4
     DEF IInv, IoBytes, PendingTarget, Waiting, NeverFailed
<1> QED BY <1>4, <1>5, <1>6 DEF IInv

\* No step of the peer, of TCP or of the kernel breaks the invariant, whatever
\* RecvPartial is doing.
LEMMA NetworkKeeps ==
    ASSUME IInv, Network, UNCHANGED callVars
    PROVE  IInv'
<1>1. CASE PeerSend
  <2>1. PICK n \in Sizes : sent' = Append(sent, PeerRecord(n, FALSE))
    BY <1>1 DEF PeerSend
  <2> QED BY <1>1, <2>1, PeerRecordKeeps DEF PeerSend
<1>2. CASE PeerClose
  BY <1>2, PeerRecordKeeps DEF PeerClose
<1>3. CASE ConnReset
  <2>1. /\ reset' = TRUE
        /\ UNCHANGED <<sent, taken, io, decoded, context, readBuffer, readPtr,
                       readBufferBytes, pc, len, plainText, m_LastError, got>>
    BY <1>3 DEF ConnReset, bufferVars, callVars
  <2>2. reset' \in BOOLEAN
    BY <2>1
  <2>3. TypeOK'
    BY <2>1, <2>2, Zenon DEF IInv, TypeOK, RecvTypeOK, Cells, Record
  <2>4. \A i : WireEnd(i)' = WireEnd(i) /\ TextEnd(i)' = TextEnd(i)
    BY <2>1 DEF WireEnd, TextEnd
  <2>5. SentRecords'
    BY <2>1, <2>4 DEF IInv, SentRecords, Written
  <2>6. IoBytes' /\ PendingTarget' /\ NeverFailed'
    BY <2>1 DEF IInv, IoBytes, PendingTarget, NeverFailed
  <2>7. BufferAligned'
    BY <2>1, <2>4 DEF IInv, BufferAligned, Genuine, Cells
  <2>8. Waiting'
    BY <2>1, <2>4 DEF IInv, Waiting, NeedMore, Length, Upcoming
  <2>9. Accounted'
    BY <2>1, <2>4 DEF IInv, Accounted
  <2> QED BY <2>3, <2>5, <2>6, <2>7, <2>8, <2>9 DEF IInv
<1>4. CASE KernelWrite
  BY <1>4, KernelWriteKeeps
<1>5. CASE KernelEnd
  BY <1>5, KernelEndKeeps
<1> QED BY <1>1, <1>2, <1>3, <1>4, <1>5 DEF Network

-----------------------------------------------------------------------------
(* RecvPartial.                                                             *)

\* Returning cached plaintext (SSLClient.cpp:103-132) keeps the invariant.
LEMMA CachedKeeps ==
    ASSUME IInv, RecvCached
    PROVE  IInv'
<1> USE DEF bufferVars, recvVars
<1>1. PICK n \in Lens : GiveSome(plainText, n)
  BY DEF RecvCached
<1>2. /\ pc = "idle" /\ plainText # <<>>
      /\ UNCHANGED <<recvVars, pc, len, m_LastError>>
  BY DEF RecvCached
<1>3. /\ TypeOK /\ Accounted /\ n \in Nat /\ io.state = "none"
      /\ got \in Seq(Nat) /\ plainText \in Seq(Nat)
  BY <1>2, LensAssumption DEF IInv, TypeOK, RecvTypeOK, Waiting
<1>4. /\ got' \in Seq(Nat) /\ plainText' \in Seq(Nat)
      /\ Len(got') + Len(plainText') = Len(got) + Len(plainText)
      /\ \A i \in 1 .. Len(got') : got'[i] = i
      /\ \A i \in 1 .. Len(plainText') : plainText'[i] = Len(got') + i
  BY <1>1, <1>3, GiveSomeKeeps DEF Accounted
<1>5. Accounted'
  BY <1>2, <1>3, <1>4 DEF Accounted, TextEnd
<1>6. TypeOK'
  BY <1>2, <1>3, <1>4 DEF TypeOK, RecvTypeOK
<1>7. /\ SentRecords' /\ IoBytes' /\ BufferAligned' /\ PendingTarget'
      /\ Waiting' /\ NeverFailed'
  BY <1>2, <1>3
     DEF IInv, SentRecords, IoBytes, BufferAligned, Genuine, PendingTarget,
         Waiting, NeverFailed, Written, WireEnd, TextEnd
<1> QED BY <1>5, <1>6, <1>7 DEF IInv

\* DecryptMessage keeps the invariant, whatever it answers.
LEMMA TryDecryptKeeps ==
    ASSUME IInv, NEW n \in Lens, NEW b, LookAt(b),
           NEW error \in {"0", "expired", "failed"},
           TryDecrypt(n, b, error)
    PROVE  IInv'
BY RecordDoneKeeps, RecordMissingKeeps, RecordRefusedKeeps DEF TryDecrypt

\* The start of a call with nothing cached (SSLClient.cpp:136-171).
LEMMA StartKeeps ==
    ASSUME IInv, RecvStart
    PROVE  IInv'
<1> USE DEF bufferVars, recvVars
<1>1. PICK n \in Lens :
        IF readBufferBytes = 0
        THEN /\ pc' = "loop" /\ len' = n
             /\ UNCHANGED <<recvVars, plainText, m_LastError, got>>
        ELSE /\ TryDecrypt(n, readBufferBytes, m_LastError)
             /\ UNCHANGED <<sent, reset, taken, io>>
  BY DEF RecvStart
<1>2. pc = "idle" /\ plainText = <<>>
  BY DEF RecvStart
<1>3. CASE readBufferBytes = 0
  <2>1. /\ pc' = "loop" /\ len' = n
        /\ UNCHANGED <<recvVars, plainText, m_LastError, got>>
    BY <1>1, <1>3
  <2>2. TypeOK'
    BY <2>1 DEF IInv, TypeOK, RecvTypeOK
  <2>3. /\ SentRecords' /\ IoBytes' /\ BufferAligned' /\ PendingTarget'
        /\ NeverFailed' /\ Accounted'
    BY <2>1 DEF IInv, SentRecords, IoBytes, BufferAligned, Genuine, PendingTarget,
         NeverFailed, Accounted, Written, WireEnd, TextEnd
  <2>4. Waiting'
    BY <1>2, <1>3, <2>1 DEF IInv, Waiting, NeedMore
  <2> QED BY <2>2, <2>3, <2>4 DEF IInv
<1>4. CASE readBufferBytes # 0
  <2>1. /\ TryDecrypt(n, readBufferBytes, m_LastError)
        /\ UNCHANGED <<sent, reset, taken, io>>
    BY <1>1, <1>4
  <2>2. readBufferBytes \in 1 .. Cap /\ m_LastError \in {"0", "expired", "failed"}
    BY <1>4 DEF IInv, TypeOK, RecvTypeOK
  <2>3. io.state # "none" => NeedMore(readBufferBytes)
    BY DEF IInv, Waiting
  <2>4. LookAt(readBufferBytes)
    BY <1>2, <2>1, <2>2, <2>3 DEF LookAt
  <2> QED BY <2>1, <2>2, <2>4, TryDecryptKeeps
<1> QED BY <1>3, <1>4

\* The bytes of a completed receive are counted and looked at
\* (SSLClient.cpp:211-226).
LEMMA BytesKeeps ==
    ASSUME IInv, RecvBytes
    PROVE  IInv'
<1>1. /\ pc = "wait" /\ io.state = "done" /\ io.bytes > 0 /\ io' = NoIO
      /\ TryDecrypt(len, readBufferBytes + io.bytes, "0")
      /\ UNCHANGED <<sent, reset, taken>>
  BY DEF RecvBytes
<1>2. len \in Lens /\ plainText = <<>>
  BY <1>1 DEF IInv, Waiting
<1>3. readBufferBytes + io.bytes \in 1 .. Cap
  <2>1. /\ readBufferBytes \in Nat /\ io.bytes \in Nat /\ readPtr \in Nat
        /\ Cap \in Nat
    BY BufferAssumption DEF IInv, TypeOK, RecvTypeOK
  <2>2. readPtr + readBufferBytes + io.bytes <= Cap
    BY DEF IInv, BufferAligned
  <2> QED BY <1>1, <2>1, <2>2
<1>4. (readBufferBytes + io.bytes) + 0 = readBufferBytes + io.bytes
  BY <1>3
<1>5. LookAt(readBufferBytes + io.bytes)
  BY <1>1, <1>2, <1>3, <1>4 DEF LookAt, NoIO
<1> QED BY <1>1, <1>2, <1>5, TryDecryptKeeps

\* Moving the partial record down keeps its bytes, and it cannot pull the
\* buffer away from under a receive that is outstanding: such a receive still
\* has room at the end of the buffer.
LEMMA LoopKeeps ==
    ASSUME IInv, RecvLoop
    PROVE  IInv'
<1> USE DEF bufferVars, peerVars
<1>1. /\ pc = "loop" /\ pc' = "wait"
      /\ UNCHANGED <<peerVars, taken, decoded, context, readBufferBytes,
                     len, plainText, m_LastError, got>>
      /\ freeBytesAtEnd # 0 \/ freeBytesAtStart > 0
  BY DEF RecvLoop
<1>2. /\ TypeOK /\ IoBytes /\ SentRecords /\ Cap \in Nat \ {0}
      /\ readPtr \in 0 .. Cap /\ readBufferBytes \in 0 .. Cap
      /\ io \in [state : {"none", "posted", "done"},
                 addr : 0 .. Cap, room : 0 .. Cap, bytes : 0 .. Cap]
      /\ readBuffer \in [Cells -> Nat] /\ taken \in Nat
      /\ readPtr + readBufferBytes + io.bytes <= Cap
      /\ sent \in Seq(Record) /\ decoded \in 0 .. Len(sent)
      /\ NeedMore(readBufferBytes) /\ plainText = <<>> /\ len \in Lens
  <2>1. readPtr + readBufferBytes + io.bytes <= Cap
    BY DEF IInv, BufferAligned
  <2>2. NeedMore(readBufferBytes) /\ plainText = <<>> /\ len \in Lens
    BY <1>1 DEF IInv, Waiting
  <2> QED BY <2>1, <2>2, Typed
<1>3. WireEnd(decoded) \in Nat /\ WireEnd(decoded)' = WireEnd(decoded)
  BY <1>1, <1>2, RecordEnds DEF WireEnd
<1>4. SentRecords' /\ Accounted' /\ NeverFailed'
  <2>1. SentRecords'
    BY <1>1, <1>2, SameRecords
  <2> QED BY <1>1, <2>1 DEF IInv, Accounted, NeverFailed, TextEnd
<1>5. NeedMore(readBufferBytes)'
  BY <1>1, <1>2 DEF NeedMore, Length, WireEnd, Upcoming
<1>6. CASE freeBytesAtEnd # 0
  <2>1. /\ io' = Posted(readPtr + readBufferBytes, freeBytesAtEnd)
        /\ readBuffer' = readBuffer /\ readPtr' = readPtr
    BY <1>6 DEF RecvLoop
  <2>2. /\ freeBytesAtEnd = Cap - readBufferBytes - readPtr
        /\ freeBytesAtEnd \in 1 .. Cap /\ readPtr + readBufferBytes \in 0 .. Cap
        /\ (readPtr + readBufferBytes) + freeBytesAtEnd <= Cap
    BY <1>2, <1>6 DEF freeBytesAtEnd, freeBytesAtStart
  <2> HIDE DEF freeBytesAtEnd
  <2>3. /\ io' \in [state : {"none", "posted", "done"},
                    addr : 0 .. Cap, room : 0 .. Cap, bytes : 0 .. Cap]
        /\ io'.state # "none"
        /\ io'.bytes = io.bytes /\ IoBytes'
        /\ io'.addr = readPtr + readBufferBytes
        /\ io'.addr + io'.room <= Cap
    <3>1. CASE io.state = "none"
      <4>1. io' = [state |-> "posted", addr |-> readPtr + readBufferBytes,
                   room |-> freeBytesAtEnd, bytes |-> 0]
        BY <2>1, <3>1 DEF Posted
      <4>2. io.bytes = 0
        BY <1>2, <3>1 DEF IoBytes
      <4> QED BY <1>2, <2>2, <4>1, <4>2 DEF IoBytes
    <3>2. CASE io.state # "none"
      <4>1. io' = io
        BY <2>1, <3>2 DEF Posted
      <4> QED BY <1>2, <3>2, <4>1 DEF IInv, PendingTarget, IoBytes
    <3> QED BY <3>1, <3>2
  <2>4. PendingTarget'
    BY <1>1, <2>1, <2>3 DEF PendingTarget
  <2>5. BufferAligned'
    BY <1>1, <1>3, <2>1, <2>3 DEF IInv, BufferAligned, Genuine
  <2>6. TypeOK'
    BY <1>1, <1>2, <2>1, <2>3 DEF TypeOK, RecvTypeOK
  <2>7. Waiting'
    BY <1>1, <1>2, <1>5, <2>3 DEF Waiting
  <2> QED BY <1>4, <2>3, <2>4, <2>5, <2>6, <2>7 DEF IInv
<1>7. CASE freeBytesAtEnd = 0
  <2>1. /\ readBuffer' = [k \in Cells |->
               IF k < Cap - readPtr THEN readBuffer[k + readPtr] ELSE readBuffer[k]]
        /\ readPtr' = 0
        /\ io' = Posted(readBufferBytes, readPtr)
    BY <1>7 DEF RecvLoop, freeBytesAtStart
  <2>2. readPtr + readBufferBytes = Cap /\ readPtr > 0
    BY <1>1, <1>2, <1>7 DEF freeBytesAtEnd, freeBytesAtStart
  <2>3. io.state = "none" /\ io.bytes = 0
    <3>1. ASSUME io.state # "none" PROVE FALSE
      <4>1. /\ io.addr = readPtr + readBufferBytes /\ io.addr + io.room <= Cap
            /\ io.room > 0 /\ io.room \in Nat
        BY <1>2, <3>1 DEF IInv, PendingTarget, IoBytes
      <4> QED BY <1>2, <2>2, <4>1
    <3> QED BY <1>2, <3>1 DEF IoBytes
  <2>4. io' = [state |-> "posted", addr |-> readBufferBytes,
               room |-> readPtr, bytes |-> 0]
    BY <2>1, <2>3 DEF Posted
  <2>5. readBuffer' \in [Cells -> Nat]
    <3>1. \A k \in Cells : k < Cap - readPtr => k + readPtr \in Cells
      BY <1>2
    <3> QED BY <1>2, <2>1, <3>1
  <2>6. BufferAligned'
    <3>1. ASSUME NEW i \in 0 .. readBufferBytes - 1
          PROVE  i \in Cells /\ readBuffer'[i] = WireEnd(decoded) + 1 + i
      <4>1. i \in Cells /\ i < Cap - readPtr /\ i + readPtr = readPtr + i
        BY <1>2, <2>2
      <4>2. readBuffer'[i] = readBuffer[readPtr + i]
        BY <2>1, <4>1
      <4>3. i \in 0 .. (readBufferBytes + io.bytes) - 1
        BY <1>2, <2>3
      <4>4. readBuffer[readPtr + i] = WireEnd(decoded) + 1 + i
        BY <4>3 DEF IInv, BufferAligned, Genuine
      <4> QED BY <4>1, <4>2, <4>4
    <3>2. ASSUME NEW i \in 0 .. (readBufferBytes' + io'.bytes) - 1
          PROVE  /\ readPtr' + i \in Cells
                 /\ readBuffer'[readPtr' + i] = WireEnd(decoded)' + 1 + i
      <4>1. i \in 0 .. readBufferBytes - 1 /\ readPtr' + i = i
        BY <1>1, <1>2, <2>1, <2>4
      <4> QED BY <1>3, <3>1, <4>1
    <3>3. Genuine(readBuffer, readBufferBytes + io.bytes)'
      BY <3>2 DEF Genuine
    <3>4. readPtr' + readBufferBytes' + io'.bytes <= Cap
      BY <1>1, <1>2, <2>1, <2>4
    <3>5. taken' = WireEnd(decoded)' + readBufferBytes' + io'.bytes
      <4>1. taken = WireEnd(decoded) + readBufferBytes + io.bytes
        BY DEF IInv, BufferAligned
      <4> QED BY <1>1, <1>2, <1>3, <2>3, <2>4, <4>1
    <3> QED BY <3>3, <3>4, <3>5 DEF BufferAligned
  <2>7. TypeOK'
    <3>1. io' \in [state : {"none", "posted", "done"},
                   addr : 0 .. Cap, room : 0 .. Cap, bytes : 0 .. Cap]
          /\ readPtr' \in 0 .. Cap
      BY <1>2, <2>1, <2>4
    <3>2. RecvTypeOK'
      BY <1>1, <1>2, <2>5, <3>1 DEF TypeOK, RecvTypeOK
    <3> QED BY <1>1, <1>2, <3>2 DEF TypeOK
  <2>8. IoBytes' /\ PendingTarget'
    BY <1>1, <1>2, <2>1, <2>2, <2>4 DEF IoBytes, PendingTarget
  <2>9. Waiting'
    BY <1>1, <1>2, <1>5, <2>4 DEF Waiting
  <2> QED BY <1>4, <2>6, <2>7, <2>8, <2>9 DEF IInv
<1> QED BY <1>6, <1>7

\* A call that fails in the socket, or for want of room, leaves the buffered
\* bytes and the cached plaintext to the next call.
LEMMA FailedCallKeeps ==
    ASSUME IInv, RecvFull \/ RecvError \/ RecvTimeout
    PROVE  IInv'
<1> USE DEF bufferVars, recvVars, Return
<1>1. /\ UNCHANGED <<sent, reset, taken, decoded, context, bufferVars,
                     plainText, got>>
      /\ pc' = "idle" /\ len' = 0
      /\ m_LastError' = "0" \/ m_LastError' = m_LastError
      /\ io' = io \/ (io' = NoIO /\ io.bytes = 0)
  BY DEF RecvFull, RecvError, RecvTimeout
<1>2. /\ TypeOK /\ Cap \in Nat /\ readBufferBytes \in 0 .. Cap
      /\ io \in [state : {"none", "posted", "done"},
                 addr : 0 .. Cap, room : 0 .. Cap, bytes : 0 .. Cap]
  BY BufferAssumption DEF IInv, TypeOK, RecvTypeOK
<1>3. /\ io' \in [state : {"none", "posted", "done"},
                  addr : 0 .. Cap, room : 0 .. Cap, bytes : 0 .. Cap]
      /\ io'.bytes = io.bytes
      /\ io'.state # "none" => io' = io
  <2>1. CASE io' = io
    BY <1>2, <2>1
  <2>2. CASE io' = NoIO /\ io.bytes = 0
    BY <1>2, <2>2 DEF NoIO
  <2> QED BY <1>1, <2>1, <2>2
<1>4. /\ SentRecords' /\ BufferAligned' /\ Accounted'
      /\ NeedMore(readBufferBytes)' = NeedMore(readBufferBytes)
  <2>1. UNCHANGED <<sent, taken, decoded, readBuffer, readPtr, plainText, got>>
    BY <1>1
  <2>2. /\ readBufferBytes' \in 0 .. Cap /\ io'.bytes \in 0 .. Cap
        /\ readBufferBytes' + io'.bytes = readBufferBytes + io.bytes
    BY <1>1, <1>2, <1>3
  <2>3. SentRecords' /\ BufferAligned' /\ Accounted'
    BY <2>1, <2>2, BufferKept
  <2>4. NeedMore(readBufferBytes)' = NeedMore(readBufferBytes)
    BY <1>1 DEF NeedMore, Length, WireEnd, Upcoming
  <2> QED BY <2>3, <2>4
<1>5. TypeOK'
  <2>1. RecvTypeOK'
    BY <1>1, <1>2, <1>3 DEF TypeOK, RecvTypeOK
  <2>2. m_LastError' \in {"0", "expired", "failed"}
    BY <1>1, <1>2 DEF TypeOK
  <2> QED BY <1>1, <1>2, <2>1, <2>2 DEF TypeOK
<1>6. IoBytes'
  BY <1>1, <1>3 DEF IInv, IoBytes, NoIO
<1>7. PendingTarget'
  BY <1>1, <1>3 DEF IInv, PendingTarget
<1>8. Waiting' /\ NeverFailed'
  BY <1>1, <1>3, <1>4 DEF IInv, Waiting, NeverFailed
<1> QED BY <1>4, <1>5, <1>6, <1>7, <1>8 DEF IInv

-----------------------------------------------------------------------------
(* The theorems.                                                            *)

\* The invariant holds when the handshake is over, also when it left the first
\* bytes of a record behind.
LEMMA InitIInv == Init => IInv
<1> SUFFICES ASSUME Init PROVE IInv
  OBVIOUS
<1>1. PICK e \in 0 .. Written :
        /\ e <= Cap
        /\ readPtr = 0
        /\ readBuffer = [k \in Cells |-> IF 0 <= k /\ k < e THEN 1 + k ELSE 0]
        /\ readBufferBytes = e /\ taken = e
  <2>1. PICK e \in 0 .. Written, p \in {0} :
        /\ p + e <= Cap
        /\ readPtr = IF e = 0 THEN 0 ELSE p
        /\ readBuffer = [k \in Cells |->
                           IF p <= k /\ k < p + e THEN 1 + k - p ELSE 0]
        /\ readBufferBytes = e /\ taken = e
    BY DEF Init, RecvInit
  <2>2. p = 0 /\ 0 + e = e /\ e \in Nat
    OBVIOUS
  <2>3. readBuffer = [k \in Cells |-> IF 0 <= k /\ k < e THEN 1 + k ELSE 0]
    <3>1. \A k \in Cells : 1 + k - p = 1 + k
      BY <2>2, BufferAssumption
    <3> QED BY <2>1, <2>2, <3>1
  <2> QED BY <2>1, <2>2, <2>3
<1>2. /\ reset = FALSE /\ io = NoIO /\ decoded = 0 /\ context = "open"
      /\ pc = "idle" /\ len = 0 /\ plainText = <<>> /\ m_LastError = "0"
      /\ got = <<>>
  BY DEF Init, RecvInit
<1>3. /\ sent \in Seq(Record)
      /\ \A i \in 1 .. Len(sent) :
          \E n \in Sizes \cup {0} :
              /\ sent[i].wire = WireEnd(i - 1) + n + Overhead
              /\ sent[i].text = TextEnd(i - 1) + n
  <2>1. CASE sent = <<>>
    BY <2>1
  <2>2. CASE \E n \in Sizes :
           sent = <<[wire |-> n + Overhead, text |-> n, close |-> FALSE]>>
    <3>1. PICK n \in Sizes :
             sent = <<[wire |-> n + Overhead, text |-> n, close |-> FALSE]>>
      BY <2>2
    <3>2. n \in Nat /\ Overhead \in Nat
      BY BufferAssumption
    <3>3. [wire |-> n + Overhead, text |-> n, close |-> FALSE] \in Record
      BY <3>2 DEF Record
    <3>4. /\ sent \in Seq(Record) /\ Len(sent) = 1
          /\ sent[1].wire = n + Overhead /\ sent[1].text = n
      BY <3>1, <3>3
    <3>5. ASSUME NEW i \in 1 .. Len(sent)
          PROVE  /\ sent[i].wire = WireEnd(i - 1) + n + Overhead
                 /\ sent[i].text = TextEnd(i - 1) + n
      <4>1. i = 1 /\ i - 1 = 0
        BY <3>4
      <4>2. WireEnd(i - 1) = 0 /\ TextEnd(i - 1) = 0
        BY <4>1 DEF WireEnd, TextEnd
      <4> QED BY <3>2, <3>4, <4>1, <4>2
    <3> QED BY <3>4, <3>5
  <2> QED BY <2>1, <2>2 DEF Init, RecvInit
<1>4. /\ Written \in Nat /\ WireEnd(0) = 0 /\ TextEnd(0) = 0
      /\ Len(sent) \in Nat /\ Cap \in Nat \ {0} /\ e \in 0 .. Cap
  <2>1. Written \in Nat
    BY <1>3, RecordEnds DEF Written
  <2> QED BY <1>1, <1>3, <2>1, BufferAssumption DEF WireEnd, TextEnd
<1>5. SentRecords
  BY <1>1, <1>2, <1>3, <1>4 DEF SentRecords
<1>6. TypeOK
  <2>1. readBuffer \in [Cells -> Nat]
    BY <1>1, <1>4
  <2>2. io \in [state : {"none", "posted", "done"},
               addr : 0 .. Cap, room : 0 .. Cap, bytes : 0 .. Cap]
    BY <1>2, <1>4 DEF NoIO
  <2>3. /\ readPtr \in 0 .. Cap /\ readBufferBytes \in 0 .. Cap
        /\ taken \in Nat /\ decoded \in Nat
    BY <1>1, <1>2, <1>4
  <2>4. RecvTypeOK
    BY <1>2, <1>3, <2>1, <2>2, <2>3 DEF RecvTypeOK
  <2> QED BY <1>2, <2>4 DEF TypeOK
<1>7. BufferAligned
  <2>1. io.bytes = 0 /\ readBufferBytes + io.bytes = e
        /\ readPtr + readBufferBytes + io.bytes <= Cap
    BY <1>1, <1>2, <1>4 DEF NoIO
  <2>2. taken = WireEnd(decoded) + readBufferBytes + io.bytes
    BY <1>1, <1>2, <1>4, <2>1
  <2>3. ASSUME NEW i \in 0 .. (readBufferBytes + io.bytes) - 1
        PROVE  /\ readPtr + i \in Cells
               /\ readBuffer[readPtr + i] = WireEnd(decoded) + 1 + i
    <3>1. readPtr + i = i /\ i \in Cells /\ 0 <= i /\ i < e
      BY <1>1, <1>4, <2>1
    <3>2. WireEnd(decoded) + 1 + i = 1 + i
      BY <1>2, <1>4, <3>1
    <3> QED BY <1>1, <3>1, <3>2
  <2> QED BY <2>1, <2>2, <2>3 DEF BufferAligned, Genuine
<1>8. IoBytes /\ PendingTarget /\ Waiting /\ NeverFailed
  BY <1>2 DEF IoBytes, PendingTarget, Waiting, NeverFailed, NoIO
<1>9. Accounted
  BY <1>2, <1>4 DEF Accounted
<1> QED BY <1>5, <1>6, <1>7, <1>8, <1>9 DEF IInv

\* Every step keeps the invariant.
LEMMA NextIInv == IInv /\ [Next]_vars => IInv'
<1> SUFFICES ASSUME IInv, [Next]_vars PROVE IInv'
  OBVIOUS
<1>1. CASE Network /\ UNCHANGED callVars
  BY <1>1, NetworkKeeps
<1>2. CASE RecvCached
  BY <1>2, CachedKeeps
<1>3. CASE RecvStart
  BY <1>3, StartKeeps
<1>4. CASE RecvLoop
  BY <1>4, LoopKeeps
<1>5. CASE RecvBytes
  BY <1>5, BytesKeeps
<1>6. CASE RecvFull \/ RecvError \/ RecvTimeout
  BY <1>6, FailedCallKeeps
<1>7. CASE UNCHANGED vars
  <2>1. UNCHANGED <<sent, reset, taken, io, decoded, context, readBuffer, readPtr,
                    readBufferBytes, pc, len, plainText, m_LastError, got>>
    BY <1>7 DEF vars, recvVars, callVars, bufferVars
  <2> QED BY <2>1
      DEF IInv, TypeOK, RecvTypeOK, SentRecords, IoBytes, BufferAligned,
          Genuine, PendingTarget, Waiting, NeedMore, Length, Upcoming,
          Accounted, NeverFailed, Written, WireEnd, TextEnd
<1> QED BY <1>1, <1>2, <1>3, <1>4, <1>5, <1>6, <1>7 DEF Next, Call
\* Whatever the sizes of the buffer, of the records and of the callers'
\* buffers, and however TCP cuts the ciphertext, the states of RecvPartial
\* satisfy the inductive invariant.
THEOREM Invariant == Spec => []IInv
BY InitIInv, NextIInv, PTL DEF Spec

\* The variables keep their types: in particular readPtr and readBufferBytes
\* stay inside readBuffer (SSLClient.cpp:173-226 and 294-316).
THEOREM TypeCorrect == Spec => []TypeOK
<1>1. IInv => TypeOK
  BY DEF IInv
<1> QED BY <1>1, Invariant, PTL

\* The buffered bytes are the ciphertext that follows the last record, also
\* after the partial record was moved down.
THEOREM Aligned == Spec => []BufferAligned
<1>1. IInv => BufferAligned
  BY DEF IInv
<1> QED BY <1>1, Invariant, PTL

\* An overlapped receive that outlives the call that posted it writes where
\* the next call will look for its bytes.
THEOREM PendingOnTarget == Spec => []PendingTarget
<1>1. IInv => PendingTarget
  BY DEF IInv
<1> QED BY <1>1, Invariant, PTL

\* Every decrypted byte is delivered or cached, once and in order.
THEOREM AllAccounted == Spec => []Accounted
<1>1. IInv => Accounted
  BY DEF IInv
<1> QED BY <1>1, Invariant, PTL

\* RecvPartial never breaks the session by decrypting bytes out of place.
THEOREM SessionKept == Spec => []NeverFailed
<1>1. IInv => NeverFailed
  BY DEF IInv
<1> QED BY <1>1, Invariant, PTL

\* A call that finds no room to read into (SSLClient.cpp:178-196) has the whole
\* buffer full of a record that is longer still.
LEMMA FullIsTooLong ==
    ASSUME IInv, pc = "loop", Full
    PROVE  TooLong
<1>1. /\ Cap \in Nat \ {0} /\ readBufferBytes \in Nat /\ readPtr \in Nat
      /\ NeedMore(readBufferBytes)
  <2>1. NeedMore(readBufferBytes)
    BY DEF IInv, Waiting
  <2> QED BY <2>1, Typed
<1>2. readBufferBytes = Cap
  BY <1>1 DEF Full, freeBytesAtEnd, freeBytesAtStart
<1>3. decoded < Len(sent) /\ Cap < Length(Upcoming)
  BY <1>1, <1>2 DEF NeedMore
<1> QED
  <2>1. decoded \in 0 .. Len(sent) /\ sent \in Seq(Record)
    BY Typed
  <2>2. decoded \in 0 .. Len(sent) /\ Upcoming \in 0 .. Len(sent)
        /\ Upcoming - 1 = decoded
    BY <1>3, <2>1 DEF Upcoming
  <2>3. WireEnd(decoded) \in Nat /\ WireEnd(Upcoming) \in Nat
    BY <2>1, <2>2, RecordEnds
  <2>4. Length(Upcoming) \in Int
    BY <2>2, <2>3 DEF Length
  <2> QED BY <1>1, <1>3, <2>4 DEF TooLong

\* The branch the source calls inexplicable is only ever taken for a record
\* longer than the whole buffer.
THEOREM FullOnlyWhenTooLong == Spec => []FullMeansTooLong
<1>1. IInv => FullMeansTooLong
  BY FullIsTooLong DEF FullMeansTooLong
<1> QED BY <1>1, Invariant, PTL

\* If a whole record fits the buffer, that branch (SSLClient.cpp:193-196) is
\* never taken: the ASSERT before it (line 181) holds.
THEOREM NeverInexplicablyFull ==
    ASSUME RecordFits
    PROVE  Spec => []NeverFull
<1>1. IInv => NeverFull
  <2> SUFFICES ASSUME IInv, pc = "loop", Full PROVE FALSE
    BY DEF NeverFull
  <2>1. decoded < Len(sent) /\ Length(Upcoming) > Cap
    BY FullIsTooLong DEF TooLong
  <2>2. /\ Cap \in Nat \ {0} /\ sent \in Seq(Record) /\ SentRecords
        /\ decoded \in 0 .. Len(sent)
    BY Typed DEF IInv
  <2>3. decoded \in 0 .. Len(sent) - 1
    BY <2>1, <2>2
  <2>4. Length(decoded + 1) <= Cap
    BY <2>2, <2>3, RecordGrows
  <2>5. Length(Upcoming) \in Int
    <3>1. decoded \in 0 .. Len(sent) /\ Upcoming \in 0 .. Len(sent)
          /\ Upcoming - 1 = decoded
      BY <2>2, <2>3 DEF Upcoming
    <3>2. WireEnd(decoded) \in Nat /\ WireEnd(Upcoming) \in Nat
      BY <2>2, <3>1, RecordEnds
    <3> QED BY <3>1, <3>2 DEF Length
  <2> QED BY <2>1, <2>2, <2>4, <2>5 DEF Upcoming
<1> QED BY <1>1, Invariant, PTL
-----------------------------------------------------------------------------
(* RecvPartial implements the byte stream.                                  *)

\* No record ends behind the last one.
TextGrows == \A i \in 1 .. Len(sent) : sent[i].text <= TextEnd(Len(sent))

\* What a step of the system does to the two ends of the stream.
LEMMA StepOfStream ==
    ASSUME IInv, [Next]_vars
    PROVE  \/ /\ got' = got
              /\ \E n \in Nat, c \in BOOLEAN : sent' = Append(sent, PeerRecord(n, c))
           \/ sent' = sent /\ Len(got') >= Len(got)
<1> USE DEF bufferVars, recvVars, callVars, peerVars
<1>0. /\ got \in Seq(Nat) /\ plainText \in Seq(Nat) /\ Accounted
      /\ Lens \subseteq Nat /\ 0 \in Nat /\ Sizes \subseteq Nat
      /\ Len(got) >= Len(got)
  BY LensAssumption, BufferAssumption DEF IInv, TypeOK
<1>1. CASE Network /\ UNCHANGED callVars
  <2>1. CASE PeerSend
    BY <1>0, <1>1, <2>1 DEF PeerSend
  <2>2. CASE PeerClose
    BY <1>0, <1>1, <2>2 DEF PeerClose
  <2>3. CASE ConnReset \/ KernelWrite \/ KernelEnd
    BY <1>0, <1>1, <2>3 DEF ConnReset, KernelWrite, KernelEnd
  <2> QED BY <1>1, <2>1, <2>2, <2>3 DEF Network
<1>2. CASE RecvCached
  <2>1. PICK n \in Lens : GiveSome(plainText, n)
    BY <1>2 DEF RecvCached
  <2>2. n \in Nat
    BY <1>0
  <2>3. Len(got') >= Len(got)
    BY <1>0, <2>1, <2>2, GiveSomeKeeps DEF Accounted
  <2> QED BY <1>2, <2>3 DEF RecvCached
<1>3. ASSUME NEW n \in Lens, NEW b, NEW error, TryDecrypt(n, b, error),
             plainText = <<>>, b \in Nat, b <= readBufferBytes + io.bytes
      PROVE  Len(got') >= Len(got)
  <2>1. CASE RecordDone(n, b, error)
    <3>1. Whole(b) /\ GiveSome(Text, n)
      BY <2>1 DEF RecordDone, Decrypts
    <3>2. /\ TextEnd(decoded) \in Nat /\ TextEnd(Upcoming) \in Nat
          /\ TextEnd(Upcoming) >= TextEnd(decoded)
      BY <1>3, <3>1, WholeRecord
    <3>3. Text \in Seq(Nat) /\ Len(Text) = TextEnd(Upcoming) - TextEnd(decoded)
      <4>1. TextEnd(Upcoming) - TextEnd(decoded) \in Nat
        BY <3>2
      <4>2. \A i \in 1 .. TextEnd(Upcoming) - TextEnd(decoded) :
               TextEnd(decoded) + i \in Nat
        BY <3>2
      <4> QED BY <4>1, <4>2 DEF Text
    <3>4. TextEnd(decoded) = Len(got)
      BY <1>0, <1>3 DEF Accounted
    <3>5. \A i \in 1 .. Len(Text) : Text[i] = Len(got) + i
      BY <3>2, <3>3, <3>4 DEF Text
    <3>6. n \in Nat
      BY <1>0
    <3> HIDE DEF Text
    <3> QED BY <1>0, <3>1, <3>3, <3>5, <3>6, GiveSomeKeeps DEF Accounted
  <2>2. CASE RecordMissing(n, b, error) \/ RecordRefused(b)
    BY <1>0, <2>2 DEF RecordMissing, RecordRefused
  <2> QED BY <1>3, <2>1, <2>2 DEF TryDecrypt
<1>4. CASE RecvStart
  <2>1. PICK n \in Lens :
          IF readBufferBytes = 0
          THEN UNCHANGED <<recvVars, got>>
          ELSE /\ TryDecrypt(n, readBufferBytes, m_LastError)
               /\ UNCHANGED <<sent, reset, taken, io>>
    BY <1>4 DEF RecvStart
  <2>2. /\ plainText = <<>> /\ readBufferBytes \in Nat
        /\ readBufferBytes <= readBufferBytes + io.bytes
    BY <1>4 DEF RecvStart, IInv, TypeOK, RecvTypeOK
  <2>3. CASE readBufferBytes = 0
    BY <1>0, <2>1, <2>3
  <2>4. CASE readBufferBytes # 0
    BY <1>3, <2>1, <2>2, <2>4
  <2> QED BY <2>3, <2>4
<1>5. CASE RecvBytes
  <2>1. /\ pc = "wait" /\ sent' = sent
        /\ TryDecrypt(len, readBufferBytes + io.bytes, "0")
    BY <1>5 DEF RecvBytes
  <2>2. len \in Lens /\ plainText = <<>>
    BY <2>1 DEF IInv, Waiting
  <2>3. /\ readBufferBytes + io.bytes \in Nat
        /\ readBufferBytes + io.bytes <= readBufferBytes + io.bytes
    BY DEF IInv, TypeOK, RecvTypeOK
  <2> QED BY <1>3, <2>1, <2>2, <2>3
<1>6. CASE RecvLoop \/ RecvFull \/ RecvError \/ RecvTimeout \/ UNCHANGED vars
  BY <1>0, <1>6 DEF RecvLoop, RecvFull, RecvError, RecvTimeout, vars
<1> QED BY <1>1, <1>2, <1>4, <1>5, <1>6 DEF Next, Call

\* No record ends beyond the last one, in plaintext.
LEMMA TextGrowsInductive ==
    /\ Init => TextGrows
    /\ IInv /\ TextGrows /\ [Next]_vars => TextGrows'
<1>1. ASSUME Init PROVE TextGrows
  <2>1. CASE sent = <<>>
    BY <2>1 DEF TextGrows
  <2>2. CASE \E n \in Sizes :
           sent = <<[wire |-> n + Overhead, text |-> n, close |-> FALSE]>>
    <3>1. PICK n \in Sizes :
             sent = <<[wire |-> n + Overhead, text |-> n, close |-> FALSE]>>
      BY <2>2
    <3>2. /\ Len(sent) = 1 /\ sent[1].text = n /\ n \in Nat
      BY <3>1, BufferAssumption
    <3> QED BY <3>2 DEF TextGrows, TextEnd
  <2> QED BY <1>1, <2>1, <2>2 DEF Init, RecvInit
<1>2. ASSUME IInv, TextGrows, [Next]_vars PROVE TextGrows'
  <2>1. CASE sent' = sent
    BY <1>2, <2>1 DEF TextGrows, TextEnd
  <2>2. CASE \E n \in Nat, c \in BOOLEAN : sent' = Append(sent, PeerRecord(n, c))
    <3>1. PICK n \in Nat, c \in BOOLEAN : sent' = Append(sent, PeerRecord(n, c))
      BY <2>2
    <3>2. sent \in Seq(Record) /\ Len(sent) \in Nat
      BY <1>2 DEF IInv, TypeOK, RecvTypeOK
    <3>3. TextEnd(Len(sent)) \in Nat
      BY <3>2, RecordEnds
    <3>4. /\ Len(sent') = Len(sent) + 1
          /\ \A i \in 1 .. Len(sent) : sent'[i] = sent[i]
          /\ sent'[Len(sent) + 1].text = TextEnd(Len(sent)) + n
      BY <3>1, <3>2, AppendProperties DEF PeerRecord
    <3>5. TextEnd(Len(sent))' = TextEnd(Len(sent)) + n
      BY <3>2, <3>4 DEF TextEnd
    <3>6. ASSUME NEW i \in 1 .. Len(sent')
          PROVE  sent'[i].text <= TextEnd(Len(sent)) + n
      <4>1. CASE i = Len(sent) + 1
        BY <3>3, <3>4, <4>1
      <4>2. CASE i # Len(sent) + 1
        <5>1. i \in 1 .. Len(sent) /\ sent'[i] = sent[i]
          BY <3>2, <3>4, <4>2
        <5>2. sent[i].text <= TextEnd(Len(sent))
          BY <1>2, <5>1 DEF TextGrows
        <5>3. sent[i].text \in Nat
          <6>1. sent[i] \in Record
            BY <3>2, <5>1
          <6> QED BY <6>1 DEF Record
        <5> QED BY <3>3, <5>1, <5>2, <5>3
      <4> QED BY <4>1, <4>2
    <3> QED BY <3>5, <3>6 DEF TextGrows
  <2> QED BY <1>2, <2>1, <2>2, StepOfStream
<1> QED BY <1>1, <1>2

\* Every step of RecvPartial, of the peer and of the network is a step of the
\* byte stream or leaves it alone: the caller receives the peer's bytes, in
\* order, none lost and none repeated.
THEOREM Implementation == Spec => ImplementsByteStream
<1> DEFINE Ends == <<TextEnd(Len(sent)), got>>
<1>1. Init => Stream!Init
  <2> SUFFICES ASSUME Init PROVE Stream!Init
    OBVIOUS
  <2>1. sent \in Seq(Record) /\ Len(sent) \in 0 .. Len(sent)
    BY InitIInv DEF IInv, TypeOK, RecvTypeOK
  <2>2. TextEnd(Len(sent)) \in Nat
    BY <2>1, RecordEnds
  <2> QED BY <2>2 DEF Stream!Init, Init
<1>2. IInv /\ IInv' /\ TextGrows' /\ [Next]_vars => [Stream!Next]_Ends
  <2> SUFFICES ASSUME IInv, IInv', TextGrows', [Next]_vars
               PROVE  [Stream!Next]_Ends
    OBVIOUS
  <2>1. /\ sent \in Seq(Record) /\ Len(sent) \in Nat
        /\ got' \in Seq(Nat) /\ plainText' \in Seq(Nat)
        /\ sent' \in Seq(Record) /\ decoded' \in 0 .. Len(sent')
    BY DEF IInv, TypeOK, RecvTypeOK, SentRecords
  <2>2. TextEnd(Len(sent)) \in Nat
    BY <2>1, RecordEnds
  <2>3. CASE /\ got' = got
             /\ \E n \in Nat, c \in BOOLEAN :
                   sent' = Append(sent, PeerRecord(n, c))
    <3>1. PICK n \in Nat, c \in BOOLEAN : sent' = Append(sent, PeerRecord(n, c))
      BY <2>3
    <3>2. /\ Len(sent') = Len(sent) + 1
          /\ sent'[Len(sent) + 1].text = TextEnd(Len(sent)) + n
      BY <2>1, <3>1, AppendProperties DEF PeerRecord
    <3>3. TextEnd(Len(sent))' = TextEnd(Len(sent)) + n
      BY <2>1, <3>2 DEF TextEnd
    <3>4. /\ TextEnd(Len(sent))' \in Nat
          /\ TextEnd(Len(sent))' >= TextEnd(Len(sent))
      BY <2>2, <3>3
    <3> QED BY <2>3, <3>4 DEF Stream!Next, Stream!Write
  <2>4. CASE sent' = sent /\ Len(got') >= Len(got)
    <3>1. TextEnd(Len(sent))' = TextEnd(Len(sent))
      BY <2>4 DEF TextEnd
    <3>2. Len(got') \in 0 .. TextEnd(Len(sent))
      <4>1. TextEnd(decoded)' = Len(got') + Len(plainText')
        BY DEF IInv, Accounted
      <4>2. TextEnd(decoded)' <= TextEnd(Len(sent))'
        <5>1. CASE decoded' = 0
          BY <2>2, <3>1, <5>1 DEF TextEnd
        <5>2. CASE decoded' # 0
          <6>1. decoded' \in 1 .. Len(sent')
            BY <2>1, <5>2
          <6>2. sent'[decoded'].text <= TextEnd(Len(sent))'
            BY <6>1 DEF TextGrows
          <6> QED BY <5>2, <6>2 DEF TextEnd
        <5> QED BY <5>1, <5>2
      <4>3. Len(got') \in Nat /\ Len(plainText') \in Nat
        BY <2>1
      <4> QED BY <2>2, <3>1, <4>1, <4>2, <4>3
    <3>3. got' = Stream!FirstBytes(Len(got'))
      <4>1. \A i \in 1 .. Len(got') : got'[i] = i
        BY DEF IInv, Accounted
      <4>2. got' = [i \in 1 .. Len(got') |-> got'[i]]
        BY <2>1
      <4> QED BY <4>1, <4>2 DEF Stream!FirstBytes
    <3> QED BY <2>4, <3>1, <3>2, <3>3 DEF Stream!Next, Stream!Read
  <2> QED BY <2>3, <2>4, StepOfStream
<1>3. Spec => []TextGrows
  BY Invariant, TextGrowsInductive, PTL DEF Spec
<1> QED
  BY <1>1, <1>2, <1>3, Invariant, PTL DEF Spec, ImplementsByteStream, Stream!Spec
=============================================================================

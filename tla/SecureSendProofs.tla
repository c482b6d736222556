-------------------------- MODULE SecureSendProofs --------------------------
(***************************************************************************)
(* That records reach the wire whole and in order, for messages and        *)
(* buffers of every size, however the socket divides a record and whatever *)
(* of it is still with the kernel when a call returns.                     *)
(***************************************************************************)
EXTENDS SecureSend, SequenceTheorems, TLAPS

-----------------------------------------------------------------------------
(* The inductive invariant.                                                 *)

Sends == [at : Nat, left : Nat, sent : Nat]

\* Every send reads inside writeBuffer to its end.
SendsInBuffer ==
    /\ ops \in Seq(Sends)
    /\ \A i \in 1 .. Len(ops) :
           ops[i].at + ops[i].left <= MaxMsgSize + MaxExtraSize

\* What a call knows of its record: how much of it has gone, and that the
\* youngest of the kernel's sends is the rest of it until that completes.
CallState ==
    /\ pc = "idle" => len = 0 /\ gone = 0 /\ done = 0
    /\ pc = "encrypt" => gone = 0 /\ done = 0 /\ encrypted + RecordLength <= MaxBytes
    /\ pc = "send" => gone < RecordLength /\ done = 0
    /\ pc \in {"send", "wait"} => RecordLength <= encrypted
    /\ pc = "wait" /\ done > 0 => ops = <<>> /\ gone + done <= RecordLength
    /\ pc = "wait" /\ done = 0 =>
           /\ ops # <<>>
           /\ ops[Len(ops)].at = gone + ops[Len(ops)].sent
           /\ ops[Len(ops)].at + ops[Len(ops)].left = RecordLength
    /\ pc # "idle" => len <= MaxMsgSize

\* Only a message after a failure is sent on a broken session, and as long as
\* there is none the kernel has one send at most.
OneSend ==
    /\ pressed => broken
    /\ ~pressed =>
           /\ broken => pc = "idle"
           /\ Len(ops) <= 1
           /\ pc \in {"encrypt", "send"} => ops = <<>>
           /\ pc = "idle" /\ ~broken => ops = <<>>

\* The record of the call is in writeBuffer from when it is encrypted.
RecordInBuffer ==
    ~pressed /\ pc \in {"send", "wait"} =>
        \A k \in 0 .. RecordLength - 1 :
            writeBuffer[k] = encrypted - RecordLength + 1 + k

\* How far the wire has come in what was encrypted.
WireLength ==
    ~pressed =>
        /\ pc \in {"idle", "encrypt"} /\ ~broken => Len(wire) = encrypted
        /\ pc = "send" => Len(wire) = encrypted - RecordLength + gone
        /\ pc = "wait" =>
               Len(wire) = encrypted - RecordLength
                               + (IF done > 0 THEN gone + done ELSE ops[1].at)

\* What the kernel has yet to send is what the wire waits for, also when the
\* call has long returned.
RestInBuffer ==
    ~pressed /\ ops # <<>> =>
        \A k \in 0 .. ops[1].left - 1 : writeBuffer[ops[1].at + k] = Len(wire) + 1 + k

IInv ==
    /\ TypeOK
    /\ SendsInBuffer
    /\ CallState
    /\ OneSend
    /\ RecordInBuffer
    /\ WireLength
    /\ RestInBuffer
    /\ WireGenuine

-----------------------------------------------------------------------------
(* Facts about the model's operators.                                       *)

\* Put changes the cells it is given and no other.
LEMMA PutBytes ==
    ASSUME writeBuffer \in [Cells -> 0 .. MaxBytes],
           NEW d \in SUBSET Cells, NEW bytes \in [d -> 0 .. MaxBytes]
    PROVE  /\ Put(bytes) \in [Cells -> 0 .. MaxBytes]
           /\ \A k \in d : Put(bytes)[k] = bytes[k]
<1>1. DOMAIN bytes = d /\ Cells \cup DOMAIN bytes = Cells
  OBVIOUS
<1> QED BY <1>1 DEF Put

\* A record fits in writeBuffer.
LEMMA RecordFits ==
    ASSUME len \in Nat, len <= MaxMsgSize
    PROVE  /\ RecordLength \in Nat \ {0}
           /\ RecordLength <= MaxMsgSize + MaxExtraSize
           /\ 0 .. RecordLength - 1 \subseteq Cells
           /\ 1 .. len \subseteq Cells
BY SendAssumption DEF RecordLength, Cells

\* Adding a send to the kernel's.
LEMMA AppendSend ==
    ASSUME NEW s \in Seq(Sends), NEW o \in Sends
    PROVE  /\ Append(s, o) \in Seq(Sends)
           /\ Append(s, o) # <<>>
           /\ Len(Append(s, o)) = Len(s) + 1
           /\ \A i \in 1 .. Len(s) : Append(s, o)[i] = s[i]
           /\ Append(s, o)[Len(s) + 1] = o
OBVIOUS

\* A send with bytes left reads next inside writeBuffer.
LEMMA SendsRead ==
    ASSUME NEW s \in Seq(Sends),
           \A i \in 1 .. Len(s) : s[i].at + s[i].left <= MaxMsgSize + MaxExtraSize
    PROVE  \A i \in DOMAIN s : s[i].left > 0 => s[i].at \in Cells
<1> SUFFICES ASSUME NEW i \in DOMAIN s, s[i].left > 0 PROVE s[i].at \in Cells
  OBVIOUS
<1>1. s[i] \in Sends /\ i \in 1 .. Len(s)
  OBVIOUS
<1>2. s[i].at \in Nat /\ s[i].left \in Nat
  BY <1>1 DEF Sends
<1> QED BY <1>1, <1>2, SendAssumption DEF Cells

\* Types in the form the steps use.
Typed ==
    /\ len \in Nat /\ gone \in Nat /\ done \in Nat /\ encrypted \in Nat
    /\ MaxBytes \in Nat /\ MaxMsgSize \in Nat /\ MaxExtraSize \in Nat
    /\ RecordLength \in Nat \ {0}
    /\ Len(ops) \in Nat /\ DOMAIN ops = 1 .. Len(ops)
    /\ Len(wire) \in Nat /\ DOMAIN wire = 1 .. Len(wire)
    /\ ops # <<>> <=> Len(ops) >= 1
    /\ \A i \in 1 .. Len(ops) :
           ops[i].at \in Nat /\ ops[i].left \in Nat /\ ops[i].sent \in Nat

LEMMA Types ==
    ASSUME IInv
    PROVE  Typed
<1>1. /\ len \in Nat /\ gone \in Nat /\ done \in Nat /\ encrypted \in Nat
      /\ MaxBytes \in Nat /\ MaxMsgSize \in Nat /\ MaxExtraSize \in Nat
  BY SendAssumption DEF IInv, TypeOK
<1>2. RecordLength \in Nat \ {0}
  BY <1>1, SendAssumption DEF RecordLength
<1>3. Len(wire) \in Nat /\ DOMAIN wire = 1 .. Len(wire)
  BY DEF IInv, TypeOK
<1>4. ops \in Seq(Sends)
  BY DEF IInv, SendsInBuffer
<1>5. /\ Len(ops) \in Nat /\ DOMAIN ops = 1 .. Len(ops)
      /\ ops # <<>> <=> Len(ops) >= 1
  BY <1>4
<1>6. \A i \in 1 .. Len(ops) : ops[i] \in Sends
  BY <1>4
<1> QED BY <1>1, <1>2, <1>3, <1>5, <1>6 DEF Sends, Typed

LEMMA InitIInv == Init => IInv
<1> SUFFICES ASSUME Init PROVE IInv
  OBVIOUS
<1> USE SendAssumption DEF Init
<1>1. TypeOK
  <2>1. writeBuffer \in [Cells -> 0 .. MaxBytes]
    OBVIOUS
  <2>2. wire \in Seq(0 .. MaxBytes) /\ DOMAIN ops = {}
    OBVIOUS
  <2>3. 0 \in 0 .. MaxBytes
    OBVIOUS
  <2> QED BY <2>1, <2>2, <2>3 DEF TypeOK
<1>2. SendsInBuffer /\ OneSend /\ WireGenuine
  BY DEF SendsInBuffer, OneSend, WireGenuine
<1>3. CallState /\ RecordInBuffer /\ WireLength /\ RestInBuffer
  BY DEF CallState, RecordInBuffer, WireLength, RestInBuffer
<1> QED BY <1>1, <1>2, <1>3 DEF IInv

-----------------------------------------------------------------------------
(* The steps of a call.                                                     *)

LEMMA CopyStep ==
    ASSUME IInv, NEW n \in Lengths, Copy(n)
    PROVE  IInv'
<1>0. Typed
  BY Types
<1> USE SendAssumption, <1>0 DEF Typed, Copy, callVars, netVars
<1>1. n \in Nat /\ n <= MaxMsgSize /\ 1 .. n \subseteq Cells
  BY DEF Accepted, Cells
<1>2. writeBuffer' \in [Cells -> 0 .. MaxBytes]
  <2>1. [k \in 1 .. n |-> 0] \in [1 .. n -> 0 .. MaxBytes]
    OBVIOUS
  <2> QED BY <1>1, <2>1, PutBytes DEF IInv, TypeOK
<1>3. TypeOK'
  BY <1>2 DEF IInv, TypeOK
<1>4. SendsInBuffer' /\ CallState'
  BY <1>1 DEF IInv, SendsInBuffer, CallState, RecordLength
<1>5. OneSend' /\ RecordInBuffer' /\ WireLength'
  BY DEF IInv, OneSend, RecordInBuffer, WireLength
<1>6. RestInBuffer' /\ WireGenuine'
  BY DEF IInv, OneSend, RestInBuffer, WireGenuine
<1> QED BY <1>3, <1>4, <1>5, <1>6 DEF IInv

LEMMA EncryptStep ==
    ASSUME IInv, Encrypt
    PROVE  IInv'
<1>0. Typed
  BY Types
<1> USE SendAssumption, <1>0 DEF Typed, Encrypt, callVars, netVars
<1> DEFINE record == [k \in 0 .. RecordLength - 1 |-> encrypted + 1 + k]
<1>1. /\ len <= MaxMsgSize /\ encrypted + RecordLength <= MaxBytes
      /\ 0 .. RecordLength - 1 \subseteq Cells
  BY RecordFits DEF IInv, CallState
<1>2. record \in [0 .. RecordLength - 1 -> 0 .. MaxBytes]
  BY <1>1
<1>3. /\ writeBuffer' \in [Cells -> 0 .. MaxBytes]
      /\ \A k \in 0 .. RecordLength - 1 : writeBuffer'[k] = encrypted + 1 + k
  <2>1. writeBuffer' = Put(record)
    OBVIOUS
  <2>2. /\ Put(record) \in [Cells -> 0 .. MaxBytes]
        /\ \A k \in 0 .. RecordLength - 1 : Put(record)[k] = record[k]
    <3> HIDE DEF record
    <3>1. 0 .. RecordLength - 1 \in SUBSET Cells
      BY <1>1
    <3>2. writeBuffer \in [Cells -> 0 .. MaxBytes]
      BY DEF IInv, TypeOK
    <3> QED BY <1>2, <3>1, <3>2, PutBytes
  <2> QED BY <2>1, <2>2
<1>4. RecordLength' = RecordLength
  BY DEF RecordLength
<1>5. TypeOK'
  BY <1>1, <1>3 DEF IInv, TypeOK
<1>6. SendsInBuffer' /\ CallState'
  BY <1>1, <1>4 DEF IInv, SendsInBuffer, CallState
<1>7. OneSend' /\ WireLength'
  <2>1. pc = "encrypt" /\ pc' = "send" /\ gone = 0 /\ (~pressed => ~broken)
    BY DEF IInv, CallState, OneSend
  <2>2. ~pressed => Len(wire) = encrypted
    BY <2>1 DEF IInv, WireLength
  <2>3. encrypted' - RecordLength' + gone' = encrypted
    BY <1>4, <2>1
  <2>4. WireLength'
    BY <2>1, <2>2, <2>3 DEF WireLength
  <2> QED BY <2>1, <2>4 DEF IInv, OneSend
<1>9. RecordInBuffer'
  <2>1. encrypted' - RecordLength' = encrypted
    BY <1>4
  <2> QED BY <1>3, <1>4, <2>1 DEF RecordInBuffer
<1>8. RestInBuffer' /\ WireGenuine'
  BY DEF IInv, OneSend, RestInBuffer, WireGenuine
<1> QED BY <1>5, <1>6, <1>7, <1>8, <1>9 DEF IInv

\* A call that returns leaves its send, if it has one, to the kernel.
LEMMA EncryptFailsStep ==
    ASSUME IInv, EncryptFails
    PROVE  IInv'
<1>0. Typed
  BY Types
<1> USE SendAssumption, <1>0 DEF Typed, EncryptFails, Return, netVars
<1>1. TypeOK' /\ SendsInBuffer' /\ CallState'
  BY DEF IInv, TypeOK, SendsInBuffer, CallState
<1>2. OneSend' /\ RecordInBuffer' /\ WireLength'
  BY DEF IInv, OneSend, RecordInBuffer, WireLength
<1>3. RestInBuffer' /\ WireGenuine'
  BY DEF IInv, RestInBuffer, WireGenuine
<1> QED BY <1>1, <1>2, <1>3 DEF IInv

LEMMA SocketSendStep ==
    ASSUME IInv, SocketSend
    PROVE  IInv'
<1>0. Typed
  BY Types
<1> USE SendAssumption, <1>0 DEF Typed, SocketSend
<1> DEFINE send == [at |-> gone, left |-> RecordLength - gone, sent |-> 0]
<1>1. /\ gone < RecordLength /\ done = 0 /\ len <= MaxMsgSize
      /\ RecordLength <= MaxMsgSize + MaxExtraSize
      /\ RecordLength' = RecordLength
  BY RecordFits DEF IInv, CallState, RecordLength
<1>2. send \in Sends
  BY <1>1 DEF Sends
<1>3. /\ ops' \in Seq(Sends) /\ ops' # <<>> /\ Len(ops') = Len(ops) + 1
      /\ \A i \in 1 .. Len(ops) : ops'[i] = ops[i]
      /\ ops'[Len(ops')] = send
  BY <1>2, AppendSend DEF IInv, SendsInBuffer
<1>4. SendsInBuffer'
  BY <1>1, <1>3 DEF IInv, SendsInBuffer
<1>5. TypeOK'
  <2>1. \A i \in DOMAIN ops' : ops'[i].left > 0 => ops'[i].at \in Cells
    BY <1>4, SendsRead DEF SendsInBuffer
  <2> QED BY <2>1 DEF IInv, TypeOK
<1>6. CallState'
  BY <1>1, <1>3 DEF IInv, CallState
<1>7. OneSend' /\ RecordInBuffer' /\ WireLength'
  BY <1>1, <1>3 DEF IInv, OneSend, RecordInBuffer, WireLength
<1>8. RestInBuffer' /\ WireGenuine'
  <2>1. ~pressed => ops'[1].at = gone /\ ops'[1].left = RecordLength - gone
    BY <1>1, <1>3 DEF IInv, OneSend
  <2>2. ~pressed => Len(wire) = encrypted - RecordLength + gone
    BY DEF IInv, WireLength
  <2>3. ASSUME ~pressed, NEW k \in 0 .. RecordLength - gone - 1
        PROVE  writeBuffer[gone + k] = Len(wire) + 1 + k
    <3>1. gone + k \in 0 .. RecordLength - 1
      BY <1>1
    <3>2. writeBuffer[gone + k] = encrypted - RecordLength + 1 + (gone + k)
      BY <2>3, <3>1 DEF IInv, RecordInBuffer
    <3> QED BY <2>2, <2>3, <3>2
  <2>4. RestInBuffer'
    BY <2>1, <2>3 DEF RestInBuffer
  <2> QED BY <2>4 DEF IInv, WireGenuine
<1> QED BY <1>4, <1>5, <1>6, <1>7, <1>8 DEF IInv

LEMMA SocketFailsStep ==
    ASSUME IInv, SocketFails
    PROVE  IInv'
<1>0. Typed
  BY Types
<1> USE SendAssumption, <1>0 DEF Typed, SocketFails, Return, netVars
<1>1. TypeOK' /\ SendsInBuffer' /\ CallState'
  BY DEF IInv, TypeOK, SendsInBuffer, CallState
<1>2. OneSend' /\ RecordInBuffer' /\ WireLength'
  BY DEF IInv, OneSend, RecordInBuffer, WireLength
<1>3. RestInBuffer' /\ WireGenuine'
  BY DEF IInv, RestInBuffer, WireGenuine
<1> QED BY <1>1, <1>2, <1>3 DEF IInv

\* The part that has gone is the whole record, or the rest is sent next.
LEMMA SocketDoneStep ==
    ASSUME IInv, SocketDone
    PROVE  IInv'
<1>0. Typed
  BY Types
<1> USE SendAssumption, <1>0 DEF Typed, SocketDone, Return, netVars
<1>1. /\ pc = "wait" /\ done > 0 /\ ops = <<>> /\ gone + done <= RecordLength
      /\ RecordLength <= encrypted
  BY DEF IInv, CallState
<1>2. CASE Enough(gone + done)
  <2>1. TypeOK' /\ SendsInBuffer' /\ CallState'
    BY <1>1, <1>2 DEF IInv, TypeOK, SendsInBuffer, CallState
  <2>2. gone + done < RecordLength => broken'
    <3> SUFFICES ASSUME gone + done < RecordLength PROVE broken'
      OBVIOUS
    <3>1. side = "server"
      BY <1>2 DEF Enough
    <3>2. broken' = (broken \/ (side = "server" /\ gone + done < RecordLength))
      BY <1>2
    <3> QED BY <3>1, <3>2
  <2>3. OneSend' /\ RecordInBuffer'
    BY <1>1, <1>2 DEF IInv, OneSend, RecordInBuffer
  <2>4. WireLength'
    BY <1>1, <1>2, <2>2 DEF IInv, OneSend, WireLength
  <2>5. RestInBuffer' /\ WireGenuine'
    BY <1>1, <1>2 DEF IInv, RestInBuffer, WireGenuine
  <2> QED BY <2>1, <2>3, <2>4, <2>5 DEF IInv
<1>3. CASE ~Enough(gone + done)
  <2>1. gone + done < RecordLength /\ RecordLength' = RecordLength
    BY <1>1, <1>3 DEF Enough, RecordLength
  <2>2. TypeOK' /\ SendsInBuffer'
    BY <1>1, <1>3, <2>1 DEF IInv, TypeOK, SendsInBuffer
  <2>3. CallState'
    BY <1>1, <1>3, <2>1 DEF IInv, CallState
  <2>4. OneSend' /\ RecordInBuffer' /\ WireLength'
    BY <1>1, <1>3, <2>1 DEF IInv, OneSend, RecordInBuffer, WireLength
  <2>5. RestInBuffer' /\ WireGenuine'
    BY <1>1, <1>3 DEF IInv, RestInBuffer, WireGenuine
  <2> QED BY <2>2, <2>3, <2>4, <2>5 DEF IInv
<1> QED BY <1>2, <1>3

LEMMA GiveUpStep ==
    ASSUME IInv, GiveUp
    PROVE  IInv'
<1>0. Typed
  BY Types
<1> USE SendAssumption, <1>0 DEF Typed, GiveUp, Return, netVars
<1>1. TypeOK' /\ SendsInBuffer' /\ CallState'
  BY DEF IInv, TypeOK, SendsInBuffer, CallState
<1>2. OneSend' /\ RecordInBuffer' /\ WireLength'
  BY DEF IInv, OneSend, RecordInBuffer, WireLength
<1>3. RestInBuffer' /\ WireGenuine'
  BY DEF IInv, RestInBuffer, WireGenuine
<1> QED BY <1>1, <1>2, <1>3 DEF IInv

-----------------------------------------------------------------------------
(* The kernel.                                                              *)

\* The byte the kernel takes is the next one of the wire: the record is still
\* in the buffer, unless a message was sent on a broken session.
LEMMA KernelSendsStep ==
    ASSUME IInv, KernelSends
    PROVE  IInv'
<1>0. Typed
  BY Types
<1> USE SendAssumption, <1>0 DEF Typed, KernelSends, callVars
<1> DEFINE byte == writeBuffer[ops[1].at]
           moved == [at |-> ops[1].at + 1, left |-> ops[1].left - 1,
                     sent |-> ops[1].sent + 1]
<1>1. /\ Len(ops) >= 1 /\ ops[1] \in Sends /\ ops[1].left > 0
      /\ ops[1].at \in Nat /\ ops[1].left \in Nat /\ ops[1].sent \in Nat
      /\ ops[1].at + ops[1].left <= MaxMsgSize + MaxExtraSize
      /\ RecordLength' = RecordLength
  <2>1. /\ Len(ops) >= 1 /\ ops[1] \in Sends /\ ops[1].left > 0
        /\ ops[1].at + ops[1].left <= MaxMsgSize + MaxExtraSize
        /\ RecordLength' = RecordLength
    BY DEF IInv, SendsInBuffer, RecordLength
  <2>2. 1 \in 1 .. Len(ops)
    BY <2>1
  <2>3. ops[1].at \in Nat /\ ops[1].left \in Nat /\ ops[1].sent \in Nat
    BY <2>2
  <2> QED BY <2>1, <2>3
<1>2. moved \in Sends
  BY <1>1 DEF Sends
<1>3. /\ ops' \in Seq(Sends) /\ Len(ops') = Len(ops) /\ ops' # <<>>
      /\ ops'[1].at = ops[1].at + 1 /\ ops'[1].left = ops[1].left - 1
      /\ ops'[1].sent = ops[1].sent + 1
      /\ \A i \in 2 .. Len(ops) : ops'[i] = ops[i]
  <2>1. /\ ops' \in Seq(Sends) /\ Len(ops') = Len(ops) /\ ops'[1] = moved
        /\ \A i \in 2 .. Len(ops) : ops'[i] = ops[i]
    BY <1>1, <1>2 DEF IInv, SendsInBuffer
  <2> QED BY <1>1, <2>1
<1>4. /\ byte \in 0 .. MaxBytes /\ wire' \in Seq(0 .. MaxBytes)
      /\ Len(wire') = Len(wire) + 1 /\ wire'[Len(wire) + 1] = byte
      /\ DOMAIN wire' = 1 .. Len(wire) + 1
      /\ \A i \in 1 .. Len(wire) : wire'[i] = wire[i]
  <2>1. byte \in 0 .. MaxBytes
    BY <1>1 DEF IInv, TypeOK, Sends, Cells
  <2>2. wire \in Seq(0 .. MaxBytes) /\ wire' = Append(wire, byte)
    BY DEF IInv, TypeOK
  <2> QED BY <2>1, <2>2
<1>u. UNCHANGED <<side, pc, len, gone, done, writeBuffer, encrypted, up, broken, pressed>>
  OBVIOUS
<1> HIDE DEF KernelSends
<1>5. SendsInBuffer'
  <2>1. \A i \in 1 .. Len(ops) :
            ops'[i].at + ops'[i].left <= MaxMsgSize + MaxExtraSize
    <3> TAKE i \in 1 .. Len(ops)
    <3>1. ops[i].at + ops[i].left <= MaxMsgSize + MaxExtraSize
      BY DEF IInv, SendsInBuffer
    <3>2. CASE i = 1
      BY <1>1, <1>3, <3>2
    <3>3. CASE i # 1
      BY <1>3, <3>1, <3>3
    <3> QED BY <3>2, <3>3
  <2> QED BY <1>3, <2>1 DEF SendsInBuffer
<1>6. TypeOK'
  <2>1. \A i \in DOMAIN ops' : ops'[i].left > 0 => ops'[i].at \in Cells
    BY <1>5, SendsRead DEF SendsInBuffer
  <2> QED BY <1>u, <1>4, <2>1 DEF IInv, TypeOK
<1>7. CallState'
  <2>1. /\ ops'[Len(ops')].at - ops'[Len(ops')].sent
              = ops[Len(ops)].at - ops[Len(ops)].sent
        /\ ops'[Len(ops')].at + ops'[Len(ops')].left
              = ops[Len(ops)].at + ops[Len(ops)].left
        /\ ops'[Len(ops')].at \in Nat /\ ops'[Len(ops')].sent \in Nat
    <3>1. CASE Len(ops) = 1
      <4>1. ops[Len(ops)] = ops[1] /\ ops'[Len(ops')] = ops'[1]
        BY <1>3, <3>1
      <4>2. /\ ops'[1].at \in Nat /\ ops'[1].sent \in Nat
            /\ ops'[1].at - ops'[1].sent = ops[1].at - ops[1].sent
            /\ ops'[1].at + ops'[1].left = ops[1].at + ops[1].left
        <5> DEFINE at == ops[1].at         left == ops[1].left    sent == ops[1].sent
                   newAt == ops'[1].at     newLeft == ops'[1].left
                   newSent == ops'[1].sent
        <5>1. /\ at \in Nat /\ left \in Nat /\ sent \in Nat
              /\ newAt = at + 1 /\ newLeft = left - 1 /\ newSent = sent + 1
          BY <1>1, <1>3
        <5> HIDE DEF at, left, sent, newAt, newLeft, newSent
        <5>2. /\ newAt \in Nat /\ newSent \in Nat
              /\ newAt - newSent = at - sent /\ newAt + newLeft = at + left
          BY <5>1
        <5> QED BY <5>2 DEF at, left, sent, newAt, newLeft, newSent
      <4> QED BY <4>1, <4>2
    <3>2. CASE Len(ops) > 1
      BY <1>3, <3>2
    <3> QED BY <1>1, <3>1, <3>2
  <2>2. ops[Len(ops)].at \in Nat /\ ops[Len(ops)].sent \in Nat
    BY <1>1
  <2>3. pc = "wait" /\ done = 0 =>
            /\ ops'[Len(ops')].at = gone + ops'[Len(ops')].sent
            /\ ops'[Len(ops')].at + ops'[Len(ops')].left = RecordLength
    <3>1. pc = "wait" /\ done = 0 =>
              /\ ops[Len(ops)].at = gone + ops[Len(ops)].sent
              /\ ops[Len(ops)].at + ops[Len(ops)].left = RecordLength
      BY DEF IInv, CallState
    <3>2. gone \in Nat
      BY DEF IInv, TypeOK
    <3> DEFINE at == ops[Len(ops)].at         sent == ops[Len(ops)].sent
               newAt == ops'[Len(ops')].at    newSent == ops'[Len(ops')].sent
    <3>3. ASSUME at = gone + sent PROVE newAt = gone + newSent
      <4>1. /\ at \in Nat /\ sent \in Nat /\ newAt \in Nat /\ newSent \in Nat
            /\ newAt - newSent = at - sent
        BY <2>1, <2>2
      <4> HIDE DEF at, sent, newAt, newSent
      <4> QED BY <3>2, <3>3, <4>1
    <3> QED BY <2>1, <3>1, <3>3
  <2>4. pc = "wait" => done = 0
    BY <1>1 DEF IInv, CallState
  <2> QED BY <1>u, <1>1, <1>3, <2>3, <2>4 DEF IInv, CallState
<1>8. OneSend' /\ RecordInBuffer'
  BY <1>u, <1>1, <1>3 DEF IInv, OneSend, RecordInBuffer
<1>9. ASSUME ~pressed
      PROVE  /\ ops' # <<>> /\ pc \in {"idle", "wait"} /\ (pc = "idle" => broken)
             /\ pc = "wait" => done = 0
  BY <1>u, <1>1, <1>3, <1>9 DEF IInv, TypeOK, OneSend, CallState
<1>10. WireLength'
  <2> SUFFICES ASSUME ~pressed, pc = "wait"
               PROVE  Len(wire') = encrypted - RecordLength + ops'[1].at
    BY <1>u, <1>1, <1>9 DEF WireLength
  <2>1. Len(wire) = encrypted - RecordLength + ops[1].at
    BY <1>9 DEF IInv, WireLength
  <2> QED BY <1>1, <1>3, <1>4, <2>1
<1>11. ASSUME ~pressed
       PROVE  \A k \in 0 .. ops[1].left - 1 :
                  writeBuffer[ops[1].at + k] = Len(wire) + 1 + k
  BY <1>u, <1>1, <1>11 DEF IInv, RestInBuffer
<1>12. ASSUME ~pressed, NEW k \in 0 .. ops'[1].left - 1
       PROVE  writeBuffer[ops'[1].at + k] = Len(wire') + 1 + k
  <2>1. k \in 0 .. (ops[1].left - 1) - 1
    BY <1>3
  <2>2. k + 1 \in 0 .. ops[1].left - 1
    BY <1>1, <2>1
  <2>3. ops'[1].at + k = ops[1].at + (k + 1)
    <3>1. ASSUME NEW a \in Nat PROVE (a + 1) + k = a + (k + 1)
      BY <2>1
    <3> QED BY <1>1, <1>3, <3>1
  <2> QED BY <1>11, <1>12, <1>u, <1>4, <2>2, <2>3
<1>13. RestInBuffer'
  BY <1>u, <1>12 DEF RestInBuffer
<1>14. ~pressed => byte = Len(wire) + 1
  BY <1>1, <1>11
<1>15. WireGenuine'
  BY <1>u, <1>4, <1>14 DEF IInv, WireGenuine
<1> QED BY <1>5, <1>6, <1>7, <1>8, <1>10, <1>13, <1>15 DEF IInv

LEMMA KernelCompletesStep ==
    ASSUME IInv, KernelCompletes
    PROVE  IInv'
<1>0. Typed
  BY Types
<1> USE SendAssumption, <1>0 DEF Typed, KernelCompletes
<1>1. /\ Len(ops) >= 1 /\ RecordLength' = RecordLength
      /\ pc = "wait" /\ Len(ops) = 1 => ops[1].sent > 0
  BY DEF RecordLength
<1>2. /\ ops' \in Seq(Sends) /\ Len(ops') = Len(ops) - 1
      /\ \A i \in 1 .. Len(ops') : ops'[i] = ops[i + 1]
  BY <1>1, HeadTailProperties DEF IInv, SendsInBuffer
<1>u. /\ UNCHANGED <<side, pc, len, gone, writeBuffer, encrypted, wire, up, broken, pressed>>
      /\ done' = IF pc = "wait" /\ Len(ops) = 1 THEN ops[1].sent ELSE done
  OBVIOUS
<1> HIDE DEF KernelCompletes
<1>3. SendsInBuffer'
  BY <1>1, <1>2 DEF IInv, SendsInBuffer
<1>4. pc = "wait" => done = 0
  BY <1>1 DEF IInv, CallState
<1>5. CallState'
  <2>1. CASE Len(ops) = 1
    <3>1. ops' = <<>>
      BY <1>2, <2>1
    <3> QED BY <1>u, <1>1, <1>4, <2>1, <3>1 DEF IInv, CallState
  <2>2. CASE Len(ops) > 1
    <3>1. ops' # <<>> /\ ops'[Len(ops')] = ops[Len(ops)]
      <4>1. Len(ops') \in 1 .. Len(ops')
        BY <1>2, <2>2
      <4> QED BY <1>2, <2>2, <4>1
    <3>2. done' = done /\ CallState
      BY <1>u, <2>2 DEF IInv
    <3> QED BY <1>u, <1>1, <1>4, <2>2, <3>1, <3>2 DEF CallState
  <2> QED BY <1>1, <2>1, <2>2
<1>6. TypeOK'
  <2>1. \A i \in DOMAIN ops' : ops'[i].left > 0 => ops'[i].at \in Cells
    BY <1>3, SendsRead DEF SendsInBuffer
  <2>2. done' \in 0 .. MaxBytes
    <3>1. CASE pc = "wait" /\ Len(ops) = 1
      <4>1. ops[1].sent <= RecordLength
        BY <1>1, <1>4, <3>1 DEF IInv, CallState
      <4>2. RecordLength <= encrypted /\ encrypted <= MaxBytes
        BY <3>1 DEF IInv, TypeOK, CallState
      <4> QED BY <1>u, <1>1, <3>1, <4>1, <4>2
    <3>2. CASE ~(pc = "wait" /\ Len(ops) = 1)
      BY <1>u, <3>2 DEF IInv, TypeOK
    <3> QED BY <3>1, <3>2
  <2> QED BY <1>u, <2>1, <2>2 DEF IInv, TypeOK
<1>7. ~pressed => Len(ops) = 1 /\ ops' = <<>>
  BY <1>1, <1>2 DEF IInv, OneSend
<1>8. OneSend' /\ RecordInBuffer' /\ RestInBuffer' /\ WireGenuine'
  BY <1>u, <1>1, <1>7 DEF IInv, OneSend, RecordInBuffer, RestInBuffer, WireGenuine
<1>9. WireLength'
  BY <1>u, <1>1, <1>4, <1>7 DEF IInv, OneSend, CallState, WireLength
<1> QED BY <1>3, <1>5, <1>6, <1>8, <1>9 DEF IInv

LEMMA SocketClosedStep ==
    ASSUME IInv, SocketClosed
    PROVE  IInv'
<1>0. Typed
  BY Types
<1>1. /\ pc = "wait" /\ Len(ops) = 1 /\ ops' = <<>>
      /\ pc' = "idle" /\ len' = 0 /\ gone' = 0 /\ done' = 0 /\ broken' = TRUE
      /\ UNCHANGED <<side, writeBuffer, encrypted, wire, up, pressed>>
  BY DEF SocketClosed, Return
<1>2. TypeOK'
  BY <1>1, SendAssumption DEF IInv, TypeOK
<1>3. SendsInBuffer' /\ CallState'
  BY <1>1 DEF SendsInBuffer, CallState
<1>4. OneSend' /\ RecordInBuffer' /\ WireLength' /\ RestInBuffer' /\ WireGenuine'
  BY <1>1 DEF IInv, OneSend, RecordInBuffer, WireLength, RestInBuffer, WireGenuine
<1> QED BY <1>2, <1>3, <1>4 DEF IInv

LEMMA UnchangedStep ==
    ASSUME IInv, UNCHANGED <<side, callVars, writeBuffer, encrypted, ops, wire, broken,
                             pressed>>, up' \in BOOLEAN
    PROVE  IInv'
<1> USE DEF callVars
<1>1. TypeOK' /\ SendsInBuffer' /\ CallState'
  BY DEF IInv, TypeOK, SendsInBuffer, CallState, RecordLength
<1>2. OneSend' /\ RecordInBuffer' /\ WireLength'
  BY DEF IInv, OneSend, RecordInBuffer, WireLength, RecordLength
<1>3. RestInBuffer' /\ WireGenuine'
  BY DEF IInv, RestInBuffer, WireGenuine
<1> QED BY <1>1, <1>2, <1>3 DEF IInv

-----------------------------------------------------------------------------
(* The theorems.                                                            *)

LEMMA NextIInv == IInv /\ [Next]_vars => IInv'
<1> SUFFICES ASSUME IInv, [Next]_vars PROVE IInv'
  OBVIOUS
<1>1. CASE \E n \in Lengths : Copy(n)
  BY <1>1, CopyStep
<1>2. CASE Call
  BY <1>2, EncryptStep, SocketSendStep, SocketDoneStep DEF Call
<1>3. CASE EncryptFails \/ SocketFails \/ SocketClosed \/ GiveUp
  BY <1>3, EncryptFailsStep, SocketFailsStep, SocketClosedStep, GiveUpStep
<1>4. CASE Kernel
  BY <1>4, KernelSendsStep, KernelCompletesStep DEF Kernel
<1>5. CASE ConnReset
  BY <1>5, UnchangedStep DEF ConnReset
<1>6. CASE Refuse \/ UNCHANGED vars
  BY <1>6, UnchangedStep DEF Refuse, vars, netVars, IInv, TypeOK
<1> QED BY <1>1, <1>2, <1>3, <1>4, <1>5, <1>6 DEF Next

\* The inductive invariant holds throughout.
THEOREM Invariant == Spec => []IInv
<1> QED BY InitIInv, NextIInv, PTL DEF Spec

\* Every variable keeps its type; above all, no send reads outside writeBuffer.
THEOREM TypeCorrect == Spec => []TypeOK
<1>1. IInv => TypeOK
  BY DEF IInv
<1> QED BY <1>1, Invariant, PTL

\* The wire carries the records of the session byte by byte, whatever parts
\* they went in, until somebody sends again after a send that failed.
THEOREM RecordsInOrder == Spec => []WireGenuine
<1>1. IInv => WireGenuine
  BY DEF IInv
<1> QED BY <1>1, Invariant, PTL

\* When a call has returned and none has failed, all that was encrypted has
\* been sent.
THEOREM RecordsWhole == Spec => []NothingMissing
<1>1. IInv => NothingMissing
  BY DEF IInv, OneSend, WireLength, NothingMissing
<1> QED BY <1>1, Invariant, PTL
=============================================================================

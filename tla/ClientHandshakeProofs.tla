----------------------- MODULE ClientHandshakeProofs ------------------------
(***************************************************************************)
(* What the client's handshake guarantees for every number and size of     *)
(* flights, every way TCP may cut them and every failure: the server's     *)
(* certificate is examined, no byte is lost, client and server do not wait *)
(* for each other, and each handle is live while used and released once.   *)
(***************************************************************************)
EXTENDS ClientHandshake, TLAPS

-----------------------------------------------------------------------------
(* The inductive invariant.                                                 *)

\* What scRet and flight can be at the places of the loop: Schannel has all
\* flights exactly when it has said so, and when it wants more bytes the
\* buffer holds less than the flight.
LoopStatus ==
    /\ phase \in {"new", "hello", "loop", "call"} =>
            flight < NumFlights
            /\ scRet \in {"CONTINUE_NEEDED", "INCOMPLETE_MESSAGE"}
    /\ phase \in {"new", "hello"} => readBufferBytes = 0
    /\ phase = "loop" /\ scRet = "INCOMPLETE_MESSAGE" => ~WholeFlight
    /\ phase = "reply" => scRet \in {"CONTINUE_NEEDED", "OK", "FAILED"}
    /\ phase = "after" => scRet # "INCOMPLETE_MESSAGE"
    /\ phase \in {"reply", "after"} => (flight = NumFlights <=> scRet = "OK")

\* Every byte received was consumed by Schannel or is in the buffer: all of
\* the buffer before a call of Schannel, and after one that consumed some of
\* it what is left over.
BytesKept ==
    /\ \/ phase \in {"new", "hello", "loop", "call"}
       \/ phase = "after" /\ scRet = "INCOMPLETE_CREDENTIALS"
       => received + due = (flight + 1) * FlightSize + readBufferBytes
    /\ phase \in {"reply", "after"} /\ scRet = "CONTINUE_NEEDED" =>
           received + due = (flight + 1) * FlightSize + extra
    /\ phase \in {"reply", "after"} /\ scRet = "OK" =>
           received = NumFlights * FlightSize + extra

\* The certificate is asked for in the turn of the loop that has the last
\* flight, before the loop ends.
CheckedInTime ==
    phase = "after" /\ scRet = "OK" => certChecked \/ certUnread

\* Whether the object the destructors close has been closed.
Gone == IF phase = "destroyed" THEN 1 ELSE 0

\* Which credentials the handle holds, and what has become of all of them:
\* others can replace the first once only, and close them then.
CredsState ==
    /\ phase = "new" => m_ClientCreds = Invalid
    /\ m_ClientCreds = Invalid =>
           /\ phase \in {"new", "failed", "destroyed"}
           /\ closed["first"] = 0 /\ closed["new"] = 0
    /\ m_ClientCreds = "first" => closed["first"] = Gone /\ closed["new"] = 0
    /\ m_ClientCreds = "new" =>
           credsAsked /\ closed["first"] = 1 /\ closed["new"] = Gone
    /\ phase = "after" /\ scRet = "INCOMPLETE_CREDENTIALS" =>
           m_ClientCreds = "first" /\ credsAsked

\* The security context is closed where the loop gives up, or not, and once
\* more by its destructor.
ContextState ==
    /\ phase \in {"new", "hello"} => m_hContext = Invalid
    /\ m_hContext = Invalid => closed["context"] = 0
    /\ m_hContext = "context" =>
           closed["context"] \in
               IF phase = "failed" THEN {0, 1}
               ELSE IF phase # "destroyed" THEN {0}
               ELSE IF result = "S_OK" THEN {1} ELSE {1, 2}
    /\ phase \in {"connected", "closed"} => result = "S_OK"
    /\ result = "S_OK" => phase \in {"connected", "closed", "destroyed"}

IInv ==
    /\ TypeOK
    /\ LoopStatus
    /\ BytesKept
    /\ CheckedInTime
    /\ CredsState
    /\ ContextState
    /\ ExtraKept
    /\ CertificateSeen

-----------------------------------------------------------------------------
\* The loop never reads past what the server may have sent for all flights.
LEMMA OfferedBound ==
    ASSUME flight \in 0 .. NumFlights - 1
    PROVE  Offered \in 0 .. NumFlights * FlightSize + MaxExtra
<1>1. (flight + 1) * FlightSize <= NumFlights * FlightSize
  BY HandshakeAssumption
<1>2. (flight + 1) * FlightSize \in Nat /\ NumFlights * FlightSize \in Nat
  BY HandshakeAssumption
<1> QED BY <1>1, <1>2, HandshakeAssumption DEF Offered

-----------------------------------------------------------------------------
(* One lemma per action of the handshake.                                   *)

LEMMA InitIInv == Init => IInv
<1> SUFFICES ASSUME Init PROVE IInv
  OBVIOUS
<1> USE HandshakeAssumption DEF Init, HandshakeInit
<1>1. TypeOK
  <2>1. NumFlights * FlightSize + MaxExtra \in Nat
    OBVIOUS
  <2>2. /\ 0 \in 0 .. NumFlights * FlightSize + MaxExtra
        /\ 0 \in 0 .. NumFlights /\ 0 \in 0 .. BufferSize
        /\ FlightSize \in 1 .. FlightSize
    BY <2>1
  <2>3. closed \in [Objects -> 0 .. 2]
    OBVIOUS
  <2> QED BY <2>2, <2>3 DEF TypeOK, HandshakeTypeOK, Statuses, Objects, Invalid
<1>2. LoopStatus /\ BytesKept /\ CheckedInTime
  BY DEF LoopStatus, BytesKept, CheckedInTime
<1>3. CredsState /\ ContextState
  BY DEF CredsState, ContextState, Gone, Objects, Invalid
<1>4. ExtraKept /\ CertificateSeen
  BY DEF ExtraKept, CertificateSeen
<1> QED BY <1>1, <1>2, <1>3, <1>4 DEF IInv

\* Acquiring credentials, or not.
LEMMA InitializeKeeps ==
    ASSUME IInv, Initialize
    PROVE  IInv'
<1> USE DEF IInv, Initialize, Fail, schannelVars, bufferVars, handleVars,
            closeVars, certVars
<1>1. TypeOK'
  BY DEF TypeOK, HandshakeTypeOK, Objects, Invalid
<1>2. LoopStatus' /\ BytesKept' /\ CheckedInTime'
  BY DEF LoopStatus, BytesKept, CheckedInTime, WholeFlight
<1>3. CredsState' /\ ContextState'
  BY DEF CredsState, ContextState, Gone, Objects, Invalid
<1>4. ExtraKept' /\ CertificateSeen'
  BY DEF ExtraKept, CertificateSeen
<1> QED BY <1>1, <1>2, <1>3, <1>4

\* The client hello: the context exists from here, and is closed when the hello
\* cannot be sent.
LEMMA ClientHelloKeeps ==
    ASSUME IInv, ClientHello
    PROVE  IInv'
<1> USE DEF IInv, ClientHello, Fail, CloseHandle, schannelVars, bufferVars,
            handleVars, closeVars, certVars
<1>1. TypeOK'
  BY DEF TypeOK, HandshakeTypeOK, Objects, Invalid, ContextState
<1>2. LoopStatus' /\ BytesKept' /\ CheckedInTime'
  BY HandshakeAssumption
     DEF TypeOK, HandshakeTypeOK, LoopStatus, BytesKept, CheckedInTime, WholeFlight
<1>3. CredsState' /\ ContextState'
  BY DEF TypeOK, CredsState, ContextState, Gone, Objects, Invalid
<1>4. ExtraKept' /\ CertificateSeen'
  BY DEF ExtraKept, CertificateSeen
<1> QED BY <1>1, <1>2, <1>3, <1>4

\* A receive adds bytes to the buffer, or ends the loop with the context closed.
LEMMA ReadKeeps ==
    ASSUME IInv, Read
    PROVE  IInv'
<1> USE DEF IInv, Read, FailAndClose, Received, schannelVars, bufferVars,
            handleVars, closeVars, certVars
<1>1. TypeOK'
  <2>1. Offered \in 0 .. NumFlights * FlightSize + MaxExtra
    BY OfferedBound, HandshakeAssumption DEF TypeOK, HandshakeTypeOK, LoopStatus
  <2>2. received' \in 0 .. NumFlights * FlightSize + MaxExtra
    BY <2>1, HandshakeAssumption DEF TypeOK, HandshakeTypeOK
  <2>3. readBufferBytes' \in 0 .. BufferSize
    BY HandshakeAssumption DEF TypeOK, HandshakeTypeOK
  <2>4. closed' \in [Objects -> 0 .. 2]
    BY DEF TypeOK, Objects, ContextState, CloseHandle
  <2> QED BY <2>2, <2>3, <2>4 DEF TypeOK, HandshakeTypeOK, Statuses
<1>2. LoopStatus' /\ BytesKept' /\ CheckedInTime'
  BY HandshakeAssumption
     DEF TypeOK, HandshakeTypeOK, LoopStatus, BytesKept, CheckedInTime
<1>3. CredsState' /\ ContextState'
  BY DEF TypeOK, CredsState, ContextState, Gone, Objects, Invalid, CloseHandle
<1>4. ExtraKept' /\ CertificateSeen'
  BY DEF ExtraKept, CertificateSeen
<1> QED BY <1>1, <1>2, <1>3, <1>4

LEMMA SkipReadKeeps ==
    ASSUME IInv, SkipRead
    PROVE  IInv'
<1> USE DEF IInv, SkipRead, schannelVars, bufferVars, handleVars, closeVars, certVars
<1>1. TypeOK'
  BY DEF TypeOK, HandshakeTypeOK, ReadsMore
<1>2. LoopStatus' /\ BytesKept' /\ CheckedInTime'
  BY DEF LoopStatus, BytesKept, CheckedInTime
<1>3. CredsState' /\ ContextState'
  BY DEF CredsState, ContextState, Gone
<1>4. ExtraKept' /\ CertificateSeen'
  BY DEF ExtraKept, CertificateSeen
<1> QED BY <1>1, <1>2, <1>3, <1>4

\* What a call of Schannel that consumed bytes leaves: they are accounted for.
Consumed ==
    /\ flight' \in 0 .. NumFlights /\ due' \in 1 .. FlightSize
    /\ extra' \in 0 .. BufferSize
    /\ scRet' \in {"OK", "CONTINUE_NEEDED"}
    /\ scRet' = "OK" <=> flight' = NumFlights
    /\ IF scRet' = "OK"
       THEN received = NumFlights * FlightSize + extra'
       ELSE received + due' = (flight' + 1) * FlightSize + extra'

\* Where Schannel is called the buffer begins with what is due of the flight.
LEMMA BeforeCall ==
    ASSUME IInv, phase = "call"
    PROVE  /\ flight \in 0 .. NumFlights - 1 /\ due \in 1 .. FlightSize
           /\ readBufferBytes \in 0 .. BufferSize /\ received \in Nat
           /\ extra \in 0 .. BufferSize
           /\ received + due = (flight + 1) * FlightSize + readBufferBytes
           /\ (flight + 1) * FlightSize \in Nat
<1>1. /\ flight \in 0 .. NumFlights - 1 /\ due \in 1 .. FlightSize
      /\ readBufferBytes \in 0 .. BufferSize /\ received \in Nat
      /\ extra \in 0 .. BufferSize
  <2>1. NumFlights * FlightSize + MaxExtra \in Nat
    BY HandshakeAssumption
  <2> QED BY <2>1, HandshakeAssumption DEF IInv, TypeOK, HandshakeTypeOK, LoopStatus
<1>2. received + due = (flight + 1) * FlightSize + readBufferBytes
  BY DEF IInv, BytesKept
<1> QED BY <1>1, <1>2, HandshakeAssumption

\* The whole flight is consumed, and what lies behind it is left over.
LEMMA ConsumeFlightKeeps ==
    ASSUME IInv, phase = "call", ConsumeFlight
    PROVE  Consumed
<1> USE HandshakeAssumption DEF ConsumeFlight, WholeFlight, Last
<1>1. /\ flight' = flight + 1 /\ due' = FlightSize
      /\ extra' = readBufferBytes - due /\ due <= readBufferBytes
      /\ scRet' = IF flight' = NumFlights THEN "OK" ELSE "CONTINUE_NEEDED"
  BY BeforeCall
<1>2. received = flight' * FlightSize + extra'
  <2>1. received + due = flight' * FlightSize + readBufferBytes
    BY <1>1, BeforeCall
  <2>2. flight' * FlightSize \in Nat
    BY <1>1, BeforeCall
  <2> DEFINE bytes == flight' * FlightSize
  <2>3. /\ received \in Nat /\ due \in Nat /\ readBufferBytes \in Nat
        /\ bytes \in Nat /\ received + due = bytes + readBufferBytes
    BY <2>1, <2>2, BeforeCall
  <2> HIDE DEF bytes
  <2>4. received = bytes + (readBufferBytes - due)
    BY <2>3
  <2> QED BY <1>1, <2>4 DEF bytes
<1>3. /\ (flight' + 1) * FlightSize = flight' * FlightSize + FlightSize
      /\ flight' * FlightSize \in Nat
  BY <1>1, BeforeCall
<1>4. extra' \in 0 .. BufferSize /\ flight' \in 0 .. NumFlights
  BY <1>1, BeforeCall
<1>5. received + due' = (flight' + 1) * FlightSize + extra'
  BY <1>1, <1>2, <1>3, <1>4
<1> QED BY <1>1, <1>2, <1>4, <1>5 DEF Consumed

\* The records of a flight that are whole are consumed.
LEMMA ConsumePartKeeps ==
    ASSUME IInv, phase = "call", NEW k \in 1 .. FlightSize, ConsumePart(k)
    PROVE  Consumed
<1> QED BY BeforeCall, HandshakeAssumption DEF Consumed, ConsumePart, WholeFlight

\* A call of Schannel: it wants more, consumes, wants other credentials or fails.
LEMMA InitializeSecurityContextKeeps ==
    ASSUME IInv, InitializeSecurityContext
    PROVE  IInv'
<1> USE DEF IInv
<1>0. /\ phase = "call"
      /\ UNCHANGED <<bufferVars, fDoRead, certVars, result, handleVars,
                     closeVars>>
  BY DEF InitializeSecurityContext
<1>1. /\ ExtraKept' /\ CertificateSeen'
      /\ phase' \in {"loop", "reply", "after"}
  BY DEF InitializeSecurityContext, ExtraKept, CertificateSeen, certVars
<1>2. ContextState'
  BY <1>0, <1>1 DEF ContextState, handleVars
<1>3. CASE NeedMore /\ phase' = "loop" /\ UNCHANGED credsAsked
  <2>1. TypeOK'
    BY <1>0, <1>3 DEF NeedMore, schannelVars, bufferVars, handleVars, closeVars, certVars,
       TypeOK, HandshakeTypeOK, Statuses
  <2>2. LoopStatus' /\ BytesKept' /\ CheckedInTime'
    BY <1>0, <1>3 DEF NeedMore, schannelVars, bufferVars, certVars,
       LoopStatus, BytesKept, CheckedInTime, WholeFlight
  <2>3. CredsState'
    BY <1>0, <1>3 DEF handleVars, CredsState, Gone
  <2> QED BY <1>1, <1>2, <2>1, <2>2, <2>3
<1>4. CASE /\ ConsumeFlight \/ \E k \in 1 .. FlightSize : ConsumePart(k)
           /\ phase' = "reply" /\ UNCHANGED credsAsked
  <2>1. Consumed
    BY <1>0, <1>4, ConsumeFlightKeeps, ConsumePartKeeps
  <2>2. TypeOK'
    BY <1>0, <1>4, <2>1 DEF Consumed, bufferVars, handleVars, closeVars, certVars,
       TypeOK, HandshakeTypeOK, Statuses
  <2>3. LoopStatus' /\ BytesKept' /\ CheckedInTime'
    BY <1>0, <1>4, <2>1 DEF Consumed, bufferVars, certVars,
       LoopStatus, BytesKept, CheckedInTime
  <2>4. CredsState'
    BY <1>0, <1>4 DEF handleVars, CredsState, Gone
  <2> QED BY <1>1, <1>2, <2>2, <2>3, <2>4
<1>5. CASE WantsCredentials /\ phase' = "after" /\ credsAsked' = TRUE
  <2>1. TypeOK'
    BY <1>0, <1>5 DEF WantsCredentials, schannelVars, bufferVars, handleVars,
       closeVars, certVars, TypeOK, HandshakeTypeOK, Statuses
  <2>2. LoopStatus' /\ BytesKept' /\ CheckedInTime'
    BY <1>0, <1>5, BeforeCall DEF WantsCredentials, schannelVars, bufferVars, certVars,
       LoopStatus, BytesKept, CheckedInTime
  <2>3. CredsState'
    BY <1>0, <1>5 DEF WantsCredentials, handleVars, TypeOK, CredsState, Gone
  <2> QED BY <1>1, <1>2, <2>1, <2>2, <2>3
<1>6. CASE Reject /\ phase' \in {"reply", "after"} /\ UNCHANGED credsAsked
  <2>1. TypeOK'
    BY <1>0, <1>6 DEF Reject, schannelVars, bufferVars, handleVars, closeVars, certVars,
       TypeOK, HandshakeTypeOK, Statuses
  <2>2. LoopStatus' /\ BytesKept' /\ CheckedInTime'
    BY <1>0, <1>6, BeforeCall DEF Reject, schannelVars, bufferVars, certVars,
       LoopStatus, BytesKept, CheckedInTime
  <2>3. CredsState'
    BY <1>0, <1>6 DEF Reject, handleVars, CredsState, Gone
  <2> QED BY <1>1, <1>2, <2>1, <2>2, <2>3
<1> QED BY <1>0, <1>3, <1>4, <1>5, <1>6 DEF InitializeSecurityContext

\* The server's certificate is refused: the context is left to its destructor.
LEMMA CertRefusedKeeps ==
    ASSUME IInv, CertRefused
    PROVE  IInv'
<1> USE DEF IInv, CertRefused, Fail, schannelVars, bufferVars, handleVars,
            closeVars, certVars
<1>1. TypeOK'
  BY DEF TypeOK, HandshakeTypeOK
<1>2. LoopStatus' /\ BytesKept' /\ CheckedInTime' /\ ExtraKept' /\ CertificateSeen'
  BY DEF LoopStatus, BytesKept, CheckedInTime, ExtraKept, CertificateSeen
<1>3. CredsState' /\ ContextState'
  BY DEF CredsState, ContextState, Gone
<1> QED BY <1>1, <1>2, <1>3

\* The certificate is examined, if Schannel hands it out, and the answer is sent.
LEMMA ReplyKeeps ==
    ASSUME IInv, Reply
    PROVE  IInv'
<1> USE DEF IInv, Reply, FailAndClose, CloseHandle, schannelVars, bufferVars,
            handleVars, closeVars, certVars
<1>1. TypeOK'
  <2>1. certChecked' \in BOOLEAN /\ certUnread' \in BOOLEAN
    <3>1. certChecked \in BOOLEAN /\ certUnread \in BOOLEAN
      BY DEF TypeOK
    <3>2. (certUnread \/ CertKnown) \in BOOLEAN
      OBVIOUS
    <3> QED BY <3>1, <3>2
  <2>2. closed' \in [Objects -> 0 .. 2]
    BY DEF TypeOK, Objects, ContextState
  <2> QED BY <2>1, <2>2 DEF TypeOK, HandshakeTypeOK
<1>2. LoopStatus' /\ BytesKept' /\ ExtraKept' /\ CertificateSeen'
  BY DEF LoopStatus, BytesKept, ExtraKept, CertificateSeen
<1>3. CheckedInTime'
  <2>1. scRet = "OK" /\ phase' = "after" => flight > 0
    BY HandshakeAssumption DEF LoopStatus
  <2> QED BY <2>1 DEF CheckedInTime, CertKnown
<1>4. CredsState' /\ ContextState'
  BY DEF TypeOK, Objects, CredsState, ContextState, LoopStatus, Gone, Invalid
<1> QED BY <1>1, <1>2, <1>3, <1>4

\* The end of the loop: the bytes Schannel has left over stay in the buffer.
LEMMA ConnectedKeeps ==
    ASSUME IInv, Connected
    PROVE  IInv'
<1> USE DEF IInv, Connected, Fail, schannelVars, handleVars, closeVars, certVars
<1>1. TypeOK'
  BY DEF TypeOK, HandshakeTypeOK
<1>2. LoopStatus' /\ BytesKept' /\ CheckedInTime' /\ CertificateSeen'
  BY DEF LoopStatus, BytesKept, CheckedInTime, CertificateSeen
<1>3. ExtraKept'
  <2>1. received = NumFlights * FlightSize + extra /\ readBufferBytes' = extra
    BY DEF BytesKept
  <2>2. NumFlights * FlightSize \in Nat /\ extra \in Int
    BY HandshakeAssumption DEF TypeOK, HandshakeTypeOK
  <2> QED BY <2>1, <2>2 DEF ExtraKept
<1>4. CredsState' /\ ContextState'
  BY DEF CredsState, ContextState, Gone
<1> QED BY <1>1, <1>2, <1>3, <1>4

\* Schannel has failed: the context is closed, its handle keeps its value.
LEMMA SchannelFailedKeeps ==
    ASSUME IInv, SchannelFailed
    PROVE  IInv'
<1> USE DEF IInv, SchannelFailed, FailAndClose, CloseHandle, schannelVars,
            bufferVars, handleVars, closeVars, certVars
<1>1. TypeOK'
  BY DEF TypeOK, HandshakeTypeOK, Objects, ContextState
<1>2. LoopStatus' /\ BytesKept' /\ CheckedInTime' /\ ExtraKept' /\ CertificateSeen'
  BY DEF LoopStatus, BytesKept, CheckedInTime, ExtraKept, CertificateSeen
<1>3. CredsState' /\ ContextState'
  BY DEF TypeOK, Objects, CredsState, ContextState, Gone, Invalid
<1> QED BY <1>1, <1>2, <1>3

\* Other credentials take the place of the first, which are closed then, while
\* the bytes that asked for them stay in the buffer.
LEMMA GetNewClientCredentialsKeeps ==
    ASSUME IInv, GetNewClientCredentials
    PROVE  IInv'
<1> USE DEF IInv, GetNewClientCredentials, schannelVars, bufferVars, closeVars, certVars
<1>1. /\ m_ClientCreds = "first" /\ closed["first"] = 0 /\ closed["new"] = 0
      /\ closed \in [Objects -> 0 .. 2]
  BY DEF CredsState, Gone, TypeOK
<1>2. /\ m_ClientCreds' = "new" /\ m_hContext' = m_hContext
      /\ closed' = [closed EXCEPT !["first"] = 1]
  BY <1>1 DEF MoveAssign, Attach, CloseHandle, Invalid, Objects
<1>3. /\ closed' \in [Objects -> 0 .. 2]
      /\ closed'["first"] = 1 /\ closed'["new"] = 0
      /\ closed'["context"] = closed["context"]
  BY <1>1, <1>2 DEF Objects
<1>4. TypeOK'
  BY <1>2, <1>3 DEF TypeOK, HandshakeTypeOK, Statuses
<1>5. LoopStatus' /\ BytesKept'
  BY HandshakeAssumption DEF TypeOK, HandshakeTypeOK, LoopStatus, BytesKept
<1>6. CheckedInTime' /\ ExtraKept' /\ CertificateSeen'
  BY DEF CheckedInTime, ExtraKept, CertificateSeen
<1>7. CredsState'
  BY <1>2, <1>3 DEF CredsState, Gone, Invalid
<1>8. ContextState'
  BY <1>2, <1>3 DEF ContextState
<1> QED BY <1>4, <1>5, <1>6, <1>7, <1>8

\* There are no other credentials: the connection is given up.
LEMMA NoNewCredentialsKeeps ==
    ASSUME IInv, NoNewCredentials
    PROVE  IInv'
<1> USE DEF IInv, NoNewCredentials, FailAndClose, CloseHandle, schannelVars,
            bufferVars, handleVars, closeVars, certVars
<1>1. TypeOK'
  BY DEF TypeOK, HandshakeTypeOK, Statuses, Objects, ContextState
<1>2. LoopStatus' /\ BytesKept' /\ CheckedInTime' /\ ExtraKept' /\ CertificateSeen'
  BY DEF LoopStatus, BytesKept, CheckedInTime, ExtraKept, CertificateSeen
<1>3. CredsState' /\ ContextState'
  BY DEF TypeOK, Objects, CredsState, ContextState, Gone, Invalid
<1> QED BY <1>1, <1>2, <1>3

\* The next turn of the loop starts with what was left over.
LEMMA NextFlightKeeps ==
    ASSUME IInv, NextFlight
    PROVE  IInv'
<1> USE DEF IInv, NextFlight, schannelVars, handleVars, closeVars, certVars
<1>1. TypeOK'
  BY DEF TypeOK, HandshakeTypeOK
<1>2. LoopStatus' /\ BytesKept'
  BY HandshakeAssumption DEF TypeOK, HandshakeTypeOK, LoopStatus, BytesKept
<1>3. CheckedInTime' /\ ExtraKept' /\ CertificateSeen'
  BY DEF CheckedInTime, ExtraKept, CertificateSeen
<1>4. CredsState' /\ ContextState'
  BY DEF CredsState, ContextState, Gone
<1> QED BY <1>1, <1>2, <1>3, <1>4

LEMMA CloseKeeps ==
    ASSUME IInv, Close
    PROVE  IInv'
<1> USE DEF IInv, Close, schannelVars, bufferVars, handleVars, closeVars, certVars
<1>1. TypeOK'
  BY DEF TypeOK, HandshakeTypeOK, pbMessage
<1>2. LoopStatus' /\ BytesKept' /\ CheckedInTime' /\ ExtraKept' /\ CertificateSeen'
  BY DEF LoopStatus, BytesKept, CheckedInTime, ExtraKept, CertificateSeen
<1>3. CredsState' /\ ContextState'
  BY DEF CredsState, ContextState, Gone
<1> QED BY <1>1, <1>2, <1>3

\* The destructors close what the two handles hold, closed before or not.
LEMMA DestroyKeeps ==
    ASSUME IInv, Destroy
    PROVE  IInv'
<1> USE DEF IInv, Destroy, CloseHandle, schannelVars, bufferVars, closeVars, certVars
<1>1. /\ \A o \in {m_ClientCreds, m_hContext} \ {Invalid} :
             closed'[o] = closed[o] + 1
      /\ \A o \in Objects \ {m_ClientCreds, m_hContext} : closed'[o] = closed[o]
      /\ DOMAIN closed' = Objects
      /\ closed' = [o \in Objects |-> closed'[o]]
  BY DEF TypeOK, Objects, Invalid
<1>2. TypeOK'
  BY <1>1 DEF TypeOK, HandshakeTypeOK, Objects, CredsState, ContextState, Gone, Invalid
<1>3. LoopStatus' /\ BytesKept' /\ CheckedInTime' /\ ExtraKept' /\ CertificateSeen'
  BY DEF LoopStatus, BytesKept, CheckedInTime, ExtraKept, CertificateSeen
<1>4. CredsState' /\ ContextState'
  BY <1>1 DEF TypeOK, Objects, CredsState, ContextState, Gone, Invalid
<1> QED BY <1>2, <1>3, <1>4

LEMMA GoSilentKeeps ==
    ASSUME IInv, GoSilent
    PROVE  IInv'
<1> USE DEF IInv, GoSilent, loopVars, schannelVars, bufferVars, handleVars, certVars
<1>1. TypeOK'
  BY DEF TypeOK, HandshakeTypeOK
<1>2. LoopStatus' /\ BytesKept' /\ CheckedInTime' /\ ExtraKept' /\ CertificateSeen'
  BY DEF LoopStatus, WholeFlight, BytesKept, CheckedInTime, ExtraKept,
         CertificateSeen
<1>3. CredsState' /\ ContextState'
  BY DEF CredsState, ContextState, Gone
<1> QED BY <1>1, <1>2, <1>3

-----------------------------------------------------------------------------
LEMMA NextIInv == IInv /\ [Next]_vars => IInv'
<1> SUFFICES ASSUME IInv, [Next]_vars PROVE IInv'
  OBVIOUS
<1>1. CASE Initialize \/ ClientHello \/ Close \/ Destroy \/ GoSilent
  BY <1>1, InitializeKeeps, ClientHelloKeeps, CloseKeeps, DestroyKeeps,
     GoSilentKeeps
<1>2. CASE Loop
  BY <1>2, ReadKeeps, SkipReadKeeps, InitializeSecurityContextKeeps,
     CertRefusedKeeps, ReplyKeeps, ConnectedKeeps, SchannelFailedKeeps,
     GetNewClientCredentialsKeeps, NoNewCredentialsKeeps, NextFlightKeeps
     DEF Loop
<1>3. CASE UNCHANGED vars
  <2> USE <1>3 DEF IInv, vars, loopVars, schannelVars, bufferVars, clientVars,
                   handleVars, closeVars, certVars
  <2>1. TypeOK'
    BY DEF TypeOK, HandshakeTypeOK
  <2>2. LoopStatus' /\ BytesKept' /\ CheckedInTime' /\ ExtraKept' /\ CertificateSeen'
    BY DEF LoopStatus, WholeFlight, BytesKept, CheckedInTime, ExtraKept,
           CertificateSeen
  <2>3. CredsState' /\ ContextState'
    BY DEF CredsState, ContextState, Gone
  <2> QED BY <2>1, <2>2, <2>3
<1> QED BY <1>1, <1>2, <1>3 DEF Next

\* The inductive invariant of the client's handshake.
THEOREM Invariant == Spec => []IInv
<1> QED BY InitIInv, NextIInv, PTL DEF Spec

\* Type correctness: buffer, flight and close counts stay in their ranges.
THEOREM TypeCorrect == Spec => []TypeOK
<1>1. IInv => TypeOK
  BY DEF IInv
<1> QED BY <1>1, Invariant, PTL

\* No connection without a look at the server's certificate: SSPINegotiateLoop
\* examines it before its own last answer, whatever was asked before, or has had
\* a query for it fail (lines 600-606), which is the one way round.
THEOREM CertificateExamined == Spec => []CertificateSeen
<1>1. IInv => CertificateSeen
  BY DEF IInv
<1> QED BY <1>1, Invariant, PTL

\* Application data that comes with the server's last flight is in readBuffer
\* when the handshake is over, all of it and nothing else.
THEOREM ExtraBytesKept == Spec => []ExtraKept
<1>1. IInv => ExtraKept
  BY DEF IInv
<1> QED BY <1>1, Invariant, PTL

\* Where the loop reads, the server has sent, or may send without an answer of
\* ours, bytes that were not received: no flight is waited for that is due from
\* the client.
THEOREM NoMutualWait == Spec => []ServerTurn
<1>1. IInv => ServerTurn
  <2> SUFFICES ASSUME IInv, phase = "loop", ReadsMore PROVE received < Offered
    BY DEF ServerTurn
  <2>1. /\ flight \in Nat /\ due \in 1 .. FlightSize
        /\ readBufferBytes \in Nat /\ received \in Int
    BY HandshakeAssumption DEF IInv, TypeOK, HandshakeTypeOK
  <2>2. received + due = (flight + 1) * FlightSize + readBufferBytes
    BY DEF IInv, BytesKept
  <2>3. readBufferBytes < due
    BY <2>1 DEF IInv, LoopStatus, ReadsMore, WholeFlight
  <2>4. (flight + 1) * FlightSize \in Nat
    BY <2>1, HandshakeAssumption
  <2> QED BY <2>1, <2>2, <2>3, <2>4, HandshakeAssumption DEF Offered
<1> QED BY <1>1, Invariant, PTL

\* Schannel is given no handle that was closed, neither when other credentials
\* replace the first in the middle of the handshake nor after it.
THEOREM LiveHandles == Spec => []HandlesLive
<1>1. IInv => HandlesLive
  BY DEF IInv, TypeOK, CredsState, ContextState, HandlesLive, Gone, Invalid
<1> QED BY <1>1, Invariant, PTL

\* When the CSSLClient is gone every object it acquired was closed, credentials
\* and the context of a connection that was made exactly once.
THEOREM ReleasedHandles == Spec => []HandlesReleased
<1>1. IInv => HandlesReleased
  BY DEF IInv, TypeOK, CredsState, ContextState, HandlesReleased, Gone, Invalid
<1> QED BY <1>1, Invariant, PTL
=============================================================================

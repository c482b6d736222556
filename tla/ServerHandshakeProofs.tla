----------------------- MODULE ServerHandshakeProofs ------------------------
(***************************************************************************)
(* What the server's handshakes guarantee, one connection after another,   *)
(* for every number and size of flights, all sets of names and handles and *)
(* every failure: the cached credential is the only one and belongs to the *)
(* name asked for, and no byte behind the handshake is lost.               *)
(***************************************************************************)
EXTENDS ServerHandshake, FiniteSetTheorems, TLAPS

-----------------------------------------------------------------------------
(* The inductive invariant.                                                 *)

\* Schannel has all flights exactly when it has said so; what it has not
\* consumed is the end of the buffer.
LoopStatus ==
    /\ phase \in {"receive", "select", "accept"} => flight < NumFlights
    /\ phase = "reply" =>
           /\ scRet \in {"CONTINUE_NEEDED", "OK", "FAILED"}
           /\ flight = NumFlights <=> scRet = "OK"
    /\ phase = "check" => scRet = "OK"
    /\ phase \in {"reply", "check"} /\ scRet # "FAILED" =>
           extra <= readBufferBytes

\* Every byte received was consumed by Schannel or is in the buffer: all of the
\* buffer before a call of Schannel, what is left over after one.
BytesKept ==
    /\ phase \in {"receive", "select", "accept"} =>
           received + due = (flight + 1) * FlightSize + readBufferBytes
    /\ phase = "reply" /\ scRet = "CONTINUE_NEEDED" =>
           received + due = (flight + 1) * FlightSize + extra
    /\ phase \in {"reply", "check"} /\ scRet = "OK" =>
           received = NumFlights * FlightSize + extra

\* The hello is consumed as a whole, and is whole when the loop has called
\* Schannel with it: a name is selected before that, and once.
HelloFirst ==
    /\ flight = 0 => due = FlightSize
    /\ phase = "select" => flight = 0 /\ readBufferBytes >= FlightSize
    /\ phase = "receive" => flight > 0 \/ readBufferBytes < FlightSize

\* A credential that was not freed is the cached one, and the cached name is
\* that of its certificate.
CachedOnly ==
    /\ live \subseteq {g_ServerCreds}
    /\ g_ServerCreds \in live => credName[g_ServerCreds] = g_ServerName

\* From the selection on the credential, unless it was freed, is that of the
\* name asked for.
NamedFromHello ==
    phase \in {"receive", "accept", "reply"} /\ HelloRead /\ g_ServerCreds \in live
        => credName[g_ServerCreds] = Requested

IInv ==
    /\ TypeOK
    /\ LoopStatus
    /\ BytesKept
    /\ HelloFirst
    /\ CachedOnly
    /\ NamedFromHello
    /\ ExtraKept

-----------------------------------------------------------------------------
\* The loop never receives more than the client may have sent for all flights.
LEMMA OfferedBound ==
    ASSUME flight \in 0 .. NumFlights - 1
    PROVE  Offered \in 0 .. NumFlights * FlightSize + MaxExtra
<1>1. (flight + 1) * FlightSize <= NumFlights * FlightSize
  BY HandshakeAssumption
<1>2. (flight + 1) * FlightSize \in Nat /\ NumFlights * FlightSize \in Nat
  BY HandshakeAssumption
<1> QED BY <1>1, <1>2, HandshakeAssumption DEF Offered

LEMMA InitIInv == Init => IInv
<1> SUFFICES ASSUME Init PROVE IInv
  OBVIOUS
<1> USE HandshakeAssumption, ServerAssumption DEF Init, HandshakeInit
<1>1. NumFlights * FlightSize + MaxExtra \in Nat
  OBVIOUS
<1>2. TypeOK
  <2>1. credName \in [Handles -> Names]
    OBVIOUS
  <2>2. HandshakeTypeOK
    BY <1>1 DEF HandshakeTypeOK, Statuses
  <2>3. readPtr \in 0 .. BufferSize
    OBVIOUS
  <2>4. live \subseteq Handles
    OBVIOUS
  <2>5. hr \in Results /\ refused \in BOOLEAN
    BY DEF Results
  <2>6. /\ sni \in Names \cup {NoName} /\ g_ServerName \in Names \cup {NoName}
        /\ g_ServerCreds \in Handles \cup {NoHandle}
    OBVIOUS
  <2> QED BY <2>1, <2>2, <2>3, <2>4, <2>5, <2>6 DEF TypeOK
<1>3. LoopStatus /\ BytesKept /\ HelloFirst
  BY DEF LoopStatus, BytesKept, HelloFirst
<1>4. CachedOnly /\ NamedFromHello /\ ExtraKept
  BY DEF CachedOnly, NamedFromHello, ExtraKept
<1> QED BY <1>2, <1>3, <1>4 DEF IInv

-----------------------------------------------------------------------------
(* One lemma per action of the handshake.                                   *)

\* The next connection starts from nothing but the cached credential.
LEMMA InitializeKeeps ==
    ASSUME IInv, Initialize
    PROVE  IInv'
<1> USE HandshakeAssumption DEF IInv, Initialize, HandshakeRestart, credVars
<1>1. NumFlights * FlightSize + MaxExtra \in Nat
  OBVIOUS
<1>2. TypeOK'
  <2>1. HandshakeTypeOK'
    BY <1>1 DEF HandshakeTypeOK, Statuses, TypeOK
  <2>2. readPtr' \in 0 .. BufferSize
    OBVIOUS
  <2>3. hr' \in Results /\ refused' \in BOOLEAN
    BY DEF Results
  <2> QED BY <2>1, <2>2, <2>3 DEF TypeOK
<1>3. LoopStatus' /\ BytesKept' /\ HelloFirst' /\ ExtraKept'
  BY DEF LoopStatus, BytesKept, HelloFirst, ExtraKept
<1>4. CachedOnly' /\ NamedFromHello'
  BY DEF CachedOnly, NamedFromHello, HelloRead
<1> QED BY <1>2, <1>3, <1>4

\* A receive adds bytes; when they make the hello whole a name is selected.
LEMMA ReceiveKeeps ==
    ASSUME IInv, Receive
    PROVE  IInv'
<1> USE HandshakeAssumption DEF IInv, Receive, Received, Fail, HelloSeen,
        schannelVars, bufferVars, credVars
<1>1. TypeOK'
  <2>1. Offered \in 0 .. NumFlights * FlightSize + MaxExtra
    BY OfferedBound DEF TypeOK, HandshakeTypeOK, LoopStatus
  <2>2. received' \in 0 .. NumFlights * FlightSize + MaxExtra
    BY <2>1 DEF TypeOK, HandshakeTypeOK
  <2>3. readBufferBytes' \in 0 .. BufferSize
    BY DEF TypeOK, HandshakeTypeOK
  <2> QED BY <2>2, <2>3 DEF TypeOK, HandshakeTypeOK, Results
<1>2. LoopStatus' /\ BytesKept' /\ ExtraKept'
  BY DEF TypeOK, HandshakeTypeOK, LoopStatus, BytesKept, ExtraKept
<1>3. HelloFirst'
  BY DEF TypeOK, HandshakeTypeOK, HelloFirst
<1>4. CachedOnly' /\ NamedFromHello'
  BY DEF TypeOK, HandshakeTypeOK, CachedOnly, NamedFromHello, HelloRead, Requested
<1> QED BY <1>1, <1>2, <1>3, <1>4

\* The cached credential is used for the name it was made for.  A client that
\* names nobody gets it only while no name is cached, when it is not live.
LEMMA UseCachedKeeps ==
    ASSUME IInv, UseCached
    PROVE  IInv'
<1> USE DEF IInv, UseCached, schannelVars, bufferVars, connVars, credVars
<1>1. TypeOK'
  BY DEF TypeOK, HandshakeTypeOK
<1>2. LoopStatus' /\ BytesKept' /\ HelloFirst' /\ ExtraKept'
  BY DEF LoopStatus, BytesKept, HelloFirst, ExtraKept
<1>3. g_ServerCreds \in live => credName[g_ServerCreds] = Requested
  BY ServerAssumption DEF TypeOK, CachedOnly, NeedsCredential, Requested
<1>4. CachedOnly' /\ NamedFromHello'
  BY <1>3 DEF CachedOnly, NamedFromHello, Requested
<1> QED BY <1>1, <1>2, <1>4

\* Whatever is live is freed before another credential is acquired.
LEMMA FreedEmpty == IInv => Freed = {}
  BY DEF IInv, CachedOnly, Freed

\* A new credential, for the name asked for, takes the place of the old.
LEMMA CreateCredentialsKeeps ==
    ASSUME IInv, CreateCredentials
    PROVE  IInv'
<1> USE DEF IInv, CreateCredentials, schannelVars, bufferVars, connVars
<1>1. PICK h \in Handles :
          /\ g_ServerCreds' = h /\ live' = {h}
          /\ credName' = [credName EXCEPT ![h] = Requested]
  BY FreedEmpty
<1>2. Requested \in Names /\ credName \in [Handles -> Names]
  BY ServerAssumption DEF TypeOK, Requested
<1>3. credName' \in [Handles -> Names] /\ credName'[h] = Requested
  BY <1>1, <1>2
<1>4. TypeOK'
  BY <1>1, <1>2, <1>3 DEF TypeOK, HandshakeTypeOK
<1>5. LoopStatus' /\ BytesKept' /\ HelloFirst' /\ ExtraKept'
  BY DEF LoopStatus, BytesKept, HelloFirst, ExtraKept
<1>6. CachedOnly' /\ NamedFromHello'
  BY <1>1, <1>3 DEF CachedOnly, NamedFromHello, Requested
<1> QED BY <1>4, <1>5, <1>6

\* No certificate, or no credential for it: the old one is freed all the same,
\* and its handle and a name stay cached.
LEMMA NoCredentialKeeps ==
    ASSUME IInv, SelectFails \/ AcquireFails
    PROVE  IInv'
<1> USE DEF IInv, SelectFails, AcquireFails, Fail, schannelVars, bufferVars
<1>1. Requested \in Names
  BY ServerAssumption DEF TypeOK, Requested
<1>2. TypeOK'
  BY <1>1, FreedEmpty DEF TypeOK, HandshakeTypeOK, Statuses, Results
<1>3. LoopStatus' /\ BytesKept' /\ HelloFirst' /\ ExtraKept'
  BY DEF LoopStatus, BytesKept, HelloFirst, ExtraKept
<1>4. CachedOnly' /\ NamedFromHello'
  BY FreedEmpty DEF CachedOnly, NamedFromHello
<1> QED BY <1>2, <1>3, <1>4

-----------------------------------------------------------------------------
\* Where Schannel is called the buffer begins with what is due of the flight.
LEMMA BeforeCall ==
    ASSUME IInv, phase = "accept"
    PROVE  /\ flight \in 0 .. NumFlights - 1 /\ due \in 1 .. FlightSize
           /\ readBufferBytes \in 0 .. BufferSize /\ received \in Nat
           /\ extra \in 0 .. BufferSize
           /\ received + due = (flight + 1) * FlightSize + readBufferBytes
           /\ (flight + 1) * FlightSize \in Nat
<1>1. /\ flight \in 0 .. NumFlights - 1 /\ due \in 1 .. FlightSize
      /\ readBufferBytes \in 0 .. BufferSize /\ received \in Nat
      /\ extra \in 0 .. BufferSize
  <2>1. NumFlights * FlightSize + MaxExtra \in Nat
    BY HandshakeAssumption
  <2> QED BY <2>1, HandshakeAssumption DEF IInv, TypeOK, HandshakeTypeOK, LoopStatus
<1>2. received + due = (flight + 1) * FlightSize + readBufferBytes
  BY DEF IInv, BytesKept
<1> QED BY <1>1, <1>2, HandshakeAssumption

\* What a call of Schannel that consumed bytes leaves: they are accounted for,
\* and the hello was whole.
Consumed ==
    /\ flight' \in 0 .. NumFlights /\ due' \in 1 .. FlightSize
    /\ extra' \in 0 .. readBufferBytes
    /\ scRet' \in {"OK", "CONTINUE_NEEDED"}
    /\ scRet' = "OK" <=> flight' = NumFlights
    /\ IF scRet' = "OK"
       THEN received = NumFlights * FlightSize + extra'
       ELSE received + due' = (flight' + 1) * FlightSize + extra'
    /\ flight' > 0 /\ HelloRead

LEMMA ConsumeFlightKeeps ==
    ASSUME IInv, phase = "accept", ConsumeFlight
    PROVE  Consumed
<1> USE HandshakeAssumption DEF ConsumeFlight, WholeFlight, Last
<1>1. /\ flight' = flight + 1 /\ due' = FlightSize
      /\ extra' = readBufferBytes - due /\ due <= readBufferBytes
      /\ scRet' = IF flight' = NumFlights THEN "OK" ELSE "CONTINUE_NEEDED"
  BY BeforeCall
<1>2. received = flight' * FlightSize + extra'
  <2> DEFINE bytes == flight' * FlightSize
  <2>1. bytes \in Nat /\ received + due = bytes + readBufferBytes
    BY <1>1, BeforeCall
  <2> HIDE DEF bytes
  <2>2. received = bytes + (readBufferBytes - due)
    BY <2>1, BeforeCall
  <2> QED BY <1>1, <2>2 DEF bytes
<1>3. received + due' = (flight' + 1) * FlightSize + extra'
  <2>1. /\ (flight' + 1) * FlightSize = flight' * FlightSize + FlightSize
        /\ flight' * FlightSize \in Nat
    BY <1>1, BeforeCall
  <2> QED BY <1>1, <1>2, <2>1, BeforeCall
<1>4. /\ extra' \in 0 .. readBufferBytes /\ flight' \in 0 .. NumFlights
      /\ flight' > 0
  BY <1>1, BeforeCall
<1>5. HelloRead
  BY <1>1, BeforeCall DEF IInv, HelloFirst, HelloRead
<1>6. /\ due' \in 1 .. FlightSize /\ scRet' \in {"OK", "CONTINUE_NEEDED"}
      /\ scRet' = "OK" <=> flight' = NumFlights
  BY <1>1
<1> QED BY <1>2, <1>3, <1>4, <1>5, <1>6 DEF Consumed

LEMMA ConsumePartKeeps ==
    ASSUME IInv, phase = "accept", flight > 0,
           NEW k \in 1 .. FlightSize, ConsumePart(k)
    PROVE  Consumed
<1> QED BY BeforeCall, HandshakeAssumption
        DEF Consumed, ConsumePart, WholeFlight, HelloRead

\* A call of Schannel: it wants more, consumes a flight or a part, or fails.
LEMMA AcceptSecurityContextKeeps ==
    ASSUME IInv, AcceptSecurityContext
    PROVE  IInv'
<1> USE DEF IInv
<1>0. phase = "accept" /\ UNCHANGED <<bufferVars, connVars, credVars>>
  BY DEF AcceptSecurityContext
<1>1. /\ phase' \in {"receive", "reply"}
      /\ ExtraKept' /\ CachedOnly'
  BY <1>0 DEF AcceptSecurityContext, ExtraKept, CachedOnly, credVars
<1>2. CASE NeedMore /\ phase' = "receive"
  <2>1. TypeOK'
    BY <1>0, <1>2 DEF NeedMore, schannelVars, bufferVars, connVars, credVars,
       TypeOK, HandshakeTypeOK, Statuses
  <2>2. LoopStatus' /\ BytesKept' /\ HelloFirst'
    BY <1>0, <1>2, BeforeCall DEF NeedMore, schannelVars, bufferVars,
       LoopStatus, BytesKept, HelloFirst, WholeFlight
  <2>3. NamedFromHello'
    BY <1>0, <1>2 DEF NeedMore, schannelVars, bufferVars, connVars, credVars,
       NamedFromHello, HelloRead, Requested
  <2> QED BY <1>1, <2>1, <2>2, <2>3
<1>3. CASE Consume /\ phase' = "reply"
  <2>1. Consumed
    BY <1>0, <1>3, ConsumeFlightKeeps, ConsumePartKeeps DEF Consume
  <2>2. TypeOK'
    <3>1. extra' \in 0 .. BufferSize
      BY <1>0, <2>1, BeforeCall, HandshakeAssumption DEF Consumed
    <3> QED BY <1>0, <1>3, <2>1, <3>1 DEF Consumed, bufferVars, connVars,
           credVars, TypeOK, HandshakeTypeOK, Statuses
  <2>3. LoopStatus' /\ BytesKept' /\ HelloFirst'
    BY <1>0, <1>3, <2>1, BeforeCall DEF Consumed, bufferVars,
       LoopStatus, BytesKept, HelloFirst
  <2>4. NamedFromHello'
    BY <1>0, <1>3, <2>1 DEF Consumed, connVars, credVars,
       NamedFromHello, Requested
  <2> QED BY <1>1, <2>2, <2>3, <2>4
<1>4. CASE Reject /\ phase' = "reply"
  <2>1. TypeOK'
    BY <1>0, <1>4 DEF Reject, schannelVars, bufferVars, connVars, credVars,
       TypeOK, HandshakeTypeOK, Statuses
  <2>2. LoopStatus' /\ BytesKept' /\ HelloFirst'
    BY <1>0, <1>4, BeforeCall DEF Reject, schannelVars, bufferVars,
       LoopStatus, BytesKept, HelloFirst
  <2>3. NamedFromHello'
    BY <1>0, <1>4 DEF Reject, schannelVars, bufferVars, connVars, credVars,
       NamedFromHello, HelloRead, Requested
  <2> QED BY <1>1, <2>1, <2>2, <2>3
<1> QED BY <1>2, <1>3, <1>4 DEF AcceptSecurityContext

LEMMA ReplyFailsKeeps ==
    ASSUME IInv, ReplyFails
    PROVE  IInv'
<1> USE DEF IInv, ReplyFails, Fail, schannelVars, bufferVars, credVars
<1>1. TypeOK'
  BY DEF TypeOK, HandshakeTypeOK, Results
<1>2. LoopStatus' /\ BytesKept' /\ HelloFirst' /\ ExtraKept'
  BY DEF LoopStatus, BytesKept, HelloFirst, ExtraKept
<1>3. CachedOnly' /\ NamedFromHello'
  BY DEF CachedOnly, NamedFromHello
<1> QED BY <1>1, <1>2, <1>3

\* After the answer: the end of the loop, a failure, or the next receive into a
\* buffer that is empty again.
LEMMA ReplyKeeps ==
    ASSUME IInv, Reply
    PROVE  IInv'
<1> USE HandshakeAssumption DEF IInv, Reply, Fail, schannelVars, credVars
<1>1. /\ flight \in 0 .. NumFlights /\ due \in 1 .. FlightSize
      /\ readBufferBytes \in 0 .. BufferSize /\ extra \in 0 .. BufferSize
      /\ received \in Nat
  <2>1. NumFlights * FlightSize + MaxExtra \in Nat
    OBVIOUS
  <2> QED BY <2>1 DEF TypeOK, HandshakeTypeOK
<1>2. TypeOK'
  BY <1>1 DEF TypeOK, HandshakeTypeOK, Statuses, Results, LoopStatus
<1>3. LoopStatus' /\ BytesKept' /\ HelloFirst' /\ ExtraKept'
  BY <1>1 DEF LoopStatus, BytesKept, HelloFirst, ExtraKept
<1>4. CachedOnly' /\ NamedFromHello'
  BY <1>1 DEF CachedOnly, NamedFromHello, HelloRead, Requested
<1> QED BY <1>2, <1>3, <1>4

\* The handshake is over: Recv will find the bytes Schannel has left over.
LEMMA ConnectedKeeps ==
    ASSUME IInv, Connected
    PROVE  IInv'
<1> USE HandshakeAssumption DEF IInv, Connected, Fail, schannelVars, credVars
<1>1. TypeOK'
  BY DEF TypeOK, HandshakeTypeOK, Results, LoopStatus
<1>2. LoopStatus' /\ BytesKept' /\ HelloFirst'
  BY DEF LoopStatus, BytesKept, HelloFirst
<1>3. ExtraKept'
  <2>1. received = NumFlights * FlightSize + extra /\ readBufferBytes' = extra
    BY DEF LoopStatus, BytesKept
  <2>2. NumFlights * FlightSize \in Nat /\ extra \in Int
    BY DEF TypeOK, HandshakeTypeOK
  <2> QED BY <2>1, <2>2 DEF ExtraKept
<1>4. CachedOnly' /\ NamedFromHello'
  BY DEF CachedOnly, NamedFromHello
<1> QED BY <1>1, <1>2, <1>3, <1>4

LEMMA ClientRefusedKeeps ==
    ASSUME IInv, ClientRefused
    PROVE  IInv'
<1> USE DEF IInv, ClientRefused, Fail, schannelVars, bufferVars, credVars
<1>1. TypeOK'
  BY DEF TypeOK, HandshakeTypeOK, Results
<1>2. LoopStatus' /\ BytesKept' /\ HelloFirst' /\ ExtraKept'
  BY DEF LoopStatus, BytesKept, HelloFirst, ExtraKept
<1>3. CachedOnly' /\ NamedFromHello'
  BY DEF CachedOnly, NamedFromHello
<1> QED BY <1>1, <1>2, <1>3

-----------------------------------------------------------------------------
LEMMA NextIInv == IInv /\ [Next]_vars => IInv'
<1> SUFFICES ASSUME IInv, [Next]_vars PROVE IInv'
  OBVIOUS
<1>1. CASE Initialize
  BY <1>1, InitializeKeeps
<1>2. CASE Step
  BY <1>2, ReceiveKeeps, UseCachedKeeps, CreateCredentialsKeeps,
     NoCredentialKeeps, AcceptSecurityContextKeeps, ReplyFailsKeeps, ReplyKeeps,
     ConnectedKeeps, ClientRefusedKeeps
     DEF Step
<1>3. CASE UNCHANGED vars
  <2> USE <1>3 DEF IInv, vars, loopVars, schannelVars, bufferVars, connVars,
                   credVars
  <2>1. TypeOK'
    BY DEF TypeOK, HandshakeTypeOK
  <2>2. LoopStatus' /\ BytesKept' /\ HelloFirst' /\ ExtraKept'
    BY DEF LoopStatus, BytesKept, HelloFirst, ExtraKept
  <2>3. CachedOnly' /\ NamedFromHello'
    BY DEF CachedOnly, NamedFromHello, HelloRead, Requested
  <2> QED BY <2>1, <2>2, <2>3
<1> QED BY <1>1, <1>2, <1>3 DEF Next

\* The inductive invariant of the server's handshakes.
THEOREM Invariant == Spec => []IInv
<1> QED BY InitIInv, NextIInv, PTL DEF Spec

\* Type correctness: the buffer, readPtr and what is cached stay in their ranges.
THEOREM TypeCorrect == Spec => []TypeOK
<1>1. IInv => TypeOK
  BY DEF IInv
<1> QED BY <1>1, Invariant, PTL

\* No credential is left behind: at most one is acquired and not freed, from
\* one connection to the next and whatever failed between (CreateCredentials).
THEOREM OneLiveCredential == Spec => []OneCredential
<1>1. IInv => OneCredential
  <2> SUFFICES ASSUME IInv PROVE Cardinality(live) <= 1
    BY DEF OneCredential
  <2>1. live = {} \/ live = {g_ServerCreds}
    BY DEF IInv, CachedOnly
  <2>2. Cardinality({}) = 0 /\ Cardinality({g_ServerCreds}) = 1
    BY FS_EmptySet, FS_Singleton
  <2> QED BY <2>1, <2>2
<1> QED BY <1>1, Invariant, PTL

\* A client that has said which server it wants is answered with that server's
\* certificate, unless the credential has been freed.
THEOREM CredentialOfTheName == Spec => []NamedCredential
<1>1. IInv => NamedCredential
  BY DEF IInv, NamedFromHello, NamedCredential
<1> QED BY <1>1, Invariant, PTL

\* Application data that comes with the client's last flight is in readBuffer
\* when the handshake is over, all of it and nothing else.
THEOREM ExtraBytesKept == Spec => []ExtraKept
<1>1. IInv => ExtraKept
  BY DEF IInv
<1> QED BY <1>1, Invariant, PTL
=============================================================================

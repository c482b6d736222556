----------------------------- MODULE Handshake ------------------------------
(***************************************************************************)
(* What the two SSPINegotiateLoops have in common: handshake bytes of the  *)
(* peer arrive in pieces, are collected in readBuffer, and are handed to   *)
(* Schannel until it has the whole of the peer's current flight.  The peer *)
(* sends its next flight only when it has our answer to the last, and may  *)
(* append application data to its last flight.                             *)
(***************************************************************************)
EXTENDS Integers

CONSTANTS
    NumFlights, \* flights the peer sends
    FlightSize, \* bytes of a flight
    MaxExtra,   \* bound: application data behind the last flight
    BufferSize  \* sizeof(readBuffer)

ASSUME HandshakeAssumption ==
    /\ NumFlights \in Nat \ {0} /\ FlightSize \in Nat \ {0}
    /\ MaxExtra \in Nat /\ BufferSize \in Nat

VARIABLES
    phase,           \* where in the handshake we are
    scRet,           \* the status the loop goes by
    flight,          \* flights of the peer Schannel has consumed
    due,             \* bytes of the next flight it has not consumed
    received,        \* bytes received on this connection
    readBufferBytes, \* bytes of readBuffer in use (cbIoBuffer in the client)
    extra            \* InBuffers[1].cbBuffer: bytes Schannel has left over

schannelVars == <<flight, due, extra>>
bufferVars   == <<received, readBufferBytes>>
loopVars     == <<phase, scRet, schannelVars, bufferVars>>

Statuses == {"CONTINUE_NEEDED", "INCOMPLETE_MESSAGE", "INCOMPLETE_CREDENTIALS",
             "OK", "FAILED"}

HandshakeTypeOK ==
    /\ scRet \in Statuses
    /\ flight \in 0 .. NumFlights /\ due \in 1 .. FlightSize
    /\ extra \in 0 .. BufferSize
    /\ received \in 0 .. NumFlights * FlightSize + MaxExtra
    /\ readBufferBytes \in 0 .. BufferSize

Last == flight = NumFlights - 1

\* Bytes the peer may have sent by now.
Offered == (flight + 1) * FlightSize + (IF Last THEN MaxExtra ELSE 0)

WholeFlight == readBufferBytes >= due

HandshakeInit ==
    /\ flight = 0 /\ due = FlightSize /\ extra = 0
    /\ received = 0 /\ readBufferBytes = 0

HandshakeRestart ==
    /\ flight' = 0 /\ due' = FlightSize /\ extra' = 0
    /\ received' = 0 /\ readBufferBytes' = 0

\* Mutant: a receive of no bytes is not taken for the end.
ReceivedNone(k) ==
    /\ k <= BufferSize
    /\ UNCHANGED <<bufferVars, schannelVars>>

\* A receive brings k bytes.  With no room left it fails, as every receive may.
Received(k) ==
    /\ k <= BufferSize - readBufferBytes /\ k <= Offered - received
    /\ received' = received + k
    /\ readBufferBytes' = readBufferBytes + k
    /\ UNCHANGED schannelVars

\* What Schannel makes of the buffer: it fails, wants more bytes, consumes the
\* records that are whole, or the rest of the flight.
Reject == scRet' = "FAILED" /\ UNCHANGED schannelVars

NeedMore ==
    /\ ~WholeFlight
    /\ scRet' = "INCOMPLETE_MESSAGE" /\ UNCHANGED schannelVars

ConsumePart(k) ==
    /\ ~WholeFlight /\ k <= readBufferBytes
    /\ scRet' = "CONTINUE_NEEDED"
    /\ due' = due - k /\ extra' = readBufferBytes - k /\ UNCHANGED flight

ConsumeFlight ==
    /\ WholeFlight
    /\ scRet' = (IF Last THEN "OK" ELSE "CONTINUE_NEEDED")
    /\ flight' = flight + 1 /\ due' = FlightSize
    /\ extra' = readBufferBytes - due

\* Application data that came with the handshake is neither lost nor made up.
ExtraKept ==
    phase = "connected" =>
        readBufferBytes = received - NumFlights * FlightSize
=============================================================================

-------------------------- MODULE ClientHandshake ---------------------------
(***************************************************************************)
(* CSSLClient::Initialize, SSPINegotiateLoop, GetNewClientCredentials,     *)
(* Close and Disconnect (tools/scli/SSLClient.cpp): one connection from    *)
(* the client hello to its end.                                            *)
(***************************************************************************)
EXTENDS Handshake, Handle

VARIABLES
    fDoRead,       \* read before the next call of Schannel
    certChecked,   \* the server's certificate was found acceptable
    certUnread,    \* it was there, but a query for it failed
    credsAsked,    \* the server has asked for a certificate we did not send
    result,        \* what Initialize returns, then "closed"
    m_hContext,    \* handle of the security context
    m_ClientCreds, \* handle of the credentials: "first", or "new" ones
    closed,        \* how often each object was closed
    shutdown,      \* ApplyControlToken has told Schannel of the close
    closeNotified, \* a close notify message was sent
    silent         \* the server, or the network, does nothing any more

certVars   == <<certChecked, certUnread>>
handleVars == <<m_hContext, m_ClientCreds, closed>>
closeVars  == <<shutdown, closeNotified, silent>>
clientVars == <<fDoRead, certVars, credsAsked, result, handleVars, closeVars>>
vars       == <<loopVars, clientVars>>

Objects == {"context", "first", "new"}

TypeOK ==
    /\ HandshakeTypeOK
    /\ phase \in {"new", "hello", "loop", "call", "reply", "after",
                  "connected", "failed", "closed", "destroyed"}
    /\ {fDoRead, certChecked, certUnread, credsAsked} \subseteq BOOLEAN
    /\ {shutdown, closeNotified, silent} \subseteq BOOLEAN
    /\ result \in {"none", "S_OK", "INTERNAL_ERROR", "UNKNOWN_CREDENTIALS",
                   "CREDENTIALS", "SCHANNEL"}
    /\ m_hContext \in {Invalid, "context"}
    /\ m_ClientCreds \in {Invalid, "first", "new"}
    /\ closed \in [Objects -> 0 .. 2]

Init ==
    /\ phase = "new" /\ scRet = "CONTINUE_NEEDED"
    /\ HandshakeInit
    /\ fDoRead = TRUE /\ credsAsked = FALSE
    /\ certChecked = FALSE /\ certUnread = FALSE
    /\ result = "none" /\ m_hContext = Invalid /\ m_ClientCreds = Invalid
    /\ closed = [o \in Objects |-> 0]
    /\ shutdown = FALSE /\ closeNotified = FALSE /\ silent = FALSE

\* SSPINegotiateLoop returns an error, after m_hContext.Close() or without it:
\* the handle keeps its value either way.
Fail(why)         == phase' = "failed" /\ result' = why /\ UNCHANGED handleVars
FailAndClose(why) == /\ phase' = "failed" /\ result' = why
                     /\ closed' = CloseHandle(m_hContext, closed)
                     /\ UNCHANGED <<m_hContext, m_ClientCreds>>

-----------------------------------------------------------------------------
\* Credentials, with the certificate SelectClientCertificate offers or none.
Initialize ==
    /\ phase = "new"
    /\ \/ /\ phase' = "hello" /\ m_ClientCreds' = "first"
          /\ UNCHANGED <<result, m_hContext, closed>>
       \/ Fail("CREDENTIALS")
    /\ UNCHANGED <<scRet, schannelVars, bufferVars, fDoRead, certVars,
                   credsAsked, closeVars>>

\* The first call of Schannel makes the client hello, which is sent.
ClientHello ==
    /\ phase = "hello"
    /\ \/ Fail("SCHANNEL")
       \/ /\ phase' = "failed" /\ result' = "INTERNAL_ERROR"
          /\ m_hContext' = "context" /\ closed' = CloseHandle(m_hContext', closed)
          /\ UNCHANGED m_ClientCreds
       \/ /\ phase' = "loop" /\ m_hContext' = "context"
          /\ UNCHANGED <<result, m_ClientCreds, closed>>
    /\ UNCHANGED <<scRet, schannelVars, bufferVars, fDoRead, certVars,
                   credsAsked, closeVars>>

ReadsMore == readBufferBytes = 0 \/ scRet = "INCOMPLETE_MESSAGE"

Read ==
    /\ phase = "loop" /\ ReadsMore /\ fDoRead
    /\ \/ /\ ~silent /\ \E k \in 1 .. BufferSize : Received(k)
          /\ phase' = "call" /\ UNCHANGED <<scRet, result, handleVars>>
       \/ /\ FailAndClose("INTERNAL_ERROR") /\ scRet' = "FAILED"
          /\ UNCHANGED <<schannelVars, bufferVars>>
    /\ UNCHANGED <<fDoRead, certVars, credsAsked, closeVars>>

SkipRead ==
    /\ phase = "loop" /\ ~(ReadsMore /\ fDoRead)
    /\ phase' = "call" /\ fDoRead' = (fDoRead \/ ReadsMore)
    /\ UNCHANGED <<scRet, schannelVars, bufferVars, certVars, credsAsked,
                   result, handleVars, closeVars>>

WantsCredentials ==
    /\ WholeFlight /\ ~Last /\ ~credsAsked
    /\ scRet' = "INCOMPLETE_CREDENTIALS" /\ UNCHANGED schannelVars

\* When the server asks for a certificate Schannel wants other credentials, and
\* consumes the same bytes after that.
InitializeSecurityContext ==
    /\ phase = "call"
    /\ \/ NeedMore /\ phase' = "loop" /\ UNCHANGED credsAsked
       \/ /\ ConsumeFlight \/ \E k \in 1 .. FlightSize : ConsumePart(k)
          /\ phase' = "reply" /\ UNCHANGED credsAsked
       \/ WantsCredentials /\ phase' = "after" /\ credsAsked' = TRUE
       \/ Reject /\ phase' \in {"reply", "after"} /\ UNCHANGED credsAsked
    /\ UNCHANGED <<bufferVars, fDoRead, certVars, result, handleVars,
                   closeVars>>

\* The server's certificate is there once its first flight is consumed.
CertKnown == flight > 0

\* The certificate is read, and not acceptable.
CertRefused ==
    /\ phase = "reply" /\ CertKnown
    /\ Fail("UNKNOWN_CREDENTIALS")
    /\ UNCHANGED <<scRet, schannelVars, bufferVars, fDoRead, certVars,
                   credsAsked, closeVars>>

\* Mutant: with a certificate of our own we trust the server's.
ReplyTrusting ==
    /\ phase = "reply"
    /\ certChecked' = (certChecked \/ (CertKnown /\ ~credsAsked))
    /\ phase' = "after"
    /\ UNCHANGED <<scRet, schannelVars, bufferVars, fDoRead, certUnread,
                   credsAsked, result, handleVars, closeVars>>

\* The certificate is read and acceptable, or the query fails, which is logged
\* and no more.  Then Schannel's token, if there is one, is sent.
Reply ==
    /\ phase = "reply"
    /\ \/ CertKnown /\ certChecked' = TRUE /\ UNCHANGED certUnread
       \/ certUnread' = (certUnread \/ CertKnown) /\ UNCHANGED certChecked
    /\ \/ phase' = "after" /\ UNCHANGED <<result, handleVars>>
       \/ FailAndClose("INTERNAL_ERROR")
    /\ UNCHANGED <<scRet, schannelVars, bufferVars, fDoRead, credsAsked, closeVars>>

-----------------------------------------------------------------------------
\* The rest of the loop's body, by scRet.  What Schannel has not consumed moves
\* to the start of readBuffer.  Initialize has yet to ask for the sizes of
\* header and trailer.
Connected ==
    /\ phase = "after" /\ scRet = "OK" /\ readBufferBytes' = extra
    /\ \/ phase' = "connected" /\ result' = "S_OK" /\ UNCHANGED handleVars
       \/ Fail("SCHANNEL")
    /\ UNCHANGED <<scRet, schannelVars, received, fDoRead, certVars,
                   credsAsked, closeVars>>

SchannelFailed ==
    /\ phase = "after" /\ scRet = "FAILED"
    /\ FailAndClose("SCHANNEL")
    /\ UNCHANGED <<scRet, schannelVars, bufferVars, fDoRead, certVars,
                   credsAsked, closeVars>>

\* m_ClientCreds = std::move(hCreds): the handle there was is closed.
MoveAssign(creds) ==
    /\ m_ClientCreds' = Attach(m_ClientCreds, creds, closed).value
    /\ closed' = Attach(m_ClientCreds, creds, closed).closed
    /\ UNCHANGED m_hContext

\* Mutant: the buffered bytes are given up, and more are read.
GetNewClientCredentialsReads ==
    /\ phase = "after" /\ scRet = "INCOMPLETE_CREDENTIALS"
    /\ MoveAssign("new") /\ readBufferBytes' = 0
    /\ scRet' = "CONTINUE_NEEDED" /\ phase' = "loop"
    /\ UNCHANGED <<schannelVars, received, fDoRead, certVars, credsAsked,
                   result, closeVars>>

\* The bytes that asked for credentials are used again: no read before that.
GetNewClientCredentials ==
    /\ phase = "after" /\ scRet = "INCOMPLETE_CREDENTIALS"
    /\ MoveAssign("new") /\ fDoRead' = FALSE
    /\ scRet' = "CONTINUE_NEEDED" /\ phase' = "loop"
    /\ UNCHANGED <<schannelVars, bufferVars, certVars, credsAsked, result,
                   closeVars>>

NoNewCredentials ==
    /\ phase = "after" /\ scRet = "INCOMPLETE_CREDENTIALS"
    /\ FailAndClose("CREDENTIALS") /\ scRet' = "FAILED"
    /\ UNCHANGED <<schannelVars, bufferVars, fDoRead, certVars, credsAsked,
                   closeVars>>

NextFlight ==
    /\ phase = "after" /\ scRet = "CONTINUE_NEEDED"
    /\ phase' = "loop" /\ readBufferBytes' = extra
    /\ UNCHANGED <<scRet, schannelVars, received, fDoRead, certVars,
                   credsAsked, result, handleVars, closeVars>>

\* Disconnect clears the output buffer and takes its message from there
\* (lines 823-832) without asking Schannel to fill it.
pbMessage == <<>>

\* Close: the shutdown token is applied, the message sent if there is one, and
\* the socket shut down.
Close ==
    /\ phase = "connected" /\ phase' = "closed"
    /\ shutdown' \in BOOLEAN
    /\ closeNotified' = (shutdown' /\ pbMessage # <<>>)
    /\ UNCHANGED <<silent, scRet, schannelVars, bufferVars, fDoRead, certVars,
                   credsAsked, result, handleVars>>

\* The handles are members, their destructors close what they hold.
Destroy ==
    /\ phase \in {"connected", "failed", "closed"} /\ phase' = "destroyed"
    /\ closed' = CloseHandle(m_ClientCreds, CloseHandle(m_hContext, closed))
    /\ UNCHANGED <<scRet, schannelVars, bufferVars, fDoRead, certVars,
                   credsAsked, result, m_hContext, m_ClientCreds, closeVars>>

\* From here on the server neither sends, takes nor closes anything.
GoSilent ==
    /\ ~silent /\ silent' = TRUE
    /\ UNCHANGED <<loopVars, fDoRead, certVars, credsAsked, result, handleVars,
                   shutdown, closeNotified>>

-----------------------------------------------------------------------------
Loop ==
    \/ Read \/ SkipRead \/ InitializeSecurityContext \/ CertRefused \/ Reply
    \/ Connected \/ SchannelFailed \/ GetNewClientCredentials
    \/ NoNewCredentials \/ NextFlight

Next == Initialize \/ ClientHello \/ Loop \/ Close \/ Destroy \/ GoSilent

Spec == Init /\ [][Next]_vars

\* A server that is there answers, or closes at its own deadline: a receive
\* returns.  The client's deadline is no help: once it has passed a receive
\* waits some 49 days (ActiveSock).
FairSpec == Spec /\ WF_vars(~silent /\ Loop)

-----------------------------------------------------------------------------
\* No connection without a look at the server's certificate: Schannel is told
\* not to validate it, so the loop has to, before its own last answer.  The one
\* way round it is that Schannel does not hand out the certificate it has.
CertificateSeen == phase = "connected" => certChecked \/ certUnread

\* "We'll check the certificate ourselves" (SSLClient.cpp:421), whatever a query
\* returns.  Violated: a query that fails is logged (605), and the loop goes on.
CertificateAlwaysSeen == phase = "connected" => certChecked

\* Client and server never both wait for the other: where the loop reads, the
\* server has bytes to send that were not received yet.
ServerTurn ==
    phase = "loop" /\ ReadsMore /\ fDoRead => received < Offered

\* Schannel is given no handle that was closed, neither when other credentials
\* replace the first in the middle of a handshake nor after it.
HandlesLive ==
    phase \in {"hello", "loop", "call", "reply", "after", "connected",
              "closed"} =>
        /\ m_ClientCreds # Invalid /\ closed[m_ClientCreds] = 0
        /\ m_hContext # Invalid => closed[m_hContext] = 0

\* When the CSSLClient is gone nothing it acquired is left open, and credentials
\* were freed once; so was the security context of a handshake that succeeded.
HandlesReleased ==
    phase = "destroyed" =>
        /\ m_ClientCreds = "new" => closed["first"] = 1
        /\ m_ClientCreds # Invalid => closed[m_ClientCreds] = 1
        /\ m_hContext # Invalid =>
               closed["context"] \in IF result = "S_OK" THEN {1} ELSE {1, 2}

\* Nothing is closed twice.  Violated: Close leaves the handle its value, and
\* the destructor closes again.
ClosedOnce == \A o \in Objects : closed[o] <= 1

\* A handshake ends, with a connection or without, unless the server stops
\* doing anything: the two never wait for one another's bytes for ever.
HandshakeEnds == phase = "loop" ~> phase \in {"connected", "failed"} \/ silent

\* "Otherwise, we will attempt to connect anonymously (using our current
\* credentials)" (SSLClient.cpp:728): without new credentials the handshake
\* goes on.
AnonymousAttempt ==
    phase = "failed" /\ credsAsked /\ m_ClientCreds = "first" =>
        result # "CREDENTIALS"

\* "Send the close notify message to the server" (SSLClient.cpp:836).
CloseNotifySent == phase = "closed" /\ shutdown => closeNotified
=============================================================================

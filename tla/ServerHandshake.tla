-------------------------- MODULE ServerHandshake ---------------------------
(***************************************************************************)
(* CSSLServer::Initialize and SSPINegotiateLoop (tools/ssrv/SSLServer.cpp) *)
(* for one connection after another, all on the listener's thread, with    *)
(* the credential that is cached in a static between the connections.      *)
(***************************************************************************)
EXTENDS Handshake, FiniteSets

CONSTANTS
    Names,        \* names a client may ask for
    HostName,     \* GetHostName()
    NoName,       \* the empty CString: no SNI, nothing cached
    Handles,      \* values of a CredHandle
    NoHandle      \* the CredHandle {0}

ASSUME ServerAssumption ==
    HostName \in Names /\ NoName \notin Names /\ NoHandle \notin Handles

VARIABLES
    sni,           \* the name in this client's hello
    readPtr,       \* where in readBuffer Recv will go on
    hr,            \* what Initialize returns
    refused,       \* the client's certificate was not acceptable
    g_ServerCreds, \* the cached credential
    g_ServerName,  \* the name it was made for
    live,          \* handles acquired and not freed
    credName       \* the name of each handle's certificate

connVars  == <<sni, readPtr, hr, refused>>
credVars  == <<g_ServerCreds, g_ServerName, live, credName>>
vars      == <<loopVars, connVars, credVars>>

Results == {"none", "S_OK", "E_FAIL", "SOCKET", "INTERNAL_ERROR",
            "SYSCALLFAILURE", "SCHANNEL", "CERT_UNKNOWN"}

TypeOK ==
    /\ HandshakeTypeOK
    /\ phase \in {"idle", "receive", "select", "accept", "reply", "check",
                  "connected", "failed"}
    /\ sni \in Names \cup {NoName}
    /\ readPtr \in 0 .. BufferSize
    /\ hr \in Results /\ refused \in BOOLEAN
    /\ g_ServerCreds \in Handles \cup {NoHandle}
    /\ g_ServerName \in Names \cup {NoName}
    /\ live \subseteq Handles
    /\ credName \in [Handles -> Names]

Init ==
    /\ phase = "idle" /\ scRet = "INCOMPLETE_MESSAGE"
    /\ HandshakeInit
    /\ sni = NoName /\ readPtr = 0 /\ hr = "none" /\ refused = FALSE
    /\ g_ServerCreds = NoHandle /\ g_ServerName = NoName
    /\ live = {} /\ credName = [h \in Handles |-> HostName]

\* Initialize returns an error.
Fail(why) == phase' = "failed" /\ hr' = why

\* The next connection, with a CSSLServer of its own.
Initialize ==
    /\ phase \in {"idle", "connected", "failed"}
    /\ phase' = "receive" /\ scRet' = "INCOMPLETE_MESSAGE"
    /\ HandshakeRestart
    /\ sni' \in Names \cup {NoName}
    /\ readPtr' = 0 /\ hr' = "none" /\ refused' = FALSE
    /\ UNCHANGED credVars

\* CSSLHelper finds a client hello when the buffer holds the whole of it.
HelloSeen == flight = 0 /\ readBufferBytes' >= FlightSize

Receive ==
    /\ phase = "receive"
    /\ \/ /\ \E k \in 1 .. BufferSize : Received(k)
          /\ phase' = IF HelloSeen THEN "select" ELSE "accept"
          /\ UNCHANGED hr
       \/ Fail("SOCKET") /\ UNCHANGED <<schannelVars, bufferVars>>
    /\ UNCHANGED <<scRet, sni, readPtr, refused, credVars>>

Requested == IF sni = NoName THEN HostName ELSE sni

\* Mutant: any credential will do.
NeedsAnyCredential == g_ServerCreds = NoHandle

\* "Requested names are different", or there is no handle stored.
NeedsCredential == g_ServerCreds = NoHandle \/ sni # g_ServerName

UseCached ==
    /\ phase = "select" /\ ~NeedsCredential
    /\ phase' = "accept"
    /\ UNCHANGED <<scRet, schannelVars, bufferVars, connVars, credVars>>

\* Mutant: it is not.
Unfreed == live

\* The old credential is freed first.
Freed == live \ {g_ServerCreds}

CreateCredentials ==
    /\ phase = "select" /\ NeedsCredential
    /\ phase' = "accept"
    /\ g_ServerName' = Requested
    /\ \E h \in Handles \ Freed :
        /\ g_ServerCreds' = h /\ live' = Freed \cup {h}
        /\ credName' = [credName EXCEPT ![h] = Requested]
    /\ UNCHANGED <<scRet, schannelVars, bufferVars, connVars>>

\* No certificate is found, by the SelectServerCert callback or, without one,
\* by CertFindServerByName, which clears the cached name as well.
SelectFails ==
    /\ phase = "select" /\ NeedsCredential
    /\ Fail("INTERNAL_ERROR") /\ scRet' = "FAILED"
    /\ g_ServerName' \in {g_ServerName, NoName} /\ live' = Freed
    /\ UNCHANGED <<schannelVars, bufferVars, sni, readPtr, refused,
                   g_ServerCreds, credName>>

AcquireFails ==
    /\ phase = "select" /\ NeedsCredential
    /\ Fail("INTERNAL_ERROR") /\ scRet' = "FAILED"
    /\ g_ServerName' = Requested /\ live' = Freed
    /\ UNCHANGED <<schannelVars, bufferVars, sni, readPtr, refused,
                   g_ServerCreds, credName>>

-----------------------------------------------------------------------------
\* The hello is one record, later flights are several.
Consume ==
    ConsumeFlight \/ (flight > 0 /\ \E k \in 1 .. FlightSize : ConsumePart(k))

AcceptSecurityContext ==
    /\ phase = "accept"
    /\ \/ NeedMore /\ phase' = "receive"
       \/ (Consume \/ Reject) /\ phase' = "reply"
    /\ UNCHANGED <<bufferVars, connVars, credVars>>

ReplyFails ==
    /\ phase = "reply" /\ Fail("SOCKET")
    /\ UNCHANGED <<scRet, schannelVars, bufferVars, sni, readPtr, refused,
                   credVars>>

\* Schannel's token, if there is one, is sent.
Reply ==
    /\ phase = "reply"
    /\ \/ /\ scRet = "OK" /\ phase' = "check"
          /\ UNCHANGED <<readBufferBytes, readPtr, hr>>
       \/ /\ scRet = "FAILED" /\ Fail("SCHANNEL")
          /\ UNCHANGED <<readBufferBytes, readPtr>>
       \/ /\ scRet = "CONTINUE_NEEDED" /\ extra = 0
          /\ phase' = "receive" /\ readBufferBytes' = 0 /\ readPtr' = 0
          /\ UNCHANGED hr
       \/ /\ scRet = "CONTINUE_NEEDED" /\ extra > 0
          /\ Fail("SYSCALLFAILURE")
          /\ readBufferBytes' = extra /\ readPtr' = readBufferBytes - extra
    /\ UNCHANGED <<scRet, schannelVars, received, sni, refused, credVars>>

\* Mutant: the extra bytes are dropped.
ConnectedWithout ==
    /\ phase = "check" /\ phase' = "connected" /\ hr' = "S_OK"
    /\ readBufferBytes' = 0 /\ readPtr' = 0
    /\ UNCHANGED <<scRet, schannelVars, received, sni, refused, credVars>>

\* The client's certificate is acceptable, not asked for, or not to be had.
\* Initialize has yet to ask for the sizes of header and trailer.
Connected ==
    /\ phase = "check"
    /\ (phase' = "connected" /\ hr' = "S_OK") \/ Fail("E_FAIL")
    /\ readBufferBytes' = extra
    /\ readPtr' = (IF extra > 0 THEN readBufferBytes - extra ELSE 0)
    /\ UNCHANGED <<scRet, schannelVars, received, sni, refused, credVars>>

\* m_LastError is 0: GetLastError gives the socket's, or Initialize E_FAIL.
ClientRefused ==
    /\ phase = "check" /\ refused' = TRUE
    /\ (Fail("E_FAIL") \/ Fail("SOCKET"))
    /\ UNCHANGED <<scRet, schannelVars, bufferVars, sni, readPtr, credVars>>

-----------------------------------------------------------------------------
Step ==
    \/ Receive \/ UseCached \/ CreateCredentials \/ SelectFails \/ AcquireFails
    \/ AcceptSecurityContext \/ ReplyFails \/ Reply
    \/ Connected \/ ClientRefused

Next == Initialize \/ Step

Spec == Init /\ [][Next]_vars

\* A receive returns, at its deadline at the latest.
FairSpec == Spec /\ WF_vars(Step)

-----------------------------------------------------------------------------
\* This client's hello was whole when it was looked at.
HelloRead == flight > 0 \/ readBufferBytes >= FlightSize

\* A credential is freed before the next is acquired: none is left behind,
\* whatever fails on the way.
OneCredential == Cardinality(live) <= 1

\* A client that has said which server it wants is answered with that server's
\* certificate, whoever asked for which before it and whatever failed then: the
\* cached credential, if it has not been freed, is the one for this name.
NamedCredential ==
    phase = "accept" /\ HelloRead /\ g_ServerCreds \in live =>
        credName[g_ServerCreds] = Requested

\* "Which certificate to use, already established" (SSLServer.cpp:490): the
\* credential given to AcceptSecurityContext for a client hello is one that has
\* not been freed.
CredentialEstablished ==
    phase = "accept" /\ HelloRead => g_ServerCreds \in live

\* "The returned client certificate was unacceptable" (Transport.cpp:49): the
\* code that stands for, SEC_E_CERT_UNKNOWN, is returned for such a client.
RefusalReported == phase = "failed" /\ refused => hr = "CERT_UNKNOWN"

\* A handshake ends, with a connection or without.
HandshakeEnds == phase = "receive" ~> phase \in {"connected", "failed"}
=============================================================================

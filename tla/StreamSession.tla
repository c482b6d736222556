--------------------------- MODULE StreamSession ----------------------------
(***************************************************************************)
(* One connection between the two programs: StreamClient's main and the    *)
(* lambda StreamServer runs for it on a worker thread, over whole messages *)
(* (the modules of the components show what lies beneath), down to the     *)
(* deletion of the CTransport with its CSSLServer and its CPassiveSock.    *)
(* Both programs send first and ignore whether that went well.             *)
(***************************************************************************)
EXTENDS Conversation, Naturals

CONSTANT Room      \* messages TCP takes from a sender ahead of the reader

ASSUME RoomAssumption == Room \in Nat \ {0}

VARIABLE stop      \* the server's stop event

serverVars == <<server, receiving, arrived>>
netVars    == <<ops, flight, got>>
vars       == <<client, serverVars, netVars, closed, cut, stop, gaveUp>>

Other(s) == CHOOSE t \in Sides : t # s

TypeOK ==
    /\ client \in {"greet", "sending", "listen", "close", "ended"}
    /\ server \in {"hello", "hello sending", "recv", "wait", "goodbye",
                  "goodbye sending", "delete", "freed", "ended"}
    /\ ops \in [Sides -> Seq(Messages)] /\ flight \in [Sides -> Seq(Messages)]
    /\ got \in [Sides -> Seq(Messages)]
    /\ receiving \in BOOLEAN /\ arrived \in {"none", "data", "closed"}
    /\ closed \subseteq Sides /\ cut \in BOOLEAN /\ stop \in BOOLEAN
    /\ gaveUp \subseteq Sides

\* The TLS handshake has been made, or one side has refused the other after
\* the other was content.
Init ==
    /\ \/ client = "greet" /\ server = "hello"  /\ gaveUp = {}
       \/ client = "close" /\ server = "hello"  /\ gaveUp = {"client"}
       \/ client = "greet" /\ server = "delete" /\ gaveUp = {"server"}
    /\ ops = [s \in Sides |-> <<>>] /\ flight = ops /\ got = ops
    /\ receiving = FALSE /\ arrived = "none"
    /\ closed = {} /\ cut = FALSE /\ stop = FALSE

Dead(s) == cut \/ Other(s) \in closed

-----------------------------------------------------------------------------
\* A message is encrypted in the side's writeBuffer and given to the kernel.  A
\* send given up earlier is still reading that buffer, and the session counts
\* on the record it does not send: the other side can read no more.
Post(s, m) ==
    ops' = [ops EXCEPT ![s] =
              IF @ = <<>> THEN <<m>>
              ELSE [i \in 1 .. Len(@) + 1 |-> "garbage"]]

KernelSend(s) ==
    /\ ops[s] # <<>> /\ Len(flight[s]) < Room /\ ~Dead(s)
    /\ flight' = [flight EXCEPT ![s] = Append(@, Head(ops[s]))]
    /\ ops' = [ops EXCEPT ![s] = Tail(@)]
    /\ UNCHANGED <<client, serverVars, got, closed, cut, stop, gaveUp>>

\* The kernel writes to the server's readBuffer.
KernelRecv ==
    /\ receiving /\ ~cut /\ receiving' = FALSE
    /\ \/ /\ flight["client"] # <<>> /\ arrived' = "data"
          /\ flight' = [flight EXCEPT !["client"] = Tail(@)]
          /\ got' = [got EXCEPT !["server"] = Append(@, Head(flight["client"]))]
       \/ /\ flight["client"] = <<>> /\ "client" \in closed
          /\ arrived' = "closed" /\ UNCHANGED <<flight, got>>
    /\ UNCHANGED <<client, server, ops, closed, cut, stop, gaveUp>>

Cut ==
    /\ ~cut /\ cut' = TRUE
    /\ UNCHANGED <<client, serverVars, netVars, closed, stop, gaveUp>>

\* A key is pressed on the server: EndListening sets the stop event.
SetStop ==
    /\ ~stop /\ stop' = TRUE
    /\ UNCHANGED <<client, serverVars, netVars, closed, cut, gaveUp>>

-----------------------------------------------------------------------------
\* The worker's lambda.
ServerSend(at, m, next) ==
    /\ server = at /\ server' = next /\ Post("server", m)
    /\ UNCHANGED <<client, receiving, arrived, flight, got, closed, cut, stop,
                   gaveUp>>

Hello == ServerSend("hello", "hello", "hello sending")
Goodbye == ServerSend("goodbye", "goodbye", "goodbye sending")

AfterSend == IF server = "hello sending" THEN "recv" ELSE "delete"

\* Mutant: the worker does not wait for its message to go.
ServerSentAtOnce ==
    /\ server \in {"hello sending", "goodbye sending"}
    /\ server' = AfterSend
    /\ UNCHANGED <<client, receiving, arrived, netVars, closed, cut, stop, gaveUp>>

ServerSent ==
    /\ server \in {"hello sending", "goodbye sending"} /\ ops["server"] = <<>>
    /\ server' = AfterSend
    /\ UNCHANGED <<client, receiving, arrived, netVars, closed, cut, stop, gaveUp>>

\* A timeout, a stop or a dead connection: the worker goes on as if nothing
\* were wrong, and the kernel with the send.
ServerSendFails ==
    /\ server \in {"hello sending", "goodbye sending"}
    /\ server' = AfterSend /\ gaveUp' = gaveUp \cup {"server"}
    /\ UNCHANGED <<client, receiving, arrived, netVars, closed, cut, stop>>

ServerRecv ==
    /\ server = "recv" /\ server' = "wait" /\ receiving' = TRUE
    /\ UNCHANGED <<client, arrived, netVars, closed, cut, stop, gaveUp>>

ServerReceived ==
    /\ server = "wait" /\ arrived # "none"
    /\ server' = IF arrived = "data" THEN "goodbye" ELSE "delete"
    /\ UNCHANGED <<client, receiving, arrived, netVars, closed, cut, stop, gaveUp>>

\* "No response data received": the receive stays with the kernel.
ServerRecvGivesUp ==
    /\ server = "wait" /\ server' = "delete"
    /\ gaveUp' = gaveUp \cup {"server"}
    /\ UNCHANGED <<client, receiving, arrived, netVars, closed, cut, stop>>

\* delete Transport: the CSSLServer and its buffers first,
DeleteSSLServer ==
    /\ server = "delete" /\ server' = "freed"
    /\ UNCHANGED <<client, receiving, arrived, netVars, closed, cut, stop, gaveUp>>

\* Mutant: the destructor leaves the CPassiveSock alone.
KeepPassiveSock ==
    /\ server = "freed" /\ server' = "ended"
    /\ UNCHANGED <<client, receiving, arrived, netVars, closed, cut, stop, gaveUp>>

\* then the CPassiveSock, which closes the socket and so ends its operations.
DeletePassiveSock ==
    /\ server = "freed" /\ server' = "ended"
    /\ closed' = closed \cup {"server"}
    /\ receiving' = FALSE /\ ops' = [ops EXCEPT !["server"] = <<>>]
    /\ UNCHANGED <<client, arrived, flight, got, cut, stop, gaveUp>>

-----------------------------------------------------------------------------
\* StreamClient's main after Initialize.
Greet ==
    /\ client = "greet" /\ client' = "sending" /\ Post("client", "greeting")
    /\ UNCHANGED <<serverVars, flight, got, closed, cut, stop, gaveUp>>

Greeted ==
    /\ client = "sending" /\ ops["client"] = <<>> /\ client' = "listen"
    /\ UNCHANGED <<serverVars, netVars, closed, cut, stop, gaveUp>>

\* "Wrong number of characters sent"
GreetFails ==
    /\ client = "sending" /\ client' = "listen"
    /\ gaveUp' = gaveUp \cup {"client"}
    /\ UNCHANGED <<serverVars, netVars, closed, cut, stop>>

\* Mutant: the client reads once.
ReadMessageOnce ==
    /\ client = "listen" /\ flight["server"] # <<>> /\ ~cut
    /\ client' = "close"
    /\ flight' = [flight EXCEPT !["server"] = Tail(@)]
    /\ got' = [got EXCEPT !["client"] = Append(@, Head(flight["server"]))]
    /\ UNCHANGED <<serverVars, ops, closed, cut, stop, gaveUp>>

\* "while (0 < (len = pSSLClient->RecvPartial(Msg, sizeof(Msg))))"
ReadMessage ==
    /\ client = "listen" /\ flight["server"] # <<>> /\ ~cut
    /\ flight' = [flight EXCEPT !["server"] = Tail(@)]
    /\ IF Head(flight["server"]) = "garbage"
       THEN client' = "close" /\ UNCHANGED got
       ELSE /\ got' = [got EXCEPT !["client"] = Append(@, Head(flight["server"]))]
            /\ UNCHANGED client
    /\ UNCHANGED <<serverVars, ops, closed, cut, stop, gaveUp>>

\* RecvPartial returns no bytes: the server has closed.
ReadEnd ==
    /\ client = "listen" /\ flight["server"] = <<>> /\ ~cut
    /\ "server" \in closed /\ client' = "close"
    /\ UNCHANGED <<serverVars, netVars, closed, cut, stop, gaveUp>>

ReadTimeout ==
    /\ client = "listen" /\ client' = "close"
    /\ gaveUp' = gaveUp \cup {"client"}
    /\ UNCHANGED <<serverVars, netVars, closed, cut, stop>>

\* pSSLClient->Close(), or pActiveSock->Close() alone after a failure.
CloseClient ==
    /\ client = "close" /\ client' = "ended"
    /\ closed' = closed \cup {"client"}
    /\ flight' = [flight EXCEPT !["server"] = <<>>]
    /\ ops' = [ops EXCEPT !["client"] = <<>>]
    /\ UNCHANGED <<serverVars, got, cut, stop, gaveUp>>

-----------------------------------------------------------------------------
Kernel == (\E s \in Sides : KernelSend(s)) \/ KernelRecv

Worker ==
    \/ Hello \/ Goodbye \/ ServerSent \/ ServerRecv \/ ServerReceived
    \/ DeleteSSLServer \/ DeletePassiveSock

StreamClient == Greet \/ Greeted \/ ReadMessage \/ ReadEnd \/ CloseClient

Next ==
    \/ Kernel \/ Cut \/ SetStop
    \/ Worker \/ ServerSendFails \/ ServerRecvGivesUp
    \/ StreamClient \/ GreetFails \/ ReadTimeout

Spec == Init /\ [][Next]_vars

\* The threads run, TCP delivers, a send on a dead connection fails, and the
\* server's receive times out (PassiveSock: its wait is bounded).  No other
\* timeout can be relied on: the deadlines of sends, and all of the client's,
\* once passed are 49 days away.
FairSpec ==
    /\ Spec
    /\ WF_vars(Kernel) /\ WF_vars(Worker) /\ WF_vars(StreamClient)
    /\ WF_vars(ServerRecvGivesUp)
    /\ WF_vars(ServerSendFails /\ Dead("server"))
    /\ WF_vars(GreetFails /\ Dead("client"))

-----------------------------------------------------------------------------
\* Both programs come to their end, neither waits for the other for ever: with
\* no timeout of its own the client ends because the server does.
BothEnd == <>(server = "ended") /\ <>(client = "ended" \/ cut)
=============================================================================

------------------------------ MODULE Listener ------------------------------
(***************************************************************************)
(* CListener and CTransport (tools/ssrv): the main thread starts and stops *)
(* the listener, the listener thread accepts connections on one socket per *)
(* address family and sets up TLS for each itself, and a worker thread per *)
(* connection runs the program's lambda.  Everything a connection does is  *)
(* a single step here: each socket call returns, for it has a deadline and *)
(* the stop event (see PassiveSock).                                       *)
(***************************************************************************)
EXTENDS Naturals, Sequences, SequencesExt

CONSTANTS
    Conns,              \* clients' connections, each used again and again
    m_iNumListenSockets,
    INVALID_SOCKET      \* no connection

ASSUME ListenerAssumption ==
    m_iNumListenSockets \in Nat \ {0} /\ INVALID_SOCKET \notin Conns

VARIABLES
    main,       \* main thread: "starting", "running", "ending", "ended",
                \* "freed"
    listener,   \* listener thread: "none", or where in Listen it is
    iMyIndex,   \* the socket whose event was seen
    iReadSocket,\* the connection being set up, if any
    workers,    \* connections with a worker thread
    m_WorkerThreadCount,
    stop,       \* m_StopEvent
    events,     \* m_hSocketEvents that are set
    posted,     \* sockets with an FD_ACCEPT that accept has not answered
    backlog     \* per socket: connections that wait for accept

mainVars   == <<main, stop>>
threadVars == <<listener, iMyIndex, iReadSocket, workers, m_WorkerThreadCount>>
netVars    == <<events, posted, backlog>>
vars       == <<mainVars, threadVars, netVars>>

Sockets == 1 .. m_iNumListenSockets

Waiting == UNION {ToSet(backlog[s]) : s \in Sockets}

TypeOK ==
    /\ main \in {"starting", "running", "ending", "ended", "freed"}
    /\ listener \in {"none", "wait", "reset", "accept", "transport", "drain",
                    "done"}
    /\ iMyIndex \in Sockets /\ iReadSocket \in Conns \cup {INVALID_SOCKET}
    /\ workers \subseteq Conns /\ m_WorkerThreadCount \in Nat
    /\ stop \in BOOLEAN
    /\ events \subseteq Sockets /\ posted \subseteq Sockets
    /\ \A s \in Sockets :
        IsInjective(backlog[s]) /\ ToSet(backlog[s]) \subseteq Conns

Init ==
    /\ main = "starting" /\ stop = FALSE
    /\ listener = "none" /\ iMyIndex = 1 /\ iReadSocket = INVALID_SOCKET
    /\ workers = {} /\ m_WorkerThreadCount = 0
    /\ events = {} /\ posted = {}
    /\ backlog = [s \in Sockets |-> <<>>]

-----------------------------------------------------------------------------
\* Clients and TCP.  An arrival sets the socket's event unless an FD_ACCEPT is
\* already posted; a client may go away again before it is accepted.
Connect(c, s) ==
    /\ c \notin Waiting \cup workers \cup {iReadSocket}
    /\ backlog' = [backlog EXCEPT ![s] = Append(@, c)]
    /\ posted' = posted \cup {s}
    /\ events' = events \cup ({s} \ posted)
    /\ UNCHANGED <<mainVars, threadVars>>

GoAway(c, s) ==
    /\ \E i \in DOMAIN backlog[s] :
        backlog[s][i] = c /\ backlog' = [backlog EXCEPT ![s] = RemoveAt(@, i)]
    /\ UNCHANGED <<mainVars, threadVars, events, posted>>

-----------------------------------------------------------------------------
\* The main thread.
BeginListening ==
    /\ main = "starting" /\ main' = "running"
    /\ listener' = "wait"
    /\ m_WorkerThreadCount' = 0
    /\ UNCHANGED <<stop, iMyIndex, iReadSocket, workers, netVars>>

EndListening ==
    /\ main = "running" /\ main' = "ending" /\ stop' = TRUE
    /\ UNCHANGED <<threadVars, netVars>>

\* Mutant: EndListening does not wait.
ThreadEndedUnseen ==
    /\ main = "ending" /\ main' = "ended"
    /\ UNCHANGED <<stop, threadVars, netVars>>

ThreadEnded ==
    /\ main = "ending" /\ listener = "done" /\ main' = "ended"
    /\ UNCHANGED <<stop, threadVars, netVars>>

\* ~CListener: closesocket on every listening socket.
Destroy ==
    /\ main = "ended" /\ main' = "freed"
    /\ backlog' = [s \in Sockets |-> <<>>] /\ events' = {} /\ posted' = {}
    /\ UNCHANGED <<stop, threadVars>>

-----------------------------------------------------------------------------
\* Mutant: the stop event comes last among the events.
WaitStopLast ==
    /\ listener = "wait" /\ stop /\ events = {}
    /\ listener' = "drain"
    /\ UNCHANGED <<mainVars, iMyIndex, iReadSocket, workers,
                   m_WorkerThreadCount, netVars>>

\* The listener thread, in Listen.
WaitStop ==
    /\ listener = "wait" /\ stop
    /\ listener' = "drain"
    /\ UNCHANGED <<mainVars, iMyIndex, iReadSocket, workers,
                   m_WorkerThreadCount, netVars>>

\* The event with the lowest index is the one that is seen.
WaitSocket(s) ==
    /\ listener = "wait" /\ ~stop
    /\ s \in events /\ \A t \in events : s <= t
    /\ listener' = "reset" /\ iMyIndex' = s
    /\ UNCHANGED <<mainVars, iReadSocket, workers, m_WorkerThreadCount,
                   netVars>>

ResetSocketEvent ==
    /\ listener = "reset" /\ listener' = "accept"
    /\ events' = events \ {iMyIndex}
    /\ UNCHANGED <<mainVars, iMyIndex, iReadSocket, workers,
                   m_WorkerThreadCount, posted, backlog>>

\* Mutant: the event is cleared after accept.
AcceptThenReset ==
    /\ listener = "accept" /\ backlog[iMyIndex] # <<>>
    /\ iReadSocket' = Head(backlog[iMyIndex])
    /\ backlog' = [backlog EXCEPT ![iMyIndex] = Tail(@)]
    /\ listener' = "transport"
    /\ events' = events \ {iMyIndex}
    /\ posted' = posted \ (IF backlog'[iMyIndex] = <<>> THEN {iMyIndex} ELSE {})
    /\ UNCHANGED <<mainVars, iMyIndex, workers, m_WorkerThreadCount>>

\* accept answers the FD_ACCEPT, and posts another if more connections wait.
Accept ==
    /\ listener = "accept" /\ backlog[iMyIndex] # <<>>
    /\ iReadSocket' = Head(backlog[iMyIndex])
    /\ backlog' = [backlog EXCEPT ![iMyIndex] = Tail(@)]
    /\ listener' = "transport"
    /\ IF backlog'[iMyIndex] = <<>>
       THEN posted' = posted \ {iMyIndex} /\ UNCHANGED events
       ELSE events' = events \cup {iMyIndex} /\ UNCHANGED posted
    /\ UNCHANGED <<mainVars, iMyIndex, workers, m_WorkerThreadCount>>

\* The client has gone, or there is no socket left for it while it waits:
\* INVALID_SOCKET ends the loop for good.
AcceptFails ==
    /\ listener = "accept" /\ listener' = "drain"
    /\ UNCHANGED <<mainVars, iMyIndex, iReadSocket, workers,
                   m_WorkerThreadCount, netVars>>

\* new CTransport runs the TLS handshake; Transport->IsConnected says how it
\* went.  A worker gets the transport, or it is deleted.
Transport(IsConnected) ==
    /\ listener = "transport" /\ listener' = "wait"
    /\ workers' = workers \cup (IF IsConnected THEN {iReadSocket} ELSE {})
    /\ iReadSocket' = INVALID_SOCKET
    /\ UNCHANGED <<mainVars, iMyIndex, m_WorkerThreadCount, netVars>>

\* "wait for all the worker threads to terminate"
Drain ==
    /\ listener = "drain" /\ m_WorkerThreadCount = 0
    /\ listener' = "done"
    /\ UNCHANGED <<mainVars, iMyIndex, iReadSocket, workers,
                   m_WorkerThreadCount, netVars>>

\* A worker's lambda returns, and it deletes its transport.
WorkerEnds(c) ==
    /\ c \in workers /\ workers' = workers \ {c}
    /\ UNCHANGED <<mainVars, listener, iMyIndex, iReadSocket,
                   m_WorkerThreadCount, netVars>>

-----------------------------------------------------------------------------
Clients ==
    /\ main # "freed"
    /\ \E c \in Conns, s \in Sockets : Connect(c, s) \/ GoAway(c, s)

Listen ==
    \/ WaitStop \/ \E s \in Sockets : WaitSocket(s)
    \/ ResetSocketEvent \/ Accept \/ AcceptFails
    \/ \E ok \in BOOLEAN : Transport(ok)
    \/ Drain

Main == BeginListening \/ EndListening \/ ThreadEnded \/ Destroy

Workers == \E c \in Conns : WorkerEnds(c)

Next == Clients \/ Listen \/ Main \/ Workers

Spec == Init /\ [][Next]_vars

\* Threads run, the handshake and the lambda return; nobody has to connect, and
\* nobody has to press the key that ends the program.
FairSpec ==
    /\ Spec
    /\ WF_vars(Listen) /\ WF_vars(ThreadEnded)
    /\ WF_vars(BeginListening)

-----------------------------------------------------------------------------
\* No wake-up is lost: whenever the listener goes to wait, the event of every
\* socket with waiting connections is set, although the event is cleared
\* before the connection is taken and one event stands for many connections.
NoLostConnection ==
    listener = "wait" =>
        \A s \in Sockets : backlog[s] # <<>> => s \in events

\* A connection belongs to one thread at most: it waits on one socket, or is
\* being set up, or is a worker's.
OneOwner ==
    /\ iReadSocket \notin workers
    /\ Waiting \cap (workers \cup {iReadSocket}) = {}
    /\ \A s, t \in Sockets :
        s # t => ToSet(backlog[s]) \cap ToSet(backlog[t]) = {}

\* Once EndListening has returned no worker is started any more.
NoLateWorker ==
    [][(main \in {"ended", "freed"}) => workers' \subseteq workers]_vars

\* Every connection on a socket is taken unless connections keep coming on a
\* socket that goes before it, or the listener has ended.
EverySocketServed ==
    \A s \in Sockets, c \in Conns :
        <>[](\A t \in Sockets : t < s => backlog[t] = <<>>) =>
            (c \in ToSet(backlog[s]) ~> \/ c \notin ToSet(backlog[s])
                                        \/ listener \in {"drain", "done"})

\* EndListening returns, whatever the listener is busy with.
StopEnds == main = "ending" ~> main # "ending"

\* "There has been a problem, wait for all the worker threads to terminate"
\* (Listener.cpp:238): the listener thread ends after every worker has.
WorkersAwaited == listener = "done" => workers = {}
=============================================================================

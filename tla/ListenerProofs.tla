--------------------------- MODULE ListenerProofs ---------------------------
(***************************************************************************)
(* What the listener guarantees for every number of listening sockets and  *)
(* connections: no connection is overlooked when it waits, a connection    *)
(* has one owner, and none is given to a worker after EndListening.  And   *)
(* what one connection guarantees that a worker has been given: the two    *)
(* programs' conversation is whole, and its buffers are freed idle.        *)
(***************************************************************************)
EXTENDS Listener, Conversation, SequenceTheorems, TLAPS

-----------------------------------------------------------------------------
(* The inductive invariant.                                                 *)

\* A socket with connections has an FD_ACCEPT that waits for accept, and as
\* long as the listener takes connections its event is set, or the listener
\* has just cleared it and accepts on this very socket next.
WakeUpKept ==
    /\ \A s \in Sockets : backlog[s] # <<>> => s \in posted
    /\ listener \notin {"drain", "done"} =>
           \A s \in posted :
               s \in events \/ (listener = "accept" /\ iMyIndex = s)

\* The threads follow each other: the listener runs between BeginListening and
\* its own end, which EndListening waits for, and holds a connection only while
\* it sets it up.
ThreadStates ==
    /\ listener = "none" <=> main = "starting"
    /\ main \in {"ended", "freed"} => listener = "done"
    /\ iReadSocket # INVALID_SOCKET <=> listener = "transport"

\* OneOwner, socket by socket.
OneQueue ==
    /\ iReadSocket \notin workers
    /\ \A s \in Sockets :
           /\ ToSet(backlog[s]) \cap workers = {}
           /\ iReadSocket \notin ToSet(backlog[s])
    /\ \A s, t \in Sockets :
           s # t => ToSet(backlog[s]) \cap ToSet(backlog[t]) = {}

IInv ==
    /\ TypeOK
    /\ backlog \in [Sockets -> Seq(Conns)]
    /\ WakeUpKept
    /\ ThreadStates
    /\ OneQueue

-----------------------------------------------------------------------------
(* Queues of connections.                                                   *)

LEMMA EmptyQueue == ToSet(<<>>) = {} /\ IsInjective(<<>>) /\ <<>> \in Seq(Conns)
BY DEF ToSet, IsInjective

\* A connection that joins the queue.
LEMMA QueueGrows ==
    ASSUME NEW q \in Seq(Conns), IsInjective(q), NEW c \in Conns, c \notin ToSet(q)
    PROVE  /\ Append(q, c) \in Seq(Conns) /\ IsInjective(Append(q, c))
           /\ ToSet(Append(q, c)) = ToSet(q) \cup {c}
<1>1. /\ DOMAIN q = 1 .. Len(q) /\ Len(q) \in Nat
      /\ Append(q, c) \in Seq(Conns) /\ DOMAIN Append(q, c) = 1 .. Len(q) + 1
      /\ \A i \in 1 .. Len(q) : Append(q, c)[i] = q[i]
      /\ Append(q, c)[Len(q) + 1] = c
  OBVIOUS
<1>2. \A i \in 1 .. Len(q) : q[i] # c
  BY <1>1 DEF ToSet
<1>3. IsInjective(Append(q, c))
  BY <1>1, <1>2 DEF IsInjective
<1>4. ToSet(Append(q, c)) = ToSet(q) \cup {c}
  BY <1>1 DEF ToSet
<1> QED BY <1>1, <1>3, <1>4

\* The connection at the head is accepted.
LEMMA QueueServed ==
    ASSUME NEW q \in Seq(Conns), IsInjective(q), q # <<>>
    PROVE  /\ Head(q) \in ToSet(q) /\ Head(q) \in Conns
           /\ Tail(q) \in Seq(Conns) /\ IsInjective(Tail(q))
           /\ ToSet(Tail(q)) = ToSet(q) \ {Head(q)}
<1>1. /\ DOMAIN q = 1 .. Len(q) /\ Len(q) \in Nat \ {0}
      /\ Head(q) = q[1] /\ Head(q) \in Conns
      /\ Tail(q) \in Seq(Conns) /\ DOMAIN Tail(q) = 1 .. Len(q) - 1
      /\ \A i \in 1 .. Len(q) - 1 : Tail(q)[i] = q[i + 1]
  BY HeadTailProperties
<1>2. IsInjective(Tail(q))
  BY <1>1 DEF IsInjective
<1>3. ToSet(Tail(q)) \subseteq ToSet(q) \ {Head(q)}
  BY <1>1 DEF ToSet, IsInjective
<1>4. ASSUME NEW x \in ToSet(q), x # Head(q) PROVE x \in ToSet(Tail(q))
  <2>1. PICK i \in 1 .. Len(q) : q[i] = x
    BY <1>1 DEF ToSet
  <2>2. i - 1 \in 1 .. Len(q) - 1 /\ Tail(q)[i - 1] = x
    BY <1>1, <1>4, <2>1
  <2> QED BY <1>1, <2>2 DEF ToSet
<1>5. Head(q) \in ToSet(q)
  BY <1>1 DEF ToSet
<1> QED BY <1>1, <1>2, <1>3, <1>4, <1>5

\* A client goes away, from whatever place.
LEMMA QueueShrinks ==
    ASSUME NEW q \in Seq(Conns), IsInjective(q), NEW i \in DOMAIN q
    PROVE  /\ RemoveAt(q, i) \in Seq(Conns) /\ IsInjective(RemoveAt(q, i))
           /\ ToSet(RemoveAt(q, i)) \subseteq ToSet(q)
<1> DEFINE before == SubSeq(q, 1, i - 1)
           after == SubSeq(q, i + 1, Len(q))
           r == RemoveAt(q, i)
<1>1. /\ DOMAIN q = 1 .. Len(q) /\ Len(q) \in Nat /\ i \in 1 .. Len(q)
      /\ \A j \in 1 .. Len(q) : q[j] \in Conns
  OBVIOUS
<1>2. /\ before \in Seq(Conns) /\ Len(before) = i - 1
      /\ \A j \in 1 .. i - 1 : before[j] = q[j]
  BY <1>1, SubSeqProperties
<1>3. /\ after \in Seq(Conns) /\ Len(after) = Len(q) - i
      /\ \A j \in 1 .. Len(q) - i : after[j] = q[i + j]
  <2>1. \A j \in i + 1 .. Len(q) : q[j] \in Conns
    BY <1>1
  <2>2. /\ after \in Seq(Conns)
        /\ Len(after) = IF i + 1 <= Len(q) THEN Len(q) - (i + 1) + 1 ELSE 0
        /\ \A j \in 1 .. Len(q) - (i + 1) + 1 : after[j] = q[(i + 1) + j - 1]
    BY <1>1, <2>1, SubSeqProperties
  <2> HIDE DEF after
  <2>3. Len(after) = Len(q) - i
    BY <1>1, <2>2
  <2>4. ASSUME NEW j \in 1 .. Len(q) - i PROVE after[j] = q[i + j]
    <3>1. j \in 1 .. Len(q) - (i + 1) + 1 /\ (i + 1) + j - 1 = i + j
      BY <1>1
    <3> QED BY <2>2, <3>1
  <2> QED BY <2>2, <2>3, <2>4
<1> HIDE DEF before, after
<1>4. r = before \o after
  BY DEF RemoveAt, before, after
<1>5. /\ r \in Seq(Conns) /\ Len(r) = Len(q) - 1
      /\ \A j \in 1 .. Len(q) - 1 : r[j] = IF j < i THEN q[j] ELSE q[j + 1]
  <2>1. /\ r \in Seq(Conns) /\ Len(r) = Len(before) + Len(after)
        /\ \A j \in 1 .. Len(before) + Len(after) :
               r[j] = IF j <= Len(before) THEN before[j] ELSE after[j - Len(before)]
    <3> HIDE DEF r
    <3> QED BY <1>2, <1>3, <1>4, ConcatProperties
  <2>2. ASSUME NEW j \in 1 .. Len(q) - 1
        PROVE  r[j] = IF j < i THEN q[j] ELSE q[j + 1]
    <3>1. r[j] = IF j <= i - 1 THEN before[j] ELSE after[j - (i - 1)]
      BY <1>1, <1>2, <1>3, <2>1
    <3>2. CASE j < i
      BY <1>1, <1>2, <3>1, <3>2
    <3>3. CASE j >= i
      <4>1. j - (i - 1) \in 1 .. Len(q) - i /\ i + (j - (i - 1)) = j + 1
        BY <1>1, <3>3
      <4> QED BY <1>1, <1>3, <3>1, <3>3, <4>1
    <3> QED BY <1>1, <3>2, <3>3
  <2> QED BY <1>1, <1>2, <1>3, <2>1, <2>2
<1>6. DOMAIN r = 1 .. Len(q) - 1
  BY <1>5
<1> HIDE DEF r
<1>7. IsInjective(r)
  BY <1>1, <1>5, <1>6 DEF IsInjective
<1>8. ToSet(r) \subseteq ToSet(q)
  <2>1. ASSUME NEW j \in DOMAIN r PROVE \E k \in DOMAIN q : q[k] = r[j]
    <3>1. CASE j < i
      BY <1>1, <1>5, <1>6, <2>1, <3>1
    <3>2. CASE j >= i
      <4>1. j + 1 \in DOMAIN q /\ r[j] = q[j + 1]
        BY <1>1, <1>5, <1>6, <2>1, <3>2
      <4> QED BY <4>1
    <3> QED BY <1>1, <1>6, <3>1, <3>2
  <2> QED BY <2>1 DEF ToSet
<1> QED BY <1>5, <1>7, <1>8 DEF r

-----------------------------------------------------------------------------
(* The steps of the clients.                                                *)

LEMMA InitIInv == Init => IInv
<1> SUFFICES ASSUME Init PROVE IInv
  OBVIOUS
<1> USE ListenerAssumption, EmptyQueue DEF Init
<1>1. TypeOK
  <2>1. 1 \in Sockets
    BY DEF Sockets
  <2>2. \A s \in Sockets : backlog[s] = <<>>
    OBVIOUS
  <2> QED BY <2>1, <2>2 DEF TypeOK
<1>2. backlog \in [Sockets -> Seq(Conns)]
  OBVIOUS
<1>3. WakeUpKept /\ ThreadStates /\ OneQueue
  BY DEF WakeUpKept, ThreadStates, OneQueue
<1> QED BY <1>1, <1>2, <1>3 DEF IInv

\* A step of the clients or the main thread on the queues leaves the threads
\* alone, and gives no socket a connection another one has.
LEMMA ConnectStep ==
    ASSUME IInv, NEW c \in Conns, NEW s \in Sockets, Connect(c, s)
    PROVE  IInv'
<1> USE ListenerAssumption DEF Connect, mainVars, threadVars
<1>1. /\ backlog[s] \in Seq(Conns) /\ IsInjective(backlog[s])
      /\ \A t \in Sockets : c \notin ToSet(backlog[t])
      /\ c \notin workers /\ c # iReadSocket
  BY DEF IInv, TypeOK, Waiting
<1>2. /\ backlog' \in [Sockets -> Seq(Conns)]
      /\ IsInjective(backlog'[s])
      /\ ToSet(backlog'[s]) = ToSet(backlog[s]) \cup {c}
      /\ \A t \in Sockets : t # s => backlog'[t] = backlog[t]
  BY <1>1, QueueGrows DEF IInv
<1>3. TypeOK'
  BY <1>2 DEF IInv, TypeOK
<1>4. WakeUpKept' /\ ThreadStates'
  BY <1>2 DEF IInv, WakeUpKept, ThreadStates
<1>5. OneQueue'
  BY <1>1, <1>2 DEF IInv, OneQueue
<1> QED BY <1>2, <1>3, <1>4, <1>5 DEF IInv

LEMMA GoAwayStep ==
    ASSUME IInv, NEW c \in Conns, NEW s \in Sockets, GoAway(c, s)
    PROVE  IInv'
<1> USE ListenerAssumption DEF GoAway, mainVars, threadVars
<1>1. PICK i \in DOMAIN backlog[s] :
          backlog' = [backlog EXCEPT ![s] = RemoveAt(@, i)]
  OBVIOUS
<1>2. /\ backlog[s] \in Seq(Conns) /\ IsInjective(backlog[s])
      /\ backlog[s] # <<>>
  BY <1>1 DEF IInv, TypeOK
<1>3. /\ backlog' \in [Sockets -> Seq(Conns)]
      /\ IsInjective(backlog'[s])
      /\ ToSet(backlog'[s]) \subseteq ToSet(backlog[s])
      /\ \A t \in Sockets : t # s => backlog'[t] = backlog[t]
  BY <1>1, <1>2, QueueShrinks DEF IInv
<1>4. UNCHANGED <<main, stop, listener, iMyIndex, iReadSocket, workers,
                  m_WorkerThreadCount, events, posted>>
  OBVIOUS
<1> HIDE DEF GoAway
<1>5. TypeOK'
  BY <1>3, <1>4 DEF IInv, TypeOK, Sockets
<1>6. WakeUpKept' /\ ThreadStates'
  BY <1>2, <1>3, <1>4 DEF IInv, WakeUpKept, ThreadStates, Sockets
<1>7. OneQueue'
  BY <1>3, <1>4 DEF IInv, OneQueue, Sockets
<1> QED BY <1>3, <1>5, <1>6, <1>7 DEF IInv

-----------------------------------------------------------------------------
(* The steps of the threads.                                                *)

\* A step of the threads that leaves the sockets and their queues alone.
LEMMA QueuesUnchanged ==
    ASSUME IInv, UNCHANGED <<backlog, posted>>,
           workers' \subseteq workers, UNCHANGED iReadSocket
    PROVE  OneQueue' /\ backlog' \in [Sockets -> Seq(Conns)]
<1> QED BY DEF IInv, OneQueue, Sockets

LEMMA MainStep ==
    ASSUME IInv, Main
    PROVE  IInv'
<1> USE ListenerAssumption DEF mainVars, threadVars, netVars
<1>1. CASE BeginListening \/ EndListening \/ ThreadEnded
  <2> USE DEF BeginListening, EndListening, ThreadEnded
  <2>1. TypeOK'
    <3>1. main' \in {"running", "ending", "ended"} /\ stop' \in BOOLEAN
      BY <1>1 DEF IInv, TypeOK
    <3>2. /\ listener' \in {"wait", listener} /\ m_WorkerThreadCount' \in Nat
          /\ UNCHANGED <<iMyIndex, iReadSocket, workers, netVars>>
      BY <1>1 DEF IInv, TypeOK
    <3> QED BY <3>1, <3>2 DEF IInv, TypeOK, Sockets
  <2>2. ThreadStates'
    <3>1. CASE BeginListening
      BY <3>1 DEF IInv, ThreadStates
    <3>2. CASE EndListening \/ ThreadEnded
      BY <3>2 DEF IInv, ThreadStates
    <3> QED BY <1>1, <3>1, <3>2
  <2>3. WakeUpKept'
    <3>1. CASE BeginListening
      BY <3>1 DEF IInv, ThreadStates, WakeUpKept, Sockets
    <3>2. CASE EndListening \/ ThreadEnded
      BY <3>2 DEF IInv, WakeUpKept, Sockets
    <3> QED BY <1>1, <3>1, <3>2
  <2>4. UNCHANGED <<backlog, posted, workers, iReadSocket>>
    BY <1>1
  <2> QED BY <2>1, <2>2, <2>3, <2>4, QueuesUnchanged DEF IInv
<1>2. CASE Destroy
  <2> USE DEF Destroy
  <2>1. backlog' \in [Sockets -> Seq(Conns)] /\ \A s \in Sockets : backlog'[s] = <<>>
    BY <1>2, EmptyQueue
  <2>2. TypeOK' /\ ThreadStates'
    BY <1>2, <2>1, EmptyQueue DEF IInv, TypeOK, ThreadStates
  <2>3. WakeUpKept'
    BY <1>2, <2>1 DEF IInv, WakeUpKept
  <2>4. OneQueue'
    BY <1>2, <2>1, EmptyQueue DEF IInv, OneQueue
  <2> QED BY <2>1, <2>2, <2>3, <2>4 DEF IInv
<1> QED BY <1>1, <1>2 DEF Main

LEMMA WaitStep ==
    ASSUME IInv, WaitStop \/ \E s \in Sockets : WaitSocket(s)
    PROVE  IInv'
<1> USE ListenerAssumption DEF WaitStop, WaitSocket, mainVars, netVars
<1>1. TypeOK' /\ ThreadStates'
  BY DEF IInv, TypeOK, ThreadStates
<1>2. WakeUpKept'
  BY DEF IInv, WakeUpKept
<1>3. UNCHANGED <<backlog, posted, workers, iReadSocket>>
  OBVIOUS
<1> QED BY <1>1, <1>2, <1>3, QueuesUnchanged DEF IInv

LEMMA ResetStep ==
    ASSUME IInv, ResetSocketEvent
    PROVE  IInv'
<1> USE ListenerAssumption DEF ResetSocketEvent, mainVars
<1>1. TypeOK' /\ ThreadStates'
  BY DEF IInv, TypeOK, ThreadStates
<1>2. WakeUpKept'
  BY DEF IInv, WakeUpKept
<1>3. UNCHANGED <<backlog, posted, workers, iReadSocket>>
  OBVIOUS
<1> QED BY <1>1, <1>2, <1>3, QueuesUnchanged DEF IInv

\* The FD_ACCEPT of the socket is answered; what waits behind the connection
\* has another.
LEMMA AcceptStep ==
    ASSUME IInv, Accept
    PROVE  IInv'
<1> USE ListenerAssumption DEF Accept, mainVars
<1> DEFINE s == iMyIndex
<1>1. /\ s \in Sockets /\ backlog[s] \in Seq(Conns) /\ IsInjective(backlog[s])
      /\ backlog[s] # <<>> /\ listener = "accept"
  BY DEF IInv, TypeOK
<1>2. /\ iReadSocket' \in ToSet(backlog[s]) /\ iReadSocket' \in Conns
      /\ backlog' \in [Sockets -> Seq(Conns)]
      /\ IsInjective(backlog'[s])
      /\ ToSet(backlog'[s]) = ToSet(backlog[s]) \ {iReadSocket'}
      /\ \A t \in Sockets : t # s => backlog'[t] = backlog[t]
  BY <1>1, QueueServed DEF IInv
<1>3. TypeOK' /\ ThreadStates'
  BY <1>1, <1>2 DEF IInv, TypeOK, ThreadStates
<1>4. WakeUpKept'
  BY <1>1, <1>2 DEF IInv, TypeOK, WakeUpKept
<1>5. OneQueue'
  BY <1>1, <1>2 DEF IInv, OneQueue
<1> QED BY <1>2, <1>3, <1>4, <1>5 DEF IInv

LEMMA AcceptFailsStep ==
    ASSUME IInv, AcceptFails \/ Drain
    PROVE  IInv'
<1> USE ListenerAssumption DEF AcceptFails, Drain, mainVars, netVars
<1>1. TypeOK' /\ ThreadStates'
  BY DEF IInv, TypeOK, ThreadStates
<1>2. WakeUpKept'
  BY DEF IInv, WakeUpKept
<1>3. UNCHANGED <<backlog, posted, workers, iReadSocket>>
  OBVIOUS
<1> QED BY <1>1, <1>2, <1>3, QueuesUnchanged DEF IInv

\* The connection goes from the listener to a worker.
LEMMA TransportStep ==
    ASSUME IInv, NEW ok \in BOOLEAN, Transport(ok)
    PROVE  IInv'
<1> USE ListenerAssumption DEF Transport, mainVars, netVars
<1>1. iReadSocket \in Conns
  BY DEF IInv, TypeOK, ThreadStates
<1>2. TypeOK' /\ ThreadStates'
  BY <1>1 DEF IInv, TypeOK, ThreadStates
<1>3. WakeUpKept'
  BY DEF IInv, WakeUpKept
<1>4. OneQueue'
  BY <1>1, <1>2 DEF IInv, OneQueue, TypeOK
<1> QED BY <1>2, <1>3, <1>4 DEF IInv

LEMMA WorkerEndsStep ==
    ASSUME IInv, NEW c \in Conns, WorkerEnds(c)
    PROVE  IInv'
<1> USE ListenerAssumption DEF WorkerEnds, mainVars, netVars
<1>1. TypeOK' /\ ThreadStates'
  BY DEF IInv, TypeOK, ThreadStates
<1>2. WakeUpKept'
  BY DEF IInv, WakeUpKept
<1> QED BY <1>1, <1>2, QueuesUnchanged DEF IInv

LEMMA StutterStep ==
    ASSUME IInv, UNCHANGED vars
    PROVE  IInv'
<1> USE DEF vars, mainVars, threadVars, netVars
<1>1. TypeOK' /\ ThreadStates' /\ WakeUpKept'
  BY DEF IInv, TypeOK, ThreadStates, WakeUpKept
<1> QED BY <1>1, QueuesUnchanged DEF IInv

-----------------------------------------------------------------------------
(* The theorems.                                                            *)

LEMMA NextIInv == IInv /\ [Next]_vars => IInv'
<1> SUFFICES ASSUME IInv, [Next]_vars PROVE IInv'
  OBVIOUS
<1>1. CASE Clients
  BY <1>1, ConnectStep, GoAwayStep DEF Clients
<1>2. CASE Listen
  BY <1>2, WaitStep, ResetStep, AcceptStep, AcceptFailsStep, TransportStep DEF Listen
<1>3. CASE Main
  BY <1>3, MainStep
<1>4. CASE Workers
  BY <1>4, WorkerEndsStep DEF Workers
<1>5. CASE UNCHANGED vars
  BY <1>5, StutterStep
<1> QED BY <1>1, <1>2, <1>3, <1>4, <1>5 DEF Next

\* The inductive invariant holds throughout.
THEOREM Invariant == Spec => []IInv
<1> QED BY InitIInv, NextIInv, PTL DEF Spec

\* Every variable keeps its type, and no queue holds a connection twice.
THEOREM TypeCorrect == Spec => []TypeOK
<1>1. IInv => TypeOK
  BY DEF IInv
<1> QED BY <1>1, Invariant, PTL

\* Whenever the listener waits, the event of every socket with connections is
\* set, though it clears the event before it takes one connection of many.
THEOREM WakeUpNotLost == Spec => []NoLostConnection
<1>1. IInv => NoLostConnection
  BY DEF IInv, WakeUpKept, NoLostConnection
<1> QED BY <1>1, Invariant, PTL

\* No thread ever works on a connection another one has, or that still waits.
THEOREM OneThreadEach == Spec => []OneOwner
<1>1. IInv => OneOwner
  BY DEF IInv, OneQueue, OneOwner, Waiting
<1> QED BY <1>1, Invariant, PTL

\* EndListening returns only when the listener starts no worker any more.
THEOREM WorkersBeforeTheEnd == Spec => NoLateWorker
<1>1. IInv /\ [Next]_vars =>
          [(main \in {"ended", "freed"}) => workers' \subseteq workers]_vars
  <2> SUFFICES ASSUME IInv, [Next]_vars, main \in {"ended", "freed"}
               PROVE  workers' \subseteq workers
    OBVIOUS
  <2>1. listener = "done"
    BY DEF IInv, ThreadStates
  <2>2. CASE Listen
    BY <2>1, <2>2 DEF Listen, WaitStop, WaitSocket, ResetSocketEvent, Accept,
           AcceptFails, Transport, Drain
  <2>3. CASE Clients \/ UNCHANGED vars
    BY <2>3 DEF Clients, Connect, GoAway, vars, threadVars
  <2>4. CASE Main
    BY <2>4 DEF Main, BeginListening, EndListening, ThreadEnded, Destroy, threadVars
  <2>5. CASE Workers
    BY <2>5 DEF Workers, WorkerEnds
  <2> QED BY <2>2, <2>3, <2>4, <2>5 DEF Next
<1> QED BY <1>1, Invariant, PTL DEF Spec, NoLateWorker

-----------------------------------------------------------------------------
(* What a worker's lambda and the client at the other end of the connection *)
(* come to: StreamSession, whose stop event is the listener's.              *)

CONSTANT Room

Session == INSTANCE StreamSession

\* A receive and a message it brought belong to the worker's one receive, and a
\* socket is closed by the last thing its side does.
OneReceipt ==
    /\ server \in {"hello", "hello sending", "recv"} => ~receiving /\ arrived = "none"
    /\ receiving => arrived = "none"
    /\ server \in {"goodbye", "goodbye sending"} => arrived = "data"
    /\ "server" \in closed => server = "ended"
    /\ "client" \in closed => client = "ended"

\* A worker that has not given up leaves a call only when the kernel is done
\* with its operation.
NothingBehind ==
    "server" \notin gaveUp =>
        /\ ops["server"] # <<>> => server \in {"hello sending", "goodbye sending"}
        /\ receiving => server = "wait"

\* What a side has sent so far: received, on its way, or with the kernel.
FromClient == got["server"] \o (flight["client"] \o ops["client"])
FromServer == got["client"] \o (flight["server"] \o ops["server"])

Greeting == IF client = "greet" THEN <<>> ELSE <<"greeting">>

Replies ==
    CASE server = "hello" -> <<>>
      [] server \in {"hello sending", "recv", "wait", "goodbye"} -> <<"hello">>
      [] OTHER -> <<"hello", "goodbye">>

\* In an undisturbed conversation each side has sent what its program has come
\* to, the server answers only what it has received, and the client leaves only
\* when the server has ended and everything has been read.
Undisturbed ==
    gaveUp = {} /\ ~cut =>
        /\ FromClient = Greeting /\ FromServer = Replies
        /\ ops["client"] # <<>> => client = "sending"
        /\ arrived # "closed"
        /\ arrived = "data" => got["server"] # <<>>
        /\ server \in {"delete", "freed", "ended"} => arrived = "data"
        /\ client \in {"close", "ended"} => server = "ended" /\ flight["server"] = <<>>

SessionIInv == Session!TypeOK /\ OneReceipt /\ NothingBehind /\ Undisturbed

-----------------------------------------------------------------------------
\* The first element of a sequence may as well be the last of the one before.
LEMMA MoveOver ==
    ASSUME NEW S, NEW a \in Seq(S), NEW b \in Seq(S), b # <<>>
    PROVE  /\ Append(a, Head(b)) \in Seq(S) /\ Tail(b) \in Seq(S)
           /\ Append(a, Head(b)) \o Tail(b) = a \o b
<1>1. /\ Head(b) \in S /\ Tail(b) \in Seq(S) /\ Len(Tail(b)) = Len(b) - 1
      /\ \A i \in 1 .. Len(Tail(b)) : Tail(b)[i] = b[i + 1]
      /\ Head(b) = b[1] /\ Len(b) \in Nat /\ Len(b) > 0 /\ Len(a) \in Nat
  BY HeadTailProperties, EmptySeq, LenProperties
<1>2. /\ Append(a, Head(b)) \in Seq(S) /\ Len(Append(a, Head(b))) = Len(a) + 1
      /\ \A i \in 1 .. Len(a) : Append(a, Head(b))[i] = a[i]
      /\ Append(a, Head(b))[Len(a) + 1] = b[1]
  BY <1>1, AppendProperties
<1> DEFINE c == Append(a, Head(b))   t == Tail(b)
<1>3. c \in Seq(S) /\ t \in Seq(S)
  BY <1>1, <1>2
<1>4. /\ Len(c) = Len(a) + 1 /\ Len(t) = Len(b) - 1
      /\ \A i \in 1 .. Len(t) : t[i] = b[i + 1]
      /\ \A i \in 1 .. Len(a) : c[i] = a[i]
      /\ c[Len(a) + 1] = b[1]
  BY <1>1, <1>2
<1> HIDE DEF c, t
<1>5. /\ c \o t \in Seq(S) /\ Len(c \o t) = Len(c) + Len(t)
      /\ \A i \in 1 .. Len(c) + Len(t) :
             (c \o t)[i] = IF i <= Len(c) THEN c[i] ELSE t[i - Len(c)]
  BY <1>3, ConcatProperties
<1>6. /\ a \o b \in Seq(S) /\ Len(a \o b) = Len(a) + Len(b)
      /\ \A i \in 1 .. Len(a) + Len(b) :
             (a \o b)[i] = IF i <= Len(a) THEN a[i] ELSE b[i - Len(a)]
  BY ConcatProperties
<1>7. Len(c \o t) = Len(a \o b)
  BY <1>1, <1>4, <1>5, <1>6
<1>8. ASSUME NEW i \in 1 .. Len(c \o t) PROVE (c \o t)[i] = (a \o b)[i]
  <2>0. i \in 1 .. Len(a) + Len(b) /\ i \in 1 .. Len(c) + Len(t)
    BY <1>5, <1>6, <1>7
  <2>1. CASE i <= Len(a)
    BY <1>1, <1>4, <1>5, <1>6, <2>0, <2>1
  <2>2. CASE i = Len(a) + 1
    BY <1>1, <1>4, <1>5, <1>6, <2>0, <2>2
  <2>3. CASE i > Len(a) + 1
    <3>1. /\ i - Len(c) \in 1 .. Len(t) /\ (i - Len(c)) + 1 = i - Len(a)
          /\ ~(i <= Len(c)) /\ ~(i <= Len(a))
      BY <1>1, <1>4, <2>0, <2>3
    <3>2. t[i - Len(c)] = b[(i - Len(c)) + 1]
      BY <1>4, <3>1
    <3> QED BY <1>5, <1>6, <2>0, <3>1, <3>2
  <2> QED BY <1>1, <2>0, <2>1, <2>2, <2>3
<1>9. c \o t = a \o b
  <2> DEFINE u == c \o t   v == a \o b
  <2>1. u \in Seq(S) /\ v \in Seq(S) /\ Len(u) = Len(v)
        /\ \A i \in 1 .. Len(u) : u[i] = v[i]
    BY <1>5, <1>6, <1>7, <1>8
  <2> HIDE DEF u, v
  <2>2. u = v
    BY <2>1, SeqEqual
  <2> QED BY <2>2 DEF u, v
<1> QED BY <1>3, <1>9 DEF c, t

\* The message the reader takes next is the first that it has not read.
LEMMA NextRead ==
    ASSUME NEW S, NEW g \in Seq(S), NEW f \in Seq(S), NEW o \in Seq(S), f # <<>>
    PROVE  /\ Append(g, Head(f)) \in Seq(S) /\ Tail(f) \in Seq(S)
           /\ Append(g, Head(f)) \o (Tail(f) \o o) = g \o (f \o o)
<1>1. \A a, b, c \in Seq(S) : (a \o b) \o c = a \o (b \o c)
  <2>1. ASSUME NEW a \in Seq(S), NEW b \in Seq(S), NEW c \in Seq(S)
        PROVE  (a \o b) \o c = a \o (b \o c)
    OBVIOUS
  <2> QED BY <2>1, Zenon
<1>2. /\ Append(g, Head(f)) \in Seq(S) /\ Tail(f) \in Seq(S)
      /\ Append(g, Head(f)) \o Tail(f) = g \o f
  BY MoveOver
<1>3. Append(g, Head(f)) \o (Tail(f) \o o) = (Append(g, Head(f)) \o Tail(f)) \o o
  BY <1>1, <1>2, Zenon
<1>4. g \o (f \o o) = (g \o f) \o o
  BY <1>1, Zenon
<1> QED BY <1>2, <1>3, <1>4, Zenon

\* What is on its way is part of what was sent.
LEMMA SentElement ==
    ASSUME NEW S, NEW g \in Seq(S), NEW f \in Seq(S), NEW o \in Seq(S), f # <<>>
    PROVE  \E i \in 1 .. Len(g \o (f \o o)) : Head(f) = (g \o (f \o o))[i]
<1>1. Head(f) = f[1] /\ Len(f) \in Nat /\ Len(f) > 0
  BY HeadTailProperties, EmptySeq, LenProperties
<1>2. /\ f \o o \in Seq(S) /\ Len(f \o o) = Len(f) + Len(o) /\ (f \o o)[1] = f[1]
  <2>1. /\ f \o o \in Seq(S) /\ Len(f \o o) = Len(f) + Len(o)
        /\ \A i \in 1 .. Len(f) + Len(o) :
               (f \o o)[i] = IF i <= Len(f) THEN f[i] ELSE o[i - Len(f)]
    BY ConcatProperties
  <2>2. Len(o) \in Nat
    BY LenProperties
  <2> QED BY <1>1, <2>1, <2>2
<1> DEFINE w == f \o o
<1>3. w \in Seq(S) /\ Len(w) = Len(f) + Len(o) /\ w[1] = Head(f)
  BY <1>1, <1>2
<1>4. Len(g) \in Nat /\ Len(o) \in Nat /\ Len(w) \in Nat /\ Len(w) > 0
  BY <1>1, <1>3, LenProperties
<1> HIDE DEF w
<1>0. \A a, b \in Seq(S) :
         /\ Len(a \o b) = Len(a) + Len(b)
         /\ \A i \in 1 .. Len(a) + Len(b) :
                (a \o b)[i] = IF i <= Len(a) THEN a[i] ELSE b[i - Len(a)]
  BY ConcatProperties
<1>5. /\ Len(g \o w) = Len(g) + Len(w)
      /\ \A i \in 1 .. Len(g) + Len(w) :
             (g \o w)[i] = IF i <= Len(g) THEN g[i] ELSE w[i - Len(g)]
  BY <1>0, <1>3, Zenon
<1>6. /\ Len(g) + 1 \in 1 .. Len(g) + Len(w) /\ ~(Len(g) + 1 <= Len(g))
      /\ (Len(g) + 1) - Len(g) = 1
  BY <1>4
<1>7. (g \o w)[Len(g) + 1] = w[1] /\ Len(g) + 1 \in 1 .. Len(g \o w)
  BY <1>5, <1>6
<1>8. \E i \in 1 .. Len(g \o w) : Head(f) = (g \o w)[i]
  BY <1>3, <1>7
<1> QED BY <1>8 DEF w
-----------------------------------------------------------------------------
LEMMA PairOfTwo ==
    ASSUME NEW S, NEW x \in S, NEW y \in S
    PROVE  <<x>> \o <<y>> = <<x, y>>
<1> DEFINE a == <<x>>   b == <<y>>   c == <<x, y>>
<1>1. /\ a \in Seq(S) /\ b \in Seq(S) /\ c \in Seq(S)
      /\ Len(a) = 1 /\ Len(b) = 1 /\ Len(c) = 2
      /\ a[1] = c[1] /\ b[1] = c[2]
  OBVIOUS
<1> HIDE DEF a, b, c
<1>2. /\ a \o b \in Seq(S) /\ Len(a \o b) = Len(a) + Len(b)
      /\ \A i \in 1 .. Len(a) + Len(b) :
             (a \o b)[i] = IF i <= Len(a) THEN a[i] ELSE b[i - Len(a)]
  BY <1>1, ConcatProperties
<1>3. Len(a \o b) = 2 /\ (a \o b)[1] = a[1] /\ (a \o b)[2] = b[1]
  BY <1>1, <1>2
<1>4. \A i \in 1 .. Len(a \o b) : (a \o b)[i] = c[i]
  BY <1>1, <1>3
<1>5. a \o b = c
  BY <1>1, <1>2, <1>3, <1>4, SeqEqual
<1> QED BY <1>5 DEF a, b, c

\* The values of the functions over the two sides.
LEMMA SessionTyped ==
    ASSUME Session!TypeOK
    PROVE  /\ "client" \in Session!Sides /\ "server" \in Session!Sides
           /\ \A s \in Session!Sides :
                  /\ ops[s] \in Seq(Session!Messages) /\ flight[s] \in Seq(Session!Messages)
                  /\ got[s] \in Seq(Session!Messages)
BY DEF Session!TypeOK, Session!Sides

LEMMA SessionInit == Session!Init => SessionIInv
<1> SUFFICES ASSUME Session!Init PROVE SessionIInv
  OBVIOUS
<1> USE DEF Session!Init
<1>1. /\ "client" \in Session!Sides /\ "server" \in Session!Sides
      /\ \A s \in Session!Sides : ops[s] = <<>> /\ flight[s] = <<>> /\ got[s] = <<>>
  BY DEF Session!Sides
<1>2. <<>> \in Seq(Session!Messages)
  BY EmptySeq
<1>3. Session!TypeOK
  BY <1>2 DEF Session!TypeOK, Session!Sides
<1>4. OneReceipt /\ NothingBehind
  BY <1>1 DEF OneReceipt, NothingBehind
<1>5. <<>> \o (<<>> \o <<>>) = <<>>
  BY <1>2, ConcatEmptySeq
<1>6. Undisturbed
  BY <1>1, <1>5 DEF Undisturbed, FromClient, FromServer, Greeting, Replies
<1> QED BY <1>3, <1>4, <1>6 DEF SessionIInv

\* A send of one message on a side with no send outstanding.
LEMMA Posted ==
    ASSUME Session!TypeOK, NEW s \in Session!Sides, NEW m \in Session!Messages,
           Session!Post(s, m)
    PROVE  /\ ops' \in [Session!Sides -> Seq(Session!Messages)]
           /\ \A t \in Session!Sides : t # s => ops'[t] = ops[t]
           /\ ops[s] = <<>> => ops'[s] = <<m>>
<1>1. ops \in [Session!Sides -> Seq(Session!Messages)] /\ ops[s] \in Seq(Session!Messages)
  BY DEF Session!TypeOK
<1> DEFINE n == Len(ops[s]) + 1
           g == [i \in 1 .. n |-> "garbage"]
<1>2. n \in Nat
  BY <1>1, LenProperties
<1>3. g \in Seq(Session!Messages)
  <2> HIDE DEF n
  <2>1. "garbage" \in Session!Messages
    BY DEF Session!Messages
  <2> QED BY <1>2, <2>1, IsASeq
<1>4. <<m>> \in Seq(Session!Messages)
  OBVIOUS
<1>5. ops' = [ops EXCEPT ![s] = IF ops[s] = <<>> THEN <<m>> ELSE g]
  BY DEF Session!Post
<1> HIDE DEF g, n
<1> QED BY <1>1, <1>3, <1>4, <1>5
-----------------------------------------------------------------------------
(* The kernel and the network.                                              *)

LEMMA KernelSendStep ==
    ASSUME SessionIInv, NEW s \in Session!Sides, Session!KernelSend(s)
    PROVE  SessionIInv'
<1> USE DEF Session!KernelSend
<1>0. /\ Session!TypeOK /\ OneReceipt /\ NothingBehind /\ Undisturbed
      /\ "client" \in Session!Sides /\ "server" \in Session!Sides
      /\ \A t \in Session!Sides :
             /\ ops[t] \in Seq(Session!Messages) /\ flight[t] \in Seq(Session!Messages)
             /\ got[t] \in Seq(Session!Messages)
  BY SessionTyped DEF SessionIInv
<1>1. /\ Append(flight[s], Head(ops[s])) \in Seq(Session!Messages)
      /\ Tail(ops[s]) \in Seq(Session!Messages)
      /\ Append(flight[s], Head(ops[s])) \o Tail(ops[s]) = flight[s] \o ops[s]
  BY <1>0, MoveOver
<1>2. /\ ops' \in [Session!Sides -> Seq(Session!Messages)]
      /\ flight' \in [Session!Sides -> Seq(Session!Messages)]
      /\ \A t \in Session!Sides : flight'[t] \o ops'[t] = flight[t] \o ops[t]
      /\ \A t \in Session!Sides : t # s => ops'[t] = ops[t] /\ flight'[t] = flight[t]
      /\ ops[s] # <<>>
  BY <1>0, <1>1 DEF Session!TypeOK
<1>u. UNCHANGED <<client, server, receiving, arrived, got, closed, cut, stop, gaveUp>>
  BY DEF Session!serverVars
<1> HIDE DEF Session!KernelSend
<1>3. Session!TypeOK'
  BY <1>0, <1>2, <1>u DEF Session!TypeOK
<1>4. OneReceipt'
  BY <1>0, <1>u DEF OneReceipt
<1>5. NothingBehind'
  BY <1>0, <1>2, <1>u DEF NothingBehind
<1>6. Undisturbed'
  <2> SUFFICES ASSUME gaveUp = {}, ~cut
               PROVE  /\ (FromClient = Greeting)' /\ (FromServer = Replies)'
                      /\ ops'["client"] # <<>> => client = "sending"
                      /\ arrived # "closed"
                      /\ arrived = "data" => got["server"] # <<>>
                      /\ server \in {"delete", "freed", "ended"} => arrived = "data"
                      /\ client \in {"close", "ended"} =>
                             server = "ended" /\ flight'["server"] = <<>>
    BY <1>u DEF Undisturbed
  <2>1. FromClient' = FromClient /\ FromServer' = FromServer
    BY <1>0, <1>2, <1>u DEF FromClient, FromServer
  <2>2. Greeting' = Greeting /\ Replies' = Replies
    BY <1>u DEF Greeting, Replies
  <2>3. client \in {"close", "ended"} => s # "server"
    BY <1>0, <1>2 DEF Undisturbed, NothingBehind
  <2>4. /\ FromClient = Greeting /\ FromServer = Replies
        /\ ops["client"] # <<>> => client = "sending"
        /\ arrived # "closed"
        /\ arrived = "data" => got["server"] # <<>>
        /\ server \in {"delete", "freed", "ended"} => arrived = "data"
        /\ client \in {"close", "ended"} => server = "ended" /\ flight["server"] = <<>>
    BY <1>0 DEF Undisturbed
  <2> QED BY <1>0, <1>2, <2>1, <2>2, <2>3, <2>4
<1> QED BY <1>3, <1>4, <1>5, <1>6 DEF SessionIInv

LEMMA KernelRecvStep ==
    ASSUME SessionIInv, Session!KernelRecv
    PROVE  SessionIInv'
<1>0. /\ Session!TypeOK /\ OneReceipt /\ NothingBehind /\ Undisturbed
      /\ "client" \in Session!Sides /\ "server" \in Session!Sides /\ "client" # "server"
      /\ \A t \in Session!Sides :
             /\ ops[t] \in Seq(Session!Messages) /\ flight[t] \in Seq(Session!Messages)
             /\ got[t] \in Seq(Session!Messages)
  BY SessionTyped DEF SessionIInv
<1>u. /\ UNCHANGED <<client, server, ops, closed, cut, stop, gaveUp>>
      /\ receiving /\ receiving' = FALSE /\ ~cut
  BY DEF Session!KernelRecv
<1>1. CASE /\ flight["client"] # <<>> /\ arrived' = "data"
           /\ flight' = [flight EXCEPT !["client"] = Tail(@)]
           /\ got' = [got EXCEPT !["server"] = Append(@, Head(flight["client"]))]
  <2> DEFINE g == Append(got["server"], Head(flight["client"]))
             f == Tail(flight["client"])
  <2>1. /\ g \in Seq(Session!Messages) /\ f \in Seq(Session!Messages)
        /\ g \o (f \o ops["client"]) = FromClient
    <3> DEFINE a == got["server"]   b == flight["client"]   c == ops["client"]
    <3>1. /\ a \in Seq(Session!Messages) /\ b \in Seq(Session!Messages)
          /\ c \in Seq(Session!Messages) /\ b # <<>>
      BY <1>0, <1>1
    <3> HIDE DEF a, b, c, f, g
    <3>2. /\ Append(a, Head(b)) \in Seq(Session!Messages) /\ Tail(b) \in Seq(Session!Messages)
          /\ Append(a, Head(b)) \o (Tail(b) \o c) = a \o (b \o c)
      BY <3>1, NextRead
    <3> QED BY <3>2, Zenon DEF a, b, c, f, g, FromClient
  <2>2. g # <<>>
    <3>1. \A a \in Seq(Session!Messages), e \in Session!Messages : Append(a, e) # <<>>
      BY AppendProperties
    <3> QED BY <1>0, <1>1, <3>1, HeadTailProperties, Zenon
  <2>3. /\ flight' \in [Session!Sides -> Seq(Session!Messages)]
        /\ got' \in [Session!Sides -> Seq(Session!Messages)]
        /\ flight'["client"] = f /\ flight'["server"] = flight["server"]
        /\ got'["server"] = g /\ got'["client"] = got["client"]
    <3> HIDE DEF f, g
    <3>1. /\ flight' = [flight EXCEPT !["client"] = f] /\ got' = [got EXCEPT !["server"] = g]
      BY <1>1 DEF f, g
    <3> QED BY <1>0, <2>1, <3>1 DEF Session!TypeOK
  <2> HIDE DEF f, g
  <2>4. FromClient' = FromClient /\ FromServer' = FromServer
    BY <1>u, <2>1, <2>3 DEF FromClient, FromServer
  <2>5. Session!TypeOK'
    BY <1>0, <1>u, <1>1, <2>3 DEF Session!TypeOK
  <2>6. OneReceipt' /\ NothingBehind'
    BY <1>0, <1>u, <1>1 DEF OneReceipt, NothingBehind
  <2>7. Greeting' = Greeting /\ Replies' = Replies
    BY <1>u DEF Greeting, Replies
  <2>8. Undisturbed'
    BY <1>0, <1>u, <1>1, <2>2, <2>3, <2>4, <2>7 DEF Undisturbed
  <2> QED BY <2>5, <2>6, <2>8 DEF SessionIInv
<1>2. CASE /\ flight["client"] = <<>> /\ "client" \in closed
           /\ arrived' = "closed" /\ UNCHANGED <<flight, got>>
  <2>1. Session!TypeOK'
    BY <1>0, <1>u, <1>2 DEF Session!TypeOK
  <2>2. OneReceipt' /\ NothingBehind'
    BY <1>0, <1>u, <1>2 DEF OneReceipt, NothingBehind
  <2>3. gaveUp # {}
    BY <1>0, <1>u, <1>2 DEF Undisturbed, OneReceipt, NothingBehind
  <2>4. Undisturbed'
    BY <1>u, <2>3 DEF Undisturbed
  <2> QED BY <2>1, <2>2, <2>4 DEF SessionIInv
<1> QED BY <1>1, <1>2 DEF Session!KernelRecv

\* The network fails, or the stop event is set.
LEMMA OutsideStep ==
    ASSUME SessionIInv, Session!Cut \/ Session!SetStop
    PROVE  SessionIInv'
<1>0. Session!TypeOK /\ OneReceipt /\ NothingBehind /\ Undisturbed
  BY DEF SessionIInv
<1>u. /\ UNCHANGED <<client, server, receiving, arrived, ops, flight, got, closed, gaveUp>>
      /\ ~cut' => ~cut
      /\ cut' \in BOOLEAN /\ stop' \in BOOLEAN
  BY <1>0
     DEF Session!Cut, Session!SetStop, Session!serverVars, Session!netVars, Session!TypeOK
<1>1. Session!TypeOK'
  BY <1>0, <1>u DEF Session!TypeOK
<1>2. OneReceipt' /\ NothingBehind'
  BY <1>0, <1>u DEF OneReceipt, NothingBehind
<1>3. Undisturbed'
  BY <1>0, <1>u DEF Undisturbed, FromClient, FromServer, Greeting, Replies
<1> QED BY <1>1, <1>2, <1>3 DEF SessionIInv

-----------------------------------------------------------------------------
(* The worker.                                                              *)

\* Both messages are sent when the worker has no send outstanding, unless it has
\* given up on one.
LEMMA ServerSendStep ==
    ASSUME SessionIInv, Session!Hello \/ Session!Goodbye
    PROVE  SessionIInv'
<1>0. /\ Session!TypeOK /\ OneReceipt /\ NothingBehind /\ Undisturbed
      /\ "client" \in Session!Sides /\ "server" \in Session!Sides /\ "client" # "server"
      /\ \A t \in Session!Sides :
             /\ ops[t] \in Seq(Session!Messages) /\ flight[t] \in Seq(Session!Messages)
             /\ got[t] \in Seq(Session!Messages)
  BY SessionTyped DEF SessionIInv
<1>1. PICK m \in Session!Messages :
          /\ Session!Post("server", m)
          /\ \/ server = "hello" /\ server' = "hello sending" /\ m = "hello"
             \/ server = "goodbye" /\ server' = "goodbye sending" /\ m = "goodbye"
  BY DEF Session!Hello, Session!Goodbye, Session!ServerSend, Session!Messages
<1>u. UNCHANGED <<client, receiving, arrived, flight, got, closed, cut, stop, gaveUp>>
  BY DEF Session!Hello, Session!Goodbye, Session!ServerSend
<1>2. /\ ops' \in [Session!Sides -> Seq(Session!Messages)] /\ ops'["client"] = ops["client"]
      /\ ops["server"] = <<>> => ops'["server"] = <<m>>
  BY <1>0, <1>1, Posted
<1>3. Session!TypeOK'
  BY <1>0, <1>1, <1>2, <1>u DEF Session!TypeOK
<1>4. OneReceipt' /\ NothingBehind'
  BY <1>0, <1>1, <1>2, <1>u DEF OneReceipt, NothingBehind
<1>5. Undisturbed'
  <2> SUFFICES ASSUME gaveUp = {}, ~cut
               PROVE  Undisturbed'
    BY <1>u DEF Undisturbed
  <2>1. ops["server"] = <<>> /\ ops'["server"] = <<m>>
    BY <1>0, <1>1, <1>2 DEF NothingBehind
  <2>2. FromClient' = FromClient /\ Greeting' = Greeting
    BY <1>2, <1>u DEF FromClient, Greeting
  <2>3. FromServer = got["client"] \o flight["server"]
    BY <1>0, <2>1, ConcatEmptySeq DEF FromServer
  <2>4. FromServer' = FromServer \o <<m>>
    <3> DEFINE g == got["client"]   f == flight["server"]
    <3>1. g \in Seq(Session!Messages) /\ f \in Seq(Session!Messages)
      BY <1>0
    <3>2. FromServer' = g \o (f \o <<m>>)
      BY <1>u, <2>1 DEF FromServer
    <3>3. FromServer = g \o f
      BY <2>3
    <3> HIDE DEF g, f
    <3>4. (g \o f) \o <<m>> = g \o (f \o <<m>>)
      BY <3>1
    <3> QED BY <3>2, <3>3, <3>4
  <2>5. FromServer = Replies
    BY <1>0 DEF Undisturbed
  <2>6. FromServer' = Replies'
    <3>1. CASE server = "hello"
      <4>1. FromServer = <<>> /\ Replies' = <<"hello">> /\ m = "hello"
        BY <1>1, <2>5, <3>1 DEF Replies
      <4>2. <<>> \o <<"hello">> = <<"hello">>
        OBVIOUS
      <4> QED BY <2>4, <4>1, <4>2
    <3>2. CASE server = "goodbye"
      <4>1. FromServer = <<"hello">> /\ Replies' = <<"hello", "goodbye">> /\ m = "goodbye"
        BY <1>1, <2>5, <3>2 DEF Replies
      <4>2. <<"hello">> \o <<"goodbye">> = <<"hello", "goodbye">>
        <5>1. "hello" \in Session!Messages /\ "goodbye" \in Session!Messages
          BY DEF Session!Messages
        <5> QED BY <5>1, PairOfTwo
      <4> QED BY <2>4, <4>1, <4>2
    <3> QED BY <1>1, <3>1, <3>2
  <2> QED BY <1>0, <1>1, <1>2, <1>u, <2>2, <2>6 DEF Undisturbed
<1> QED BY <1>3, <1>4, <1>5 DEF SessionIInv

LEMMA ServerSentStep ==
    ASSUME SessionIInv, Session!ServerSent \/ Session!ServerSendFails
    PROVE  SessionIInv'
<1>0. Session!TypeOK /\ OneReceipt /\ NothingBehind /\ Undisturbed
  BY DEF SessionIInv
<1>u. /\ UNCHANGED <<client, receiving, arrived, ops, flight, got, closed, cut, stop>>
      /\ \/ server = "hello sending" /\ server' = "recv"
         \/ server = "goodbye sending" /\ server' = "delete"
      /\ \/ ops["server"] = <<>> /\ gaveUp' = gaveUp
         \/ gaveUp' = gaveUp \cup {"server"}
  BY DEF Session!ServerSent, Session!ServerSendFails, Session!AfterSend, Session!netVars
<1>1. Session!TypeOK'
  BY <1>0, <1>u DEF Session!TypeOK, Session!Sides
<1>2. OneReceipt' /\ NothingBehind'
  BY <1>0, <1>u DEF OneReceipt, NothingBehind
<1>3. Undisturbed'
  BY <1>0, <1>u DEF OneReceipt, Undisturbed, FromClient, FromServer, Greeting, Replies
<1> QED BY <1>1, <1>2, <1>3 DEF SessionIInv

LEMMA ServerRecvStep ==
    ASSUME SessionIInv,
           Session!ServerRecv \/ Session!ServerReceived \/ Session!ServerRecvGivesUp
    PROVE  SessionIInv'
<1>0. Session!TypeOK /\ OneReceipt /\ NothingBehind /\ Undisturbed
  BY DEF SessionIInv
<1>u. UNCHANGED <<client, arrived, ops, flight, got, closed, cut, stop>>
  BY DEF Session!ServerRecv, Session!ServerReceived, Session!ServerRecvGivesUp,
         Session!netVars
<1>1. CASE Session!ServerRecv
  <2>1. Session!TypeOK'
    BY <1>0, <1>u, <1>1 DEF Session!ServerRecv, Session!TypeOK
  <2>2. OneReceipt' /\ NothingBehind'
    BY <1>0, <1>u, <1>1 DEF Session!ServerRecv, OneReceipt, NothingBehind
  <2>3. Undisturbed'
    <3>1. FromClient' = FromClient /\ FromServer' = FromServer /\ Greeting' = Greeting
      BY <1>u DEF FromClient, FromServer, Greeting
    <3>2. Replies' = Replies
      BY <1>1 DEF Session!ServerRecv, Replies
    <3> QED BY <1>0, <1>u, <1>1, <3>1, <3>2 DEF Session!ServerRecv, Undisturbed
  <2> QED BY <2>1, <2>2, <2>3 DEF SessionIInv
<1>2. CASE Session!ServerReceived
  <2>1. Session!TypeOK'
    BY <1>0, <1>u, <1>2 DEF Session!ServerReceived, Session!TypeOK
  <2>2. OneReceipt' /\ NothingBehind'
    BY <1>0, <1>u, <1>2 DEF Session!ServerReceived, OneReceipt, NothingBehind
  <2>3. Undisturbed'
    <3> SUFFICES ASSUME gaveUp = {}, ~cut PROVE Undisturbed'
      BY <1>u, <1>2 DEF Session!ServerReceived, Undisturbed
    <3>1. server = "wait" /\ server' = "goodbye" /\ arrived = "data"
      BY <1>0, <1>2 DEF Session!ServerReceived, Session!TypeOK, Undisturbed
    <3>2. FromClient' = FromClient /\ FromServer' = FromServer /\ Greeting' = Greeting
      BY <1>u DEF FromClient, FromServer, Greeting
    <3>3. Replies' = Replies
      BY <3>1 DEF Replies
    <3> QED BY <1>0, <1>u, <3>1, <3>2, <3>3 DEF Undisturbed
  <2> QED BY <2>1, <2>2, <2>3 DEF SessionIInv
<1>3. CASE Session!ServerRecvGivesUp
  <2>1. Session!TypeOK'
    BY <1>0, <1>u, <1>3 DEF Session!ServerRecvGivesUp, Session!TypeOK, Session!Sides
  <2>2. OneReceipt' /\ NothingBehind'
    BY <1>0, <1>u, <1>3 DEF Session!ServerRecvGivesUp, OneReceipt, NothingBehind
  <2>3. Undisturbed'
    BY <1>3 DEF Session!ServerRecvGivesUp, Undisturbed
  <2> QED BY <2>1, <2>2, <2>3 DEF SessionIInv
<1> QED BY <1>1, <1>2, <1>3

LEMMA DeleteStep ==
    ASSUME SessionIInv, Session!DeleteSSLServer \/ Session!DeletePassiveSock
    PROVE  SessionIInv'
<1>0. /\ Session!TypeOK /\ OneReceipt /\ NothingBehind /\ Undisturbed
      /\ "client" \in Session!Sides /\ "server" \in Session!Sides /\ "client" # "server"
  BY SessionTyped DEF SessionIInv
<1>1. CASE Session!DeleteSSLServer
  <2>u. /\ UNCHANGED <<client, receiving, arrived, ops, flight, got, closed, cut, stop,
                       gaveUp>>
        /\ server = "delete" /\ server' = "freed"
    BY <1>1 DEF Session!DeleteSSLServer, Session!netVars
  <2>1. Session!TypeOK'
    BY <1>0, <2>u DEF Session!TypeOK
  <2>2. OneReceipt' /\ NothingBehind'
    BY <1>0, <2>u DEF OneReceipt, NothingBehind
  <2>3. Undisturbed'
    BY <1>0, <2>u DEF Undisturbed, FromClient, FromServer, Greeting, Replies
  <2> QED BY <2>1, <2>2, <2>3 DEF SessionIInv
<1>2. CASE Session!DeletePassiveSock
  <2>u. /\ UNCHANGED <<client, arrived, flight, got, cut, stop, gaveUp>>
        /\ server = "freed" /\ server' = "ended" /\ receiving' = FALSE
        /\ closed' = closed \cup {"server"}
    BY <1>2 DEF Session!DeletePassiveSock
  <2>0. /\ ops' \in [Session!Sides -> Seq(Session!Messages)]
        /\ ops'["server"] = <<>> /\ ops'["client"] = ops["client"]
    BY <1>0, <1>2, EmptySeq DEF Session!DeletePassiveSock, Session!TypeOK
  <2>1. Session!TypeOK'
    BY <1>0, <2>u, <2>0 DEF Session!TypeOK
  <2>2. OneReceipt' /\ NothingBehind'
    BY <1>0, <2>u, <2>0 DEF OneReceipt, NothingBehind
  <2>3. gaveUp = {} => ops["server"] = <<>>
    BY <1>0, <2>u DEF NothingBehind
  <2>4. Undisturbed'
    BY <1>0, <2>u, <2>0, <2>3 DEF Undisturbed, FromClient, FromServer, Greeting, Replies
  <2> QED BY <2>1, <2>2, <2>4 DEF SessionIInv
<1> QED BY <1>1, <1>2

-----------------------------------------------------------------------------
(* The client.                                                              *)

LEMMA GreetStep ==
    ASSUME SessionIInv, Session!Greet
    PROVE  SessionIInv'
<1>0. /\ Session!TypeOK /\ OneReceipt /\ NothingBehind /\ Undisturbed
      /\ "client" \in Session!Sides /\ "server" \in Session!Sides /\ "client" # "server"
      /\ \A t \in Session!Sides :
             /\ ops[t] \in Seq(Session!Messages) /\ flight[t] \in Seq(Session!Messages)
             /\ got[t] \in Seq(Session!Messages)
  BY SessionTyped DEF SessionIInv
<1>u. /\ UNCHANGED <<server, receiving, arrived, flight, got, closed, cut, stop, gaveUp>>
      /\ client = "greet" /\ client' = "sending" /\ Session!Post("client", "greeting")
  BY DEF Session!Greet, Session!serverVars
<1>1. /\ ops' \in [Session!Sides -> Seq(Session!Messages)] /\ ops'["server"] = ops["server"]
      /\ ops["client"] = <<>> => ops'["client"] = <<"greeting">>
  <2>1. "greeting" \in Session!Messages
    BY DEF Session!Messages
  <2> QED BY <1>0, <1>u, <2>1, Posted
<1>2. Session!TypeOK'
  BY <1>0, <1>u, <1>1 DEF Session!TypeOK
<1>3. OneReceipt' /\ NothingBehind'
  BY <1>0, <1>u, <1>1 DEF OneReceipt, NothingBehind
<1>4. Undisturbed'
  <2> SUFFICES ASSUME gaveUp = {}, ~cut
               PROVE  Undisturbed'
    BY <1>u DEF Undisturbed
  <2>1. FromClient = <<>> /\ ops["client"] = <<>>
    BY <1>0, <1>u DEF Undisturbed, Greeting
  <2>2. got["server"] = <<>> /\ flight["client"] = <<>>
    BY <1>0, <2>1, ConcatEqualIffEmpty, ConcatProperties DEF FromClient
  <2>3. FromClient' = <<"greeting">> /\ Greeting' = <<"greeting">>
    BY <1>u, <1>1, <2>1, <2>2 DEF FromClient, Greeting
  <2>4. FromServer' = FromServer /\ Replies' = Replies
    BY <1>u, <1>1 DEF FromServer, Replies
  <2> QED BY <1>0, <1>u, <1>1, <2>3, <2>4 DEF Undisturbed
<1> QED BY <1>2, <1>3, <1>4 DEF SessionIInv

LEMMA GreetedStep ==
    ASSUME SessionIInv, Session!Greeted \/ Session!GreetFails \/ Session!ReadTimeout
    PROVE  SessionIInv'
<1>0. Session!TypeOK /\ OneReceipt /\ NothingBehind /\ Undisturbed
  BY DEF SessionIInv
<1>u. /\ UNCHANGED <<server, receiving, arrived, ops, flight, got, closed, cut, stop>>
      /\ \/ /\ client = "sending" /\ client' = "listen" /\ ops["client"] = <<>>
            /\ gaveUp' = gaveUp
         \/ /\ client \in {"sending", "listen"} /\ client' \in {"listen", "close"}
            /\ gaveUp' = gaveUp \cup {"client"}
  BY DEF Session!Greeted, Session!GreetFails, Session!ReadTimeout, Session!serverVars,
         Session!netVars
<1>1. Session!TypeOK'
  BY <1>0, <1>u DEF Session!TypeOK, Session!Sides
<1>2. OneReceipt' /\ NothingBehind'
  BY <1>0, <1>u DEF OneReceipt, NothingBehind
<1>3. Undisturbed'
  BY <1>0, <1>u DEF Undisturbed, FromClient, FromServer, Greeting, Replies
<1> QED BY <1>1, <1>2, <1>3 DEF SessionIInv

LEMMA ReadMessageStep ==
    ASSUME SessionIInv, Session!ReadMessage
    PROVE  SessionIInv'
<1>0. /\ Session!TypeOK /\ OneReceipt /\ NothingBehind /\ Undisturbed
      /\ "client" \in Session!Sides /\ "server" \in Session!Sides /\ "client" # "server"
      /\ \A t \in Session!Sides :
             /\ ops[t] \in Seq(Session!Messages) /\ flight[t] \in Seq(Session!Messages)
             /\ got[t] \in Seq(Session!Messages)
  BY SessionTyped DEF SessionIInv
<1> DEFINE m == Head(flight["server"])
           g == Append(got["client"], m)
           f == Tail(flight["server"])
<1>u. /\ UNCHANGED <<server, receiving, arrived, ops, closed, cut, stop, gaveUp>>
      /\ client = "listen" /\ flight["server"] # <<>> /\ ~cut
      /\ flight' = [flight EXCEPT !["server"] = f]
      /\ \/ m = "garbage" /\ client' = "close" /\ got' = got
         \/ m # "garbage" /\ client' = client /\ got' = [got EXCEPT !["client"] = g]
  BY DEF Session!ReadMessage, Session!serverVars
<1>1. /\ g \in Seq(Session!Messages) /\ f \in Seq(Session!Messages)
      /\ g \o (f \o ops["server"]) = FromServer
      /\ \E i \in 1 .. Len(FromServer) : m = FromServer[i]
  <2> DEFINE a == got["client"]   b == flight["server"]   c == ops["server"]
  <2>1. /\ a \in Seq(Session!Messages) /\ b \in Seq(Session!Messages)
        /\ c \in Seq(Session!Messages) /\ b # <<>>
    BY <1>0, <1>u
  <2> HIDE DEF a, b, c, m, f, g
  <2>2. /\ Append(a, Head(b)) \in Seq(Session!Messages) /\ Tail(b) \in Seq(Session!Messages)
        /\ Append(a, Head(b)) \o (Tail(b) \o c) = a \o (b \o c)
    BY <2>1, NextRead
  <2>3. \E i \in 1 .. Len(a \o (b \o c)) : Head(b) = (a \o (b \o c))[i]
    BY <2>1, SentElement
  <2> QED BY <2>2, <2>3, Zenon DEF a, b, c, m, f, g, FromServer
<1>2. gaveUp = {} => m # "garbage"
  <2>2. gaveUp = {} => FromServer = Replies
    BY <1>0, <1>u DEF Undisturbed
  <2> HIDE DEF m
  <2>3. \A i \in 1 .. Len(Replies) : Replies[i] # "garbage"
    <3>1. Replies \in {<<>>, <<"hello">>, <<"hello", "goodbye">>}
      BY DEF Replies
    <3> HIDE DEF Replies
    <3>2. CASE Replies = <<>>
      BY <3>2
    <3>3. CASE Replies = <<"hello">>
      BY <3>3
    <3>4. CASE Replies = <<"hello", "goodbye">>
      BY <3>4
    <3> QED BY <3>1, <3>2, <3>3, <3>4
  <2> QED BY <1>1, <2>2, <2>3
<1> HIDE DEF m, g, f
<1>3. /\ flight' \in [Session!Sides -> Seq(Session!Messages)]
      /\ got' \in [Session!Sides -> Seq(Session!Messages)]
      /\ flight'["server"] = f /\ flight'["client"] = flight["client"]
      /\ got'["server"] = got["server"]
      /\ m # "garbage" => got'["client"] = g
  BY <1>0, <1>u, <1>1 DEF Session!TypeOK
<1>4. Session!TypeOK'
  BY <1>0, <1>u, <1>3 DEF Session!TypeOK
<1>5. OneReceipt' /\ NothingBehind'
  BY <1>0, <1>u DEF OneReceipt, NothingBehind
<1>6. Undisturbed'
  <2> SUFFICES ASSUME gaveUp = {} PROVE Undisturbed'
    BY <1>u DEF Undisturbed
  <2>1. m # "garbage" /\ client' = "listen" /\ got'["client"] = g
    BY <1>2, <1>3, <1>u
  <2>2. FromServer' = FromServer /\ FromClient' = FromClient
    BY <1>u, <1>1, <1>3, <2>1 DEF FromServer, FromClient
  <2>3. Greeting' = Greeting /\ Replies' = Replies
    BY <1>u, <2>1 DEF Greeting, Replies
  <2> QED BY <1>0, <1>u, <1>3, <2>1, <2>2, <2>3 DEF Undisturbed
<1> QED BY <1>4, <1>5, <1>6 DEF SessionIInv

LEMMA ReadEndStep ==
    ASSUME SessionIInv, Session!ReadEnd
    PROVE  SessionIInv'
<1>0. Session!TypeOK /\ OneReceipt /\ NothingBehind /\ Undisturbed
  BY DEF SessionIInv
<1>u. /\ UNCHANGED <<server, receiving, arrived, ops, flight, got, closed, cut, stop, gaveUp>>
      /\ client = "listen" /\ client' = "close" /\ flight["server"] = <<>>
      /\ "server" \in closed
  BY DEF Session!ReadEnd, Session!serverVars, Session!netVars
<1>1. Session!TypeOK'
  BY <1>0, <1>u DEF Session!TypeOK
<1>2. OneReceipt' /\ NothingBehind'
  BY <1>0, <1>u DEF OneReceipt, NothingBehind
<1>3. Undisturbed'
  BY <1>0, <1>u DEF OneReceipt, Undisturbed, FromClient, FromServer, Greeting, Replies
<1> QED BY <1>1, <1>2, <1>3 DEF SessionIInv

LEMMA CloseClientStep ==
    ASSUME SessionIInv, Session!CloseClient
    PROVE  SessionIInv'
<1>0. /\ Session!TypeOK /\ OneReceipt /\ NothingBehind /\ Undisturbed
      /\ "client" \in Session!Sides /\ "server" \in Session!Sides /\ "client" # "server"
  BY SessionTyped DEF SessionIInv
<1>u. /\ UNCHANGED <<server, receiving, arrived, got, cut, stop, gaveUp>>
      /\ client = "close" /\ client' = "ended" /\ closed' = closed \cup {"client"}
  BY DEF Session!CloseClient, Session!serverVars
<1>1. /\ flight' \in [Session!Sides -> Seq(Session!Messages)]
      /\ ops' \in [Session!Sides -> Seq(Session!Messages)]
      /\ flight'["server"] = <<>> /\ flight'["client"] = flight["client"]
      /\ ops'["client"] = <<>> /\ ops'["server"] = ops["server"]
  BY <1>0, EmptySeq DEF Session!CloseClient, Session!TypeOK
<1>2. Session!TypeOK'
  BY <1>0, <1>u, <1>1 DEF Session!TypeOK
<1>3. OneReceipt' /\ NothingBehind'
  BY <1>0, <1>u, <1>1 DEF OneReceipt, NothingBehind
<1>4. Undisturbed'
  BY <1>0, <1>u, <1>1 DEF Undisturbed, FromClient, FromServer, Greeting, Replies
<1> QED BY <1>2, <1>3, <1>4 DEF SessionIInv

-----------------------------------------------------------------------------
LEMMA SessionNext == SessionIInv /\ [Session!Next]_Session!vars => SessionIInv'
<1> SUFFICES ASSUME SessionIInv, [Session!Next]_Session!vars PROVE SessionIInv'
  OBVIOUS
<1>1. ASSUME NEW s \in Session!Sides, Session!KernelSend(s) PROVE SessionIInv'
  BY <1>1, KernelSendStep
<1>2. CASE Session!KernelRecv
  BY <1>2, KernelRecvStep
<1>3. CASE Session!Cut \/ Session!SetStop
  BY <1>3, OutsideStep
<1>4. CASE Session!Worker
  BY <1>4, ServerSendStep, ServerSentStep, ServerRecvStep, DeleteStep DEF Session!Worker
<1>5. CASE Session!ServerSendFails \/ Session!ServerRecvGivesUp
  BY <1>5, ServerSentStep, ServerRecvStep
<1>6. CASE Session!StreamClient
  BY <1>6, GreetStep, GreetedStep, ReadMessageStep, ReadEndStep, CloseClientStep
     DEF Session!StreamClient
<1>7. CASE Session!GreetFails \/ Session!ReadTimeout
  BY <1>7, GreetedStep
<1>8. CASE UNCHANGED Session!vars
  <2>1. /\ UNCHANGED <<client, server, receiving, arrived, ops, flight, got, closed, cut, stop>>
        /\ gaveUp' = gaveUp
    BY <1>8 DEF Session!vars, Session!serverVars, Session!netVars
  <2> QED BY <2>1 DEF SessionIInv, Session!TypeOK, OneReceipt, NothingBehind, Undisturbed,
                      FromClient, FromServer, Greeting, Replies
<1> QED BY <1>1, <1>2, <1>3, <1>4, <1>5, <1>6, <1>7, <1>8 DEF Session!Next, Session!Kernel

-----------------------------------------------------------------------------
\* The two programs and their connection stay in states that make sense.
THEOREM SessionInvariant == Session!Spec => []SessionIInv
BY SessionInit, SessionNext, PTL DEF Session!Spec

\* Every variable keeps its type.
THEOREM SessionTypeCorrect == Session!Spec => []Session!TypeOK
<1>1. SessionIInv => Session!TypeOK
  BY DEF SessionIInv
<1> QED BY <1>1, SessionInvariant, PTL

\* When nothing was given up and the network held, all three messages came:
\* both programs send first, the server closes right behind its second message,
\* and the client reads until then.
THEOREM ConversationWhole == Session!Spec => []WholeConversation
<1>1. SessionIInv => WholeConversation
  <2> SUFFICES ASSUME SessionIInv, client = "ended", gaveUp = {}, ~cut
               PROVE  got["client"] = <<"hello", "goodbye">> /\ got["server"] = <<"greeting">>
    BY DEF WholeConversation
  <2>0. \A t \in Session!Sides :
           /\ ops[t] \in Seq(Session!Messages) /\ flight[t] \in Seq(Session!Messages)
           /\ got[t] \in Seq(Session!Messages)
    BY SessionTyped DEF SessionIInv
  <2>1. /\ server = "ended" /\ flight["server"] = <<>> /\ ops["server"] = <<>>
        /\ ops["client"] = <<>> /\ got["server"] # <<>>
        /\ FromServer = <<"hello", "goodbye">> /\ FromClient = <<"greeting">>
    BY DEF SessionIInv, NothingBehind, Undisturbed, Greeting, Replies
  <2>2. got["client"] = <<"hello", "goodbye">>
    BY <2>0, <2>1, ConcatEmptySeq DEF FromServer, Session!Sides
  <2>3. got["server"] \o flight["client"] = <<"greeting">>
    BY <2>0, <2>1, ConcatEmptySeq DEF FromClient, Session!Sides
  <2>4. flight["client"] = <<>>
    <3> DEFINE g == got["server"]   f == flight["client"]
    <3>1. /\ g \in Seq(Session!Messages) /\ f \in Seq(Session!Messages)
          /\ g # <<>> /\ g \o f = <<"greeting">>
      BY <2>0, <2>1, <2>3 DEF Session!Sides
    <3> HIDE DEF g, f
    <3>2. Len(g) + Len(f) = 1 /\ Len(g) \in Nat \ {0} /\ Len(f) \in Nat
      BY <3>1, ConcatProperties, EmptySeq, LenProperties
    <3>3. Len(f) = 0
      BY <3>2
    <3>4. f = <<>>
      BY <3>1, <3>3, EmptySeq
    <3> QED BY <3>4 DEF f
  <2>5. got["server"] = <<"greeting">>
    BY <2>0, <2>3, <2>4, ConcatEmptySeq DEF Session!Sides
  <2> QED BY <2>2, <2>5
<1> QED BY <1>1, SessionInvariant, PTL

\* The transport's buffers are freed with no operation of the kernel on them,
\* unless the worker has given up on one.
THEOREM BuffersFreedIdle == Session!Spec => []FreedIdle
<1>1. SessionIInv => FreedIdle
  BY DEF SessionIInv, NothingBehind, FreedIdle
<1> QED BY <1>1, SessionInvariant, PTL
=============================================================================
